----------------------------- MODULE Accounting -----------------------------
(***************************************************************************)
(* Monthly traffic accounting.                                             *)
(*                                                                         *)
(* The state file holds, for one accounting period and one interface, the  *)
(* kernel's counters at the last write (the baseline), what had been used  *)
(* by then, and the manual corrections.  A minutely timer folds the        *)
(* counters into it, an administrator corrects it, a configuration change  *)
(* re-baselines it.  All of them write under the operation lock, but the   *)
(* timer and the correction load the configuration before they take it,    *)
(* and a configuration change writes its file before it knows whether the  *)
(* services come up.                                                       *)
(*                                                                         *)
(* A correction list is abstracted to the sum total_adjustment returns.    *)
(***************************************************************************)
EXTENDS BillingCalendar

CONSTANTS
  Schedules,      \* those a configuration may have
  Timer,          \* sbctl-accounting-reset.service, a oneshot unit
  Admins,         \* administrator commands that may run at the same time
  Interfaces,
  TotalTargets, DirectionTargets,   \* corrections an administrator asks for
  None,
  Top,            \* u64::MAX
  Moments,        \* bound: the instants the clock is looked at
  MaxBytes,       \* bound: traffic units the host carries in all
  MaxCommands,    \* bound: administrator commands
  MaxFaults       \* bound: reboots, counter rollbacks, and commands that die
                  \* or fail under way

Procs   == {Timer} \cup Admins
Dirs    == {"rx", "tx"}
Counts  == [Dirs -> 0..Top]
Configs == [schedule : Schedules, interface : Interfaces]

ASSUME AccountingAssumption ==
  /\ Timer \notin Admins /\ None \notin Procs \cup Configs
  /\ Moments \subseteq Nat /\ Moments # {}
  /\ \A s \in Schedules : s.zone \in Zones
  /\ TotalTargets \subseteq 0..Top
  /\ DirectionTargets \subseteq Counts
  /\ Top \in Nat \ {0} /\ MaxBytes \in 0..Top
  /\ {MaxCommands, MaxFaults} \subseteq Nat

VARIABLES
  config,    \* the accounting part of config.toml
  state,     \* var/lib/sbctl/state.json
  lock,      \* holder of the operation lock
  pc, job,   \* where each command is, and what it works with
  clock,     \* the current instant
  boot,      \* boot_id
  wire,      \* what each interface has carried in all
  zero,      \* what it had carried when the kernel's counter was last 0
  audit,     \* what the figures of the state file should mean
  commands, resets, faults

host   == <<clock, boot, wire, zero, resets>>

Fault == faults < MaxFaults /\ faults' = faults + 1

files  == <<config, state, audit>>
vars   == <<config, state, lock, pc, job, clock, boot, wire, zero, audit,
            commands, resets, faults>>

Capped(n) == IF n > Top THEN Top ELSE n

-----------------------------------------------------------------------------
(***************************************************************************)
(* The figures.                                                            *)
(***************************************************************************)

(* A period is named by the instant it starts at, so two schedules that    *)
(* start a period together name it alike.                                  *)
Period == [s \in Schedules |-> [t \in Moments |-> AccountingPeriod(s, t)]]

CycleKey(c, now) == Key(Period[c.schedule][now])

(* /sys/class/net/<interface>/statistics *)
Counter(i) == [d \in Dirs |-> wire[i][d] - zero[i][d]]

Fresh(key, i) ==
  [key |-> key, interface |-> i, base |-> Counter(i),
   acc |-> [d \in Dirs |-> 0], boot |-> boot, adjustment |-> 0]

(* A direction whose counter went back, or any after a reboot, adds 0. *)
Delta(s, d) ==
  LET m == Counter(s.interface)[d] IN
  IF s.boot = boot /\ m >= s.base[d] THEN m - s.base[d] ELSE 0

Reported(s) == [d \in Dirs |-> Capped(s.acc[d] + Delta(s, d))]

AccumulateOnly(s) == [s EXCEPT !.acc = Reported(s), !.boot = boot]

Accumulate(s) ==
  [s EXCEPT !.acc = Reported(s), !.base = Counter(s.interface), !.boot = boot]

(* corrected_total: the adjustment is signed, the total is not. *)
CorrectedTotal(dirs, adjustment) ==
  LET n == dirs["rx"] + dirs["tx"] + adjustment IN Capped(IF n < 0 THEN 0 ELSE n)

Total(s) == CorrectedTotal(Reported(s), s.adjustment)

CorrectTotalAgain(s, t) ==
  [s EXCEPT !.adjustment = @ + t - Reported(s)["rx"] - Reported(s)["tx"]]

(* A total-only correction appends the difference that is missing to the   *)
(* target after the earlier adjustments; it writes no direction.           *)
CorrectTotal(s, t) ==
  LET target == t - Reported(s)["rx"] - Reported(s)["tx"]
      offset == target - s.adjustment
  IN  [s EXCEPT !.adjustment = @ + offset]

(* A direction-aware one restarts both directions at the target; a sum     *)
(* that does not fit is refused.                                           *)
CorrectDirections(s, dirs) ==
  [s EXCEPT !.acc = dirs, !.base = Counter(s.interface), !.boot = boot]

Fits(target) ==
  target.kind = "directions" => target.value["rx"] + target.value["tx"] <= Top

Corrected(s, target) ==
  IF target.kind = "total" THEN CorrectTotal(s, target.value)
                           ELSE CorrectDirections(s, target.value)

DescribesPeriod(s, key, c) == s # None /\ s.key = key

Describes(s, key, c) == s # None /\ s.key = key /\ s.interface = c.interface

(* reset_with_runtime_locked *)
Reconciled(s, key, c) ==
  IF Describes(s, key, c) THEN Accumulate(s) ELSE Fresh(key, c.interface)

(* accounting_schedule_changed *)
ScheduleChanged(prior, new) == prior # new

-----------------------------------------------------------------------------
(***************************************************************************)
(* Audit.  The figures of the state file stand for what the interface has  *)
(* carried since a mark; they are exact until the next counter reset.      *)
(***************************************************************************)
Carried(i) == wire[i]["rx"] + wire[i]["tx"]

Since(i, dirs) == [d \in Dirs |-> wire[i][d] - dirs[d]]

FreshAudit(i) == [mark |-> wire[i], gen |-> resets, fix |-> None]

Fix(s, i, kind) ==
  [kind |-> kind, mark |-> Carried(i) - Total(s), gen |-> resets]

CorrectedAudit(s, target) ==
  LET i == s.interface
      fix == Fix(Corrected(s, target), i, target.kind)
  IN  IF target.kind = "total"
      THEN [audit EXCEPT !.fix = fix]
      ELSE [mark |-> Since(i, target.value), gen |-> resets, fix |-> fix]

-----------------------------------------------------------------------------
Targets == [kind : {"total"}, value : TotalTargets]
             \cup [kind : {"directions"}, value : DirectionTargets]

Init ==
  /\ config \in Configs
  /\ clock = Min(Moments) /\ boot = 0 /\ resets = 0
  /\ wire = [i \in Interfaces |-> [d \in Dirs |-> 0]]
  /\ zero = wire
  /\ state \in {None, Fresh(CycleKey(config, clock), config.interface)}
  /\ audit = FreshAudit(config.interface)
  /\ lock = None
  /\ pc = [p \in Procs |-> "idle"]
  /\ job = [p \in Procs |-> None]
  /\ commands = 0 /\ faults = 0

Goto(p, where) == pc' = [pc EXCEPT ![p] = where]

Leave(p) ==
  /\ Goto(p, "idle")
  /\ job' = [job EXCEPT ![p] = None]
  /\ lock' = IF lock = p THEN None ELSE lock

(* load(): every command reads the configuration before it has the lock.   *)
Load(p, op, want) ==
  /\ pc[p] = "idle"
  /\ job' = [job EXCEPT ![p] = [op |-> op, cfg |-> config, want |-> want,
                                key |-> None, plan |-> None]]
  /\ Goto(p, "loaded")
  /\ UNCHANGED <<files, lock, host, faults>>

TimerFires == Load(Timer, "reset", None) /\ UNCHANGED commands

(* traffic set-used, or the configuration wizard *)
AdminStarts(p) ==
  /\ commands < MaxCommands /\ commands' = commands + 1
  /\ \/ \E target \in Targets : Load(p, "correct", target)
     \/ \E new \in Configs : Load(p, "commit", new)

(* The period is the one of the instant after the lock was taken.          *)
Acquire(p) ==
  /\ pc[p] = "loaded" /\ lock = None
  /\ lock' = p
  /\ job' = [job EXCEPT ![p].key = CycleKey(job[p].cfg, clock)]
  /\ Goto(p, "locked")
  /\ UNCHANGED <<files, host, commands, faults>>

(* Reads the state file and the counters, and works out what to write.     *)
Plan(p) ==
  LET j == job[p] IN
  /\ pc[p] = "locked"
  /\ \/ /\ j.op = "reset"
        /\ job' = [job EXCEPT ![p].plan =
             [state |-> Reconciled(state, j.key, j.cfg),
              audit |-> IF Describes(state, j.key, j.cfg)
                        THEN audit ELSE FreshAudit(j.cfg.interface)]]
     \/ /\ j.op = "correct"
        /\ Describes(state, j.key, j.cfg) /\ Fits(j.want)
        /\ job' = [job EXCEPT ![p].plan =
             [state |-> Corrected(state, j.want),
              audit |-> CorrectedAudit(state, j.want)]]
  /\ Goto(p, "planned")
  /\ UNCHANGED <<files, lock, host, commands, faults>>

(* StateMissing, StateStale, Overflow; a prompt that no longer describes   *)
(* the deployment.                                                         *)
Refuse(p) ==
  LET j == job[p] IN
  /\ pc[p] = "locked"
  /\ \/ j.op = "correct" /\ ~(Describes(state, j.key, j.cfg) /\ Fits(j.want))
     \/ j.op = "commit" /\ config # j.cfg
  /\ Leave(p)
  /\ UNCHANGED <<files, host, commands, faults>>

(* One atomic replacement; nothing is written when nothing changed. *)
WriteState(p) ==
  /\ pc[p] = "planned"
  /\ state' = job[p].plan.state
  /\ audit' = job[p].plan.audit
  /\ Leave(p)
  /\ UNCHANGED <<config, host, commands, faults>>

(* commit_config_change: config.toml is replaced before the services are   *)
(* restarted.                                                              *)
WriteConfig(p) ==
  /\ pc[p] = "locked" /\ job[p].op = "commit" /\ config = job[p].cfg
  /\ config' = job[p].want
  /\ Goto(p, "tentative")
  /\ UNCHANGED <<state, audit, lock, job, host, commands, faults>>

(* They are up: a changed schedule or interface gets a new baseline        *)
(* (reset_locked) before the lock is dropped.                              *)
Activated(p) ==
  LET new == job[p].want IN
  /\ pc[p] = "tentative"
  /\ IF ScheduleChanged(job[p].cfg, new)
       THEN /\ job' = [job EXCEPT ![p].op = "reset", ![p].cfg = new,
                                  ![p].key = CycleKey(new, clock)]
            /\ Goto(p, "locked")
            /\ UNCHANGED lock
       ELSE Leave(p)
  /\ UNCHANGED <<files, host, commands, faults>>

(* They are not: the prior configuration is put back. *)
ActivationFails(p) ==
  /\ pc[p] = "tentative"
  /\ config' = job[p].cfg
  /\ Leave(p)
  /\ UNCHANGED <<state, audit, host, commands, faults>>

(* The process dies, or cannot read the counters or write the state; after *)
(* a committed configuration that is only a warning.                       *)
Dies(p) ==
  /\ pc[p] # "idle"
  /\ Fault
  /\ Leave(p)
  /\ UNCHANGED <<files, host, commands>>

Tick ==
  /\ \E t \in Moments : t > clock
  /\ clock' = Min({t \in Moments : t > clock})
  /\ UNCHANGED <<files, lock, pc, job, boot, wire, zero, resets, commands, faults>>

Carry(i, d) ==
  /\ MapThenSumSet(Carried, Interfaces) < MaxBytes
  /\ wire' = [wire EXCEPT ![i][d] = @ + 1]
  /\ UNCHANGED <<files, lock, pc, job, clock, boot, zero, resets, commands, faults>>

Reboot ==
  /\ Fault
  /\ resets' = resets + 1
  /\ boot' = boot + 1
  /\ zero' = wire
  /\ pc' = [p \in Procs |-> "idle"]
  /\ job' = [p \in Procs |-> None]
  /\ lock' = None
  /\ UNCHANGED <<files, clock, wire, commands>>

(* A driver is reloaded: its counters start over within one boot. *)
Rollback(i) ==
  /\ Fault
  /\ resets' = resets + 1
  /\ zero' = [zero EXCEPT ![i] = wire[i]]
  /\ UNCHANGED <<files, lock, pc, job, clock, boot, wire, commands>>

Step(p) ==
  \/ Acquire(p) \/ Plan(p) \/ Refuse(p) \/ WriteState(p) \/ WriteConfig(p)
  \/ Activated(p) \/ ActivationFails(p)

Running ==
  \/ TimerFires
  \/ \E p \in Admins : AdminStarts(p)
  \/ \E p \in Procs : Step(p) \/ Dies(p)
  \/ \E i \in Interfaces : Rollback(i) \/ \E d \in Dirs : Carry(i, d)
  \/ Tick

Next == Running \/ Reboot

Spec == Init /\ [][Next]_vars

(* The timer unit is OnCalendar=minutely; no command waits for anything    *)
(* but the lock.                                                           *)
FairSpec ==
  /\ Spec
  /\ WF_vars(TimerFires)
  /\ \A p \in Procs : WF_vars(Step(p))

-----------------------------------------------------------------------------
States == [key : [start : Int, offset : Int], interface : Interfaces, base : [Dirs -> Nat],
           acc : Counts, boot : Nat, adjustment : Int]

(* Types, and who is inside holds the lock; the kernel's counters stay     *)
(* within u64 (reset_with_runtime, correct).                               *)
TypeOK ==
  /\ config \in Configs
  /\ state \in States \cup {None}
  /\ lock \in Procs \cup {None}
  /\ pc \in [Procs -> {"idle", "loaded", "locked", "planned", "tentative"}]
  /\ \A p \in Procs : pc[p] \in {"locked", "planned", "tentative"} <=> lock = p
  /\ \A p \in Procs : pc[p] = "planned" => job[p].plan.state \in States
  /\ \A i \in Interfaces, d \in Dirs : Counter(i)[d] \in 0..Top

(* No byte is counted twice, whatever writes, rollbacks of the counters and *)
(* reboots come between: a direction never reports more than was carried,  *)
(* and until the next counter reset it reports exactly that (accumulate,   *)
(* live_reported, plan_correction; u64 saturation included).               *)
CountsWhatWasCarried ==
  state # None =>
    \A d \in Dirs :
      LET carried == wire[state.interface][d] - audit.mark[d] IN
      /\ Reported(state)[d] <= carried
      /\ audit.gen = resets => Reported(state)[d] = Capped(carried)

(* After a total-only correction the total is the corrected one and what   *)
(* was carried since (ADR-0016: later deltas accumulate on top of it),     *)
(* through the timer's writes, later corrections and any earlier           *)
(* adjustment (plan_correction), as long as no counter starts over and     *)
(* neither direction alone passes u64.                                     *)
TotalOnTopOfCorrection ==
  LET fix == audit.fix
      i   == state.interface
  IN  /\ state # None /\ fix # None
      /\ fix.kind = "total" /\ fix.gen = resets /\ audit.gen = resets
      /\ \A d \in Dirs : wire[i][d] - audit.mark[d] <= Top
      => Total(state) = Capped(Carried(i) - fix.mark)

(* What `sbctl traffic` and the subscription header read as not stale.     *)
Current ==
  /\ state # None
  /\ state.interface = config.interface
  /\ state.key = CycleKey(config, clock)

(* Whatever stale configuration, failed activation or dead command came    *)
(* between, the state file ends up describing the configured interface in  *)
(* the current period: the timer repairs it.                               *)
Converges == <>[]Current
=============================================================================
