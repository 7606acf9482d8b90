---------------------------- MODULE HostLifecycle ----------------------------
(***************************************************************************)
(* What happens to a whole host: `sbctl install` (fresh, or replacing what *)
(* is there), `sbctl config mode`, `sbctl uninstall` with and without      *)
(* --purge, and the accounting timer that fires beside them.               *)
(*                                                                         *)
(* The host is which deployment each managed file belongs to and which     *)
(* units are active and enabled.  The operation lock is an inode: a        *)
(* command opens the file, then waits for whoever holds that inode, so a   *)
(* lock file that is deleted excludes nobody.  Install takes the lock four *)
(* times (archive, install, rollback, restore), a mode switch once, and    *)
(* uninstall never.                                                        *)
(* (lifecycle.rs, cli/commands/install.rs, cli/commands/mode.rs,           *)
(* preflight.rs)                                                           *)
(***************************************************************************)
EXTENDS Integers, SequencesExt

CONSTANTS
  Procs,         \* the commands that may run
  Olds,          \* deployments that may be there at first
  DirectOwners,  \* the deployments in Direct mode
  SelfSigned,    \* the deployments whose protocols use a self-signed pair
  None,
  Sessions,      \* what the commands are, and what is installed at first
  MaxFaults      \* bound: steps that fail and commands that die

Kinds  == {"fresh", "replace", "mode", "account", "uninstall", "purge", "absent"}
Owners == Procs \cup Olds

ASSUME HostAssumption ==
  /\ Olds \cap Procs = {} /\ None \notin Owners
  /\ DirectOwners \subseteq Owners /\ SelfSigned \subseteq Owners
  /\ Sessions \subseteq [kind : [Procs -> Kinds], old : Olds \cup {None},
                         stopped : SUBSET {"sing-box", "sbctl"}]
  /\ MaxFaults \in Nat

VARIABLES
  kind,       \* what each command is
  host,       \* files, active units, enabled units
  lockfile,   \* the inode of .operation.lock, 0 when there is none
  inodes,     \* inodes the lock file has had
  opened,     \* the inode each command has opened and waits for or holds
  held,       \* the commands that hold what they opened
  pc, job,
  result,
  found,      \* the host as each command found it
  disturbed,  \* commands during which another one changed the host
  unrestored, \* commands that could not finish their own recovery
  faults

locking == <<lockfile, inodes, opened, held>>
ghosts  == <<found, disturbed, unrestored>>
vars == <<kind, host, locking, pc, job, result, ghosts, faults>>

-----------------------------------------------------------------------------
(* The host.                                                               *)

DataParts == {"artifacts", "state", "certs", "marker"}  \* in /var/lib/sbctl
Parts == DataParts \cup {"config", "active", "units", "socket", "hook", "kernel"}
Units == {"sing-box", "sbctl", "timer", "socket"}
Subscription == {"sing-box", "sbctl"}
Files == [Parts -> Owners \cup {None}]
Hosts == [file : Files, active : SUBSET Units, enabled : SUBSET Units]

Direct(d)  == d \in DirectOwners
Managed(d) == {"sing-box", "sbctl", "timer"}
                \cup (IF Direct(d) THEN {"socket"} ELSE {})
ModeOf(h)  == h.file["config"]      \* whoever wrote it says which mode

Present(h) == {part \in Parts : h.file[part] # None}
Vacant(h)  == Present(h) = {} /\ h.enabled = {}    \* enabled: links in *.wants
Installed(h) == h.file["config"] # None /\ h.file["marker"] # None

Put(h, parts, d) ==
  [h EXCEPT !.file = [part \in Parts |-> IF part \in parts THEN d ELSE @[part]]]
Run(h, started)  == [h EXCEPT !.active = @ \cup started]
Halt(h, stopped) == [h EXCEPT !.active = @ \ stopped]
Enable(h, units) == [h EXCEPT !.enabled = @ \cup units]
Disable(h, units) == [Halt(h, units) EXCEPT !.enabled = @ \ units]

Bare == [file |-> [part \in Parts |-> None], active |-> {}, enabled |-> {}]
Deployed(d, stopped) ==
  [file |-> [part \in Parts |->
               IF \/ part \in {"socket", "hook"} /\ ~Direct(d)
                  \/ part = "certs" /\ ~Direct(d) /\ d \notin SelfSigned
               THEN None ELSE d],
   active |-> Managed(d) \ stopped, enabled |-> Managed(d)]

(* The units whose files are among these paths. *)
UnitsIn(parts) ==
  (IF "units" \in parts THEN {"sing-box", "sbctl", "timer"} ELSE {})
    \cup (IF "socket" \in parts THEN {"socket"} ELSE {})

-----------------------------------------------------------------------------
(* Commands, the lock, failures.                                           *)

NoBackup == [file |-> <<>>, active |-> {}, enabled |-> {}]
NoJob == [committed |-> FALSE, pre |-> {}, listed |-> {}, backup |-> NoBackup,
          touched |-> FALSE, waits |-> FALSE]

Busy(p) == pc[p] \notin {"idle", "done", "dead"}
Goto(p, where) == pc' = [pc EXCEPT ![p] = where]
Set(p, field, value) == job' = [job EXCEPT ![p][field] = value]

Change(p, h) ==
  /\ host' = h
  /\ disturbed' = IF h = host THEN disturbed
                  ELSE disturbed \cup {q \in Procs : q # p /\ Busy(q)}
Quietly == UNCHANGED <<host, disturbed>>

Free(p) == opened[p] # 0 /\ \A q \in held : opened[q] # opened[p]
Acquire(p) == Free(p) /\ held' = held \cup {p} /\ UNCHANGED <<lockfile, inodes, opened>>
LetGo(p) == /\ held' = held \ {p}
            /\ opened' = [opened EXCEPT ![p] = 0]
            /\ UNCHANGED <<lockfile, inodes>>
Unlocked == UNCHANGED locking
Atomically(p) == Free(p) /\ LetGo(p)

(* The short sections of a replacement open, take and leave the lock at    *)
(* once; only a purge could delete the file in between. *)
Briefly == /\ lockfile # 0 => \A q \in held : opened[q] # lockfile
           /\ lockfile' = IF lockfile = 0 THEN inodes + 1 ELSE lockfile
           /\ inodes' = IF lockfile = 0 THEN inodes + 1 ELSE inodes
           /\ UNCHANGED <<opened, held>>

Spend == faults < MaxFaults /\ faults' = faults + 1
NoCost == UNCHANGED faults
Report(p, how) == Goto(p, "done") /\ result' = [result EXCEPT ![p] = how]
NoReport == UNCHANGED result
Keeps == UNCHANGED <<kind, found, unrestored>>

(* Opens the lock file, which is created when it is missing, and waits. *)
OpenLock(p) ==
  /\ pc[p] = "waiting" /\ opened[p] = 0
  /\ LET inode == IF lockfile = 0 THEN inodes + 1 ELSE lockfile
     IN /\ lockfile' = inode
        /\ inodes' = IF lockfile = 0 THEN inode ELSE inodes
        /\ opened' = [opened EXCEPT ![p] = inode]
  /\ UNCHANGED <<held, pc, job>> /\ Quietly /\ NoReport /\ Keeps /\ NoCost

Init ==
  \E s \in Sessions :
    /\ kind = s.kind
    /\ host = IF s.old = None THEN Bare ELSE Deployed(s.old, s.stopped)
    /\ lockfile = IF s.old = None THEN 0 ELSE 1
    /\ inodes = lockfile
    /\ opened = [p \in Procs |-> 0] /\ held = {}
    /\ pc = [p \in Procs |-> "idle"] /\ job = [p \in Procs |-> NoJob]
    /\ result = [p \in Procs |-> "none"]
    /\ found = [p \in Procs |-> host]
    /\ disturbed = {} /\ unrestored = {}
    /\ faults = 0

Starts(p, where) ==
  /\ pc[p] = "idle"
  /\ Goto(p, where) /\ found' = [found EXCEPT ![p] = host]
  /\ UNCHANGED <<kind, unrestored, job>> /\ Quietly /\ Unlocked /\ NoCost

-----------------------------------------------------------------------------
(* Install.                                                                *)

(* The first preflight: a fresh install refuses anything that is there, a  *)
(* replacement only looks at the platform. *)
Preflight(p) ==
  /\ kind[p] \in {"fresh", "replace"}
  /\ \/ kind[p] = "replace" /\ Starts(p, "list") /\ NoReport
     \/ kind[p] = "fresh" /\ Vacant(host) /\ Starts(p, "preflighted") /\ NoReport
     \/ /\ kind[p] = "fresh" /\ ~Vacant(host)
        /\ Starts(p, "done") /\ result' = [result EXCEPT ![p] = "refused"]

(* What is to be replaced is listed before the lock is taken. *)
ListConflicts(p) ==
  /\ pc[p] = "list"
  /\ Set(p, "listed", Present(host))
  /\ Goto(p, IF Vacant(host) THEN "archived" ELSE "listed")
  /\ Quietly /\ Unlocked /\ NoReport /\ Keeps /\ NoCost

(* Archives the listed paths, stops their units, deletes them.  tar fails  *)
(* on a path that is gone; a failure puts everything back in place. *)
Archive(p) ==
  /\ pc[p] = "listed" /\ Briefly
  /\ LET listed == job[p].listed
         units == UnitsIn(listed) \cup host.enabled
         was == [file |-> [part \in listed |-> host.file[part]],
                 active |-> host.active \cap units, enabled |-> host.enabled]
     IN IF listed \subseteq Present(host)
        THEN /\ Set(p, "backup", was)
             /\ Change(p, Put(Disable(host, units), listed, None))
             /\ Goto(p, "archived") /\ NoReport
        ELSE Report(p, "failed") /\ Quietly /\ UNCHANGED job
  /\ Keeps /\ NoCost

ArchiveFails(p) ==
  /\ pc[p] = "listed" /\ Briefly
  /\ Spend /\ Report(p, "failed")
  /\ Quietly /\ Keeps /\ UNCHANGED job

(* The second preflight, now against the cleaned host. *)
Recheck(p) ==
  /\ pc[p] = "archived"
  /\ Goto(p, IF Vacant(host) THEN "preflighted" ELSE "restoring")
  /\ Quietly /\ Unlocked /\ NoReport /\ Keeps /\ NoCost /\ UNCHANGED job

RecheckFails(p) ==        \* a port is taken
  /\ pc[p] = "archived" /\ Spend /\ Goto(p, "restoring")
  /\ Quietly /\ Unlocked /\ NoReport /\ Keeps /\ UNCHANGED job

(* What a rollback must leave alone, sampled without the lock. *)
Sample(p) ==
  /\ pc[p] = "preflighted"
  /\ Set(p, "pre", (IF host.file["config"] # None THEN {"config"} ELSE {})
                     \cup (IF Present(host) \cap DataParts # {} THEN {"data"} ELSE {}))
  /\ Goto(p, "download")
  /\ Quietly /\ Unlocked /\ NoReport /\ Keeps /\ NoCost

Download(p) ==
  /\ pc[p] = "download" /\ Goto(p, "waiting")
  /\ Quietly /\ Unlocked /\ NoReport /\ Keeps /\ NoCost /\ UNCHANGED job

DownloadFails(p) ==
  /\ pc[p] = "download" /\ Spend /\ Goto(p, "failing")
  /\ Quietly /\ Unlocked /\ NoReport /\ Keeps /\ UNCHANGED job

(* Takes the lock and looks again: another install may have finished. *)
EnterInstall(p) ==
  /\ kind[p] \in {"fresh", "replace"} /\ pc[p] = "waiting"
  /\ IF host.file["config"] = None
     THEN Acquire(p) /\ Goto(p, "generate")
     ELSE Atomically(p) /\ Goto(p, "failing")
  /\ Quietly /\ NoReport /\ Keeps /\ NoCost /\ UNCHANGED job

InstallSteps == <<"generate", "initialize", "kernel", "state", "units",
                  "start", "health", "mark">>

(* The files a step writes, in their order. *)
Writes(p, step) ==
  CASE step = "generate"   -> IF p \in SelfSigned THEN <<"certs">> ELSE <<>>
    [] step = "initialize" -> <<"artifacts", "config">>
    [] step = "kernel"     -> <<"kernel">>
    [] step = "state"      -> <<"state">>
    [] step = "units"      -> <<"active", "units">> \o
                              (IF Direct(p) THEN <<"socket", "hook">> ELSE <<>>)
    [] step = "mark"       -> <<"marker">>
    [] OTHER               -> <<>>

(* The units a step has started, and enabled, when it ends. *)
Starting(p, step) == IF step = "start" THEN Managed(p) ELSE {}

InstallStep(p) ==
  \E i \in DOMAIN InstallSteps :
    LET step == InstallSteps[i]
        starts == Starting(p, step)
    IN /\ pc[p] = step
       /\ Change(p, Enable(Run(Put(host, ToSet(Writes(p, step)), p), starts), starts))
       /\ job' = [job EXCEPT ![p].committed = @ \/ step = "initialize"]
       /\ IF step = "mark" THEN Report(p, "ok") /\ LetGo(p)
          ELSE Goto(p, InstallSteps[i + 1]) /\ NoReport /\ Unlocked
       /\ Keeps /\ NoCost

(* A step fails after some of its writes, or with some of its units up.    *)
(* The lock goes with the closure that held it. *)
InstallStepFails(p) ==
  /\ pc[p] \in ToSet(InstallSteps) /\ Spend
  /\ \E n \in 0 .. Len(Writes(p, pc[p])), up \in SUBSET Starting(p, pc[p]) :
       /\ n = 0 \/ n < Len(Writes(p, pc[p]))
       /\ Change(p, Enable(Run(Put(host, ToSet(SubSeq(Writes(p, pc[p]), 1, n)), p), up),
                           Starting(p, pc[p])))
  /\ LetGo(p) /\ Goto(p, "failing")
  /\ NoReport /\ Keeps /\ UNCHANGED job

(* A configuration that is there and not ours is another install's. *)
SomebodyElses(p) == ~job[p].committed /\ host.file["config"] # None

DecideRollback(p) ==
  /\ pc[p] = "failing"
  /\ Goto(p, IF SomebodyElses(p) /\ "config" \notin job[p].pre
             THEN "restoring" ELSE "rollback")
  /\ Quietly /\ Unlocked /\ NoReport /\ Keeps /\ NoCost /\ UNCHANGED job

RolledBack(h, pre) ==
  Put(Disable(h, Units),
      (Parts \ (DataParts \cup {"config"}))
        \cup (IF "config" \in pre THEN {} ELSE {"config"})
        \cup (IF "data" \in pre THEN {} ELSE DataParts),
      None)

(* Looks again under the lock, then removes what an install creates. *)
RollBack(p) ==
  /\ pc[p] = "rollback" /\ Briefly
  /\ IF SomebodyElses(p) THEN Quietly
                         ELSE Change(p, RolledBack(host, job[p].pre))
  /\ Goto(p, "restoring")
  /\ NoReport /\ Keeps /\ NoCost /\ UNCHANGED job

(* systemctl's failures are ignored: the units stay up. *)
RollBackLeavesUnits(p) ==
  /\ pc[p] = "rollback" /\ Briefly /\ Spend
  /\ ~SomebodyElses(p)
  /\ Change(p, [RolledBack(host, job[p].pre) EXCEPT !.active = host.active,
                                                    !.enabled = host.enabled])
  /\ unrestored' = unrestored \cup {p}
  /\ Goto(p, "restoring")
  /\ NoReport /\ UNCHANGED <<kind, found, job>>

(* Unpacks the archive over whatever is there and starts the old units. *)
Unpacked(h, was) ==
  [file |-> [part \in Parts |-> IF part \in DOMAIN was.file THEN was.file[part]
                                                            ELSE h.file[part]],
   active |-> h.active \cup was.active, enabled |-> h.enabled \cup was.enabled]

RestoreReplaced(p) ==
  /\ pc[p] = "restoring"
  /\ IF job[p].backup = NoBackup THEN Unlocked /\ Quietly
     ELSE Briefly /\ Change(p, Unpacked(host, job[p].backup))
  /\ Report(p, "failed")
  /\ Keeps /\ NoCost /\ UNCHANGED job

RestoreFails(p) ==
  /\ pc[p] = "restoring" /\ job[p].backup # NoBackup /\ Briefly /\ Spend
  /\ Quietly /\ Report(p, "failed")
  /\ unrestored' = unrestored \cup {p}
  /\ UNCHANGED <<kind, found, job>>

-----------------------------------------------------------------------------
(* Mode switch.                                                            *)

BeginMode(p) == kind[p] = "mode" /\ Starts(p, "waiting") /\ NoReport

EnterMode(p) ==
  /\ kind[p] = "mode" /\ pc[p] = "waiting"
  /\ IF host.file["config"] # None /\ host.file["kernel"] # None
     THEN Acquire(p) /\ Goto(p, "checking") /\ NoReport
     ELSE Atomically(p) /\ Report(p, "failed")
  /\ found' = [found EXCEPT ![p] = host] /\ disturbed' = disturbed \ {p}
  /\ UNCHANGED <<kind, host, unrestored, job>> /\ NoCost

RefuseModeHolding(p) ==   \* mistaken: an early return without the lock's guard
  /\ pc[p] = "checking" /\ Spend
  /\ Report(p, "failed") /\ Unlocked
  /\ Quietly /\ Keeps /\ UNCHANGED job

(* A port in use, no Certbot, a refused option: nothing has changed yet. *)
RefuseMode(p) ==
  /\ pc[p] = "checking" /\ Spend
  /\ Report(p, "failed") /\ LetGo(p)
  /\ Quietly /\ Keeps /\ UNCHANGED job

(* The accounting task that waits for this command's lock is `activating`, *)
(* which counts as active. *)
Activating == {q \in Procs : kind[q] = "account" /\ Busy(q)}

Capture(p) ==
  /\ pc[p] = "checking"
  /\ job' = [job EXCEPT ![p].backup = host, ![p].waits = Activating # {}]
  /\ Goto(p, "publish")
  /\ Quietly /\ Unlocked /\ NoReport /\ Keeps /\ NoCost

Obtains(p) == Direct(p) /\ job[p].backup.file["certs"] = None

(* Artifacts, active configuration and config.toml, as one transaction     *)
(* that restores itself when it fails. *)
PublishMode(p) ==
  /\ pc[p] = "publish"
  /\ Change(p, Put(host, {"artifacts", "active", "config"}, p))
  /\ Goto(p, "services")
  /\ Unlocked /\ NoReport /\ Keeps /\ NoCost /\ UNCHANGED job

(* It fails, or the daemon's storage cannot be prepared after it. *)
PublishModeFails(p) ==
  /\ pc[p] \in {"publish", "services", "obtain"} /\ Spend /\ Goto(p, "recover")
  /\ Quietly /\ Unlocked /\ NoReport /\ Keeps /\ UNCHANGED job

(* reconcile_subscription_units: service unit, socket and hook follow the  *)
(* mode; a socket unit stays when Direct mode is left. *)
Reconciled(h, d) ==
  LET changed == Direct(h.file["units"]) # Direct(d)
      units == IF changed THEN Put(h, {"units"}, d) ELSE h
  IN IF ~Direct(d) THEN Put(units, {"hook"}, None)
     ELSE Put(units, (IF changed \/ h.file["socket"] = None THEN {"socket"} ELSE {})
                       \cup (IF h.file["hook"] = None THEN {"hook"} ELSE {}), d)

RestartedSocketLeft(h, d) ==       \* mistaken: leaves the socket listening
  IF Direct(d)
  THEN [Run(h, {"sing-box", "sbctl", "socket"}) EXCEPT !.enabled = @ \cup {"socket"}]
  ELSE Run(h, {"sing-box", "sbctl"})

(* restart_services, once the units are reconciled. *)
Restarted(h, d) ==
  IF Direct(d)
  THEN [Run(h, {"sing-box", "sbctl", "socket"}) EXCEPT !.enabled = @ \cup {"socket"}]
  ELSE Run(IF h.file["socket"] = None THEN h ELSE Disable(h, {"socket"}),
           {"sing-box", "sbctl"})

SwitchServices(p) ==
  /\ pc[p] = "services" /\ host.file["units"] # None
  /\ Change(p, Restarted(Reconciled(host, p), p))
  /\ Set(p, "touched", TRUE)
  /\ IF Obtains(p) THEN Goto(p, "obtain") /\ NoReport /\ Unlocked
                   ELSE Report(p, "ok") /\ LetGo(p)
  /\ Keeps /\ NoCost

(* The units fail to be written, or do not come up. *)
SwitchServicesFails(p) ==
  /\ pc[p] = "services" /\ host.file["units"] # None /\ Spend
  /\ \E h \in {host, Reconciled(host, p),
               Halt(Restarted(Reconciled(host, p), p), {"sing-box"}),
               Halt(Restarted(Reconciled(host, p), p), {"sbctl", "socket"})} :
       Change(p, h)
  /\ Set(p, "touched", TRUE) /\ Goto(p, "recover")
  /\ Unlocked /\ NoReport /\ Keeps

NoUnits(p) ==             \* an uninstalled or half installed host
  /\ pc[p] = "services" /\ host.file["units"] = None
  /\ Set(p, "touched", TRUE) /\ Goto(p, "recover")
  /\ Quietly /\ Unlocked /\ NoReport /\ Keeps /\ NoCost

(* Certbot answers; the strict server configuration replaces the           *)
(* bootstrap one. *)
ObtainMode(p) ==
  /\ pc[p] = "obtain"
  /\ Change(p, Restarted(Put(host, {"certs", "artifacts", "active"}, p), p))
  /\ Report(p, "ok") /\ LetGo(p)
  /\ Keeps /\ NoCost /\ UNCHANGED job

(* The pair is there, and the services do not come up with it. *)
ObtainModeFails(p) ==
  /\ pc[p] = "obtain" /\ Spend
  /\ Change(p, Put(host, {"certs"}, p)) /\ Goto(p, "recover")
  /\ Unlocked /\ NoReport /\ Keeps /\ UNCHANGED job

(* Snapshot::restore.  The files it has captured, and the units whose      *)
(* state it has recorded: those that had a file then.  (The timer's own    *)
(* file is not captured, and an uninstallation may have taken it since.)   *)
CapturedParts == {"artifacts", "certs", "config", "active", "units", "socket", "hook"}
PutBack(h, was) ==
  [h EXCEPT !.file = [part \in Parts |-> IF part \in CapturedParts THEN was.file[part] ELSE @[part]]]
Recorded(h, was) ==
  UnitsIn(Present(was)) \ (IF h.file["units"] = None THEN {"timer"} ELSE {})

ResetLinkLeft(h, was) ==           \* mistaken: keeps the link of a unit that came
  LET recorded == Recorded(h, was)
  IN [PutBack(Halt(h, Subscription \cup {"socket"}), was) EXCEPT
        !.enabled = (@ \ recorded) \cup (was.enabled \cap recorded)]

(* What listens is stopped, the files are put back, and every unit is      *)
(* enabled as recorded; one that came meanwhile is disabled.               *)
Reset(h, was) ==
  LET recorded == Recorded(h, was)
  IN [PutBack(Halt(h, Subscription \cup {"socket"}), was) EXCEPT
        !.enabled = (@ \ (UnitsIn(Present(h)) \cup recorded)) \cup (was.enabled \cap recorded)]

(* If one of the two services ran, restart_services starts both, once the  *)
(* units, the socket and the hook follow the configuration put back; it    *)
(* does nothing when there is none. *)
Revives(was) == was.active \cap UnitsIn(Present(was)) \cap Subscription # {}
Revived(h, was) ==
  IF Revives(was) /\ ModeOf(was) # None
  THEN Restarted(Reconciled(h, ModeOf(was)), ModeOf(was)) ELSE h

(* Then each unit recorded is started or stopped.  A socket is not started *)
(* beside a daemon that runs without it, and takes the daemon that         *)
(* requires it along when it stops.                                        *)
Started(h, was, recorded) ==
  LET running == (h.active \ recorded) \cup (was.active \cap recorded)
      refused == "socket" \in running \ h.active /\ "sbctl" \in running
      dragged == "socket" \in recorded \ running /\ Direct(h.file["units"])
  IN [h EXCEPT !.active = running \ ((IF refused THEN {"socket"} ELSE {})
                                       \cup (IF dragged THEN {"sbctl"} ELSE {}))]

Restored(h, was) == Started(Revived(Reset(h, was), was), was, Recorded(h, was))

(* A unit that is not there cannot be stopped, enabled or started, nor the *)
(* services without a configuration: the recovery goes on and is reported  *)
(* as failed. *)
Alarmed(h, was) ==
  \/ ~(Subscription \cup {"socket"} \subseteq h.active \cup UnitsIn(Present(h)))
  \/ Recorded(h, was) # UnitsIn(Present(was))
  \/ Revives(was) /\ ModeOf(was) = None
  \/ "socket" \in (was.active \cap Recorded(h, was)) \ Restored(h, was).active

RecoverFiles(p) ==
  /\ pc[p] = "recover"
  /\ LET was == job[p].backup
     IN /\ Change(p, IF job[p].touched THEN Restored(host, was) ELSE PutBack(host, was))
        /\ IF job[p].touched /\ Alarmed(host, was)
           THEN result' = [result EXCEPT ![p] = "unrecovered"] ELSE NoReport
  /\ Goto(p, "startUnits")
  /\ Unlocked /\ Keeps /\ NoCost /\ UNCHANGED job

(* To start a task that is still activating is to wait for it to end; any  *)
(* other one is stopped. *)
RecoverUnits(p) ==
  /\ pc[p] = "startUnits"
  /\ (job[p].touched /\ job[p].waits) => Activating = {}
  /\ IF job[p].touched /\ ~job[p].waits
     THEN pc' = [q \in Procs |-> IF q = p THEN "done"
                                 ELSE IF q \in Activating THEN "dead" ELSE pc[q]]
     ELSE Goto(p, "done")
  /\ result' = [result EXCEPT ![p] = IF @ = "unrecovered" THEN @ ELSE "failed"]
  /\ LetGo(p) /\ Quietly /\ Keeps /\ NoCost /\ UNCHANGED job

(* Some of it cannot be put back. *)
RecoverFails(p) ==
  /\ pc[p] = "recover" /\ Spend
  /\ \E h \in {host, PutBack(host, job[p].backup)},
        down \in {{}} \cup (IF job[p].touched THEN {Subscription \cup {"socket"}} ELSE {}) :
       Change(p, Halt(h, down))
  /\ Report(p, "unrecovered") /\ LetGo(p)
  /\ unrestored' = unrestored \cup {p}
  /\ UNCHANGED <<kind, found, job>>

-----------------------------------------------------------------------------
(* The accounting timer's task: loads, then waits for the lock.            *)

FireTimer(p) ==
  /\ kind[p] = "account" /\ "timer" \in host.active /\ host.file["config"] # None
  /\ Starts(p, "waiting") /\ NoReport

Account(p) ==
  /\ kind[p] = "account" /\ pc[p] = "waiting" /\ Atomically(p)
  /\ Change(p, IF host.file["state"] = None
               THEN Put(host, {"state"}, found[p].file["config"]) ELSE host)
  /\ Report(p, "ok")
  /\ Keeps /\ NoCost /\ UNCHANGED job

-----------------------------------------------------------------------------
(* Uninstall, which never takes the lock.                                  *)

BeginUninstall(p) ==
  /\ kind[p] \in {"uninstall", "purge"}
  /\ IF Installed(host) THEN Starts(p, "stop") /\ NoReport
     ELSE Starts(p, "done") /\ result' = [result EXCEPT ![p] = "refused"]

StopAll(p) ==
  /\ pc[p] = "stop" /\ Change(p, Disable(host, UnitsIn(Present(host))))
  /\ Goto(p, "units off")
  /\ Unlocked /\ NoReport /\ Keeps /\ NoCost /\ UNCHANGED job

RemoveUnits(p) ==
  /\ pc[p] = "units off"
  /\ Change(p, Put(host, {"units", "socket", "hook", "kernel"}, None))
  /\ IF kind[p] = "purge" THEN Goto(p, "erase") /\ NoReport ELSE Report(p, "ok")
  /\ Unlocked /\ Keeps /\ NoCost /\ UNCHANGED job

EraseConfig(p) ==
  /\ pc[p] = "erase" /\ Change(p, Put(host, {"active", "config"}, None))
  /\ Goto(p, "erase data")
  /\ Unlocked /\ NoReport /\ Keeps /\ NoCost /\ UNCHANGED job

(* The whole data directory, with the lock file in it. *)
EraseData(p) ==
  /\ pc[p] = "erase data" /\ Change(p, Put(host, DataParts, None))
  /\ lockfile' = 0 /\ Report(p, "ok")
  /\ UNCHANGED <<inodes, opened, held, job>> /\ Keeps /\ NoCost

UninstallFails(p) ==      \* systemctl, or a file that cannot be removed
  /\ pc[p] \in {"stop", "units off", "erase", "erase data"} /\ Spend
  /\ Report(p, "failed") /\ unrestored' = unrestored \cup {p}
  /\ Quietly /\ Unlocked /\ UNCHANGED <<kind, found, job>>

(* A command dies where it is; the kernel gives its lock back. *)
Crash(p) ==
  /\ Busy(p) /\ Spend
  /\ Goto(p, "dead") /\ LetGo(p)
  /\ Quietly /\ NoReport /\ Keeps /\ UNCHANGED job

-----------------------------------------------------------------------------
Installing(p) ==
  \/ Preflight(p) \/ ListConflicts(p) \/ Archive(p) \/ Recheck(p) \/ Sample(p)
  \/ Download(p) \/ EnterInstall(p) \/ InstallStep(p)
  \/ DecideRollback(p) \/ RollBack(p) \/ RestoreReplaced(p)

Switching(p) ==
  \/ BeginMode(p) \/ EnterMode(p) \/ Capture(p) \/ PublishMode(p)
  \/ SwitchServices(p) \/ NoUnits(p) \/ ObtainMode(p) \/ RecoverFiles(p) \/ RecoverUnits(p)

Uninstalling(p) ==
  BeginUninstall(p) \/ StopAll(p) \/ RemoveUnits(p) \/ EraseConfig(p) \/ EraseData(p)

(* What a command does by itself once it has been given. *)
Proceeds(p) == OpenLock(p) \/ Installing(p) \/ Switching(p) \/ Account(p) \/ Uninstalling(p)

Failing(p) ==
  \/ ArchiveFails(p) \/ RecheckFails(p) \/ DownloadFails(p) \/ InstallStepFails(p)
  \/ RollBackLeavesUnits(p) \/ RestoreFails(p) \/ RefuseMode(p) \/ PublishModeFails(p)
  \/ SwitchServicesFails(p) \/ ObtainModeFails(p) \/ RecoverFails(p) \/ UninstallFails(p)

AllQuiet == \A p \in Procs : ~Busy(p)
Rest == AllQuiet /\ UNCHANGED vars

Next == Rest \/ \E p \in Procs : Proceeds(p) \/ FireTimer(p) \/ Failing(p) \/ Crash(p)

Spec == Init /\ [][Next]_vars
FairSpec == Spec /\ \A p \in Procs : WF_vars(Busy(p) /\ Proceeds(p))

-----------------------------------------------------------------------------
TypeOK ==
  /\ kind \in [Procs -> Kinds] /\ host \in Hosts
  /\ lockfile \in 0 .. inodes /\ opened \in [Procs -> 0 .. inodes]
  /\ held \subseteq {p \in Procs : opened[p] # 0}
  /\ result \in [Procs -> {"none", "ok", "failed", "unrecovered", "refused"}]
  /\ found \in [Procs -> Hosts]
  /\ disturbed \subseteq Procs /\ unrestored \subseteq Procs

Reports(p, how) == pc[p] # "done" /\ pc'[p] = "done" /\ result'[p] = how

(* A host in one mode: what runs or is enabled has its unit, and service   *)
(* unit, socket and hook are those of the configuration's mode.  A switch  *)
(* or an install that died on the way leaves a host that is not. *)
Coherent(h) ==
  /\ h.active \cup h.enabled \subseteq UnitsIn(Present(h))
  /\ Direct(h.file["units"]) <=> Direct(ModeOf(h))
  /\ h.file["hook"] # None <=> Direct(ModeOf(h))
  /\ IF Direct(ModeOf(h)) THEN "socket" \in h.enabled /\ ("sbctl" \in h.active => "socket" \in h.active)
                          ELSE "socket" \notin h.active \cup h.enabled

(* What a failed switch may make of a host that was not: units and hook    *)
(* are those of the configuration that was there, the socket follows, and  *)
(* the daemon may have stopped; all else is as it was. *)
Mended(was, h) ==
  /\ h.file \in {was.file, Reconciled(was, ModeOf(was)).file}
  /\ h.enabled \ {"socket"} = was.enabled \ {"socket"}
  /\ h.active \ {"socket"} \subseteq was.active
  /\ (was.active \cap UnitsIn(Present(was))) \ {"sbctl", "socket"} \subseteq h.active

LeftAsFound(p, was, h) ==
  h = was \/ (kind[p] = "mode" /\ ~Coherent(was) /\ Mended(was, h))

(* A command that reports a failure, with no other command having changed  *)
(* the host meanwhile and no failure inside its own recovery, leaves every *)
(* file, active unit and enabled unit exactly as it found them: a fresh    *)
(* install leaves nothing, a replacement the old deployment, a mode switch *)
(* the units an administrator had stopped stopped.  So does one that says  *)
(* its recovery failed only because a unit it tried to stop was never      *)
(* there.  Only on a host that another command had left between two modes  *)
(* does a failed switch bring units, hook and socket in line with the      *)
(* configuration it found (Mended), and nothing more. *)
FailureLeavesHost ==
  [][\A p \in Procs, how \in {"failed", "unrecovered"} :
       Reports(p, how) /\ p \notin disturbed' \cup unrestored'
         => LeftAsFound(p, found'[p], host')]_vars

Serves(h, p) ==
  /\ \A part \in {"config", "artifacts", "active"} : h.file[part] = p
  /\ h.file["units"] # None /\ h.file["kernel"] # None
  /\ Direct(h.file["units"]) <=> Direct(p)
  /\ h.file["hook"] # None <=> Direct(p)
  /\ "socket" \in h.active <=> Direct(p)
  /\ Direct(p) => h.file["socket"] # None
  /\ Subscription \subseteq h.active

(* A command that reports success has its whole deployment on the host     *)
(* and running, with units, socket and renewal hook of the mode its        *)
(* configuration is in; an uninstall leaves no unit, and a purge nothing,  *)
(* whatever the other commands of the session did, and wherever one died,  *)
(* before or meanwhile (a recovery that itself failed aside, and a         *)
(* replacement with a fresh installation on either side of it). *)
SuccessIsWhole ==
  [][\A p \in Procs :
       Reports(p, "ok") /\ unrestored = {} =>
         CASE kind[p] \in {"fresh", "replace"} ->
                /\ Serves(host', p)
                /\ \A part \in {"state", "units", "kernel", "marker"} : host'.file[part] = p
                /\ Managed(p) = host'.active /\ Managed(p) = host'.enabled
           [] kind[p] = "mode" -> Serves(host', p)
           [] kind[p] = "uninstall" ->
                /\ host'.active = {} /\ host'.enabled = {}
                /\ \A part \in {"units", "socket", "hook", "kernel"} : host'.file[part] = None
           [] kind[p] = "purge" -> host' = Bare
           [] OTHER -> TRUE]_vars

OwnedBy(h, p) == {part \in Parts : h.file[part] = p}

(* What a failed install undoes is its own: no file of a deployment that   *)
(* another command has reported as done goes with it. *)
RecoverySparesOthers ==
  [][\A p, q \in Procs :
       pc[p] \in {"rollback", "restoring"} /\ pc'[p] # pc[p] /\ q # p /\ result[q] = "ok"
         => OwnedBy(host, q) \subseteq OwnedBy(host', q)]_vars

(* Two commands are never both inside the operation lock. *)
LockExcludes == \A p, q \in held : p = q

(* A mode switch that undoes itself, and still holds the operation lock,   *)
(* never waits for a task that waits for that lock. *)
NeverWaitsForLockTaker ==
  ~\E p \in held : pc[p] = "startUnits" /\ job[p].touched /\ job[p].waits
                    /\ Activating # {}

(* Every command comes to its end: nobody waits for ever for the lock. *)
CommandsEnd == \A p \in Procs : Busy(p) ~> ~Busy(p)
=============================================================================
