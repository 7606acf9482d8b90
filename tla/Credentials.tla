---------------------------- MODULE Credentials ----------------------------
(***************************************************************************)
(* The subscription credentials: the deployment's default link and named   *)
(* links per device, added, revoked and rotated with grace windows by      *)
(* commands that hold the operation lock, write config.toml, restart the   *)
(* services, and put the old configuration back when the restart fails;    *)
(* and the daemon, which serves the configuration it was started on        *)
(* against the clock of each request.                                      *)
(* (src/src/cli/commands/system.rs, src/src/config.rs,                     *)
(*  src/src/subscription/mod.rs)                                           *)
(***************************************************************************)
EXTENDS Integers, Sequences

CONSTANTS Names,       \* device names
          Default,     \* the reserved name: old configurations may hold it
          Graces,      \* grace windows, in seconds
          Main,        \* owner of the default link in the table of promises
          Forever,     \* revoked_at = None
          None, Down,
          MaxTime, MaxIssued, MaxFaults, MaxCrashes    \* bounds

ASSUME CredentialConstants ==
  /\ Graces \subseteq Nat /\ Default \in Names /\ Main \notin Names
  /\ MaxTime \in Nat /\ MaxIssued \in Nat \ {0, 1}
  /\ MaxFaults \in Nat /\ MaxCrashes \in Nat
  /\ Forever \notin Int

VARIABLES config,      \* subscription_credential and subscription_credentials
          loaded,      \* the configuration the daemon runs on, or Down
          tx,          \* the command holding the lock, None when there is none
          now,         \* wall clock
          issued,      \* secrets drawn so far: secret i is the i-th
          promised,    \* until when each secret was last reported to work
          suspect,     \* a command died, or could not put the old configuration back
          faults, crashes

vars == <<config, loaded, tx, now, issued, promised, suspect, faults, crashes>>

Secrets == 1..MaxIssued
Until == Int \cup {Forever}
Unissued == -1
Instants == 0..MaxTime \cup {t + g : t \in 0..MaxTime, g \in Graces}

Configs ==
  [main : Secrets,
   named : Seq([name : Names, secret : Secrets, until : Until])]

Transactions ==
  [prior : Configs, drawn : Nat, report : [Secrets -> Until \cup {Unissued}],
   phase : {"restarting", "recovering"}]

ASSUME NoneAssumption == None \notin Transactions

-----------------------------------------------------------------------------
Live(until) == until = Forever \/ until > now

(* NamedCredential::is_active *)
IsActive(entry) == Live(entry.until)

(* What an expiry becomes when a command asks for another one. *)
Sooner(old, until) == IF old = Forever \/ until < old THEN until ELSE old

ActiveOf(n) == {i \in DOMAIN config.named :
                  config.named[i].name = n /\ IsActive(config.named[i])}

First(S) == {i \in S : \A j \in S : i <= j}

(* One live record per name, whatever retires beside it. *)
Validate(c) ==
  \A i, j \in DOMAIN c.named :
    /\ c.named[i].name = c.named[j].name
    /\ c.named[i].until = Forever /\ c.named[j].until = Forever
      => i = j

Matches(c, s) ==
  \/ c.main = s
  \/ \E i \in DOMAIN c.named : c.named[i].secret = s /\ IsActive(c.named[i])

(* The links a configuration serves now. *)
Table(c) ==
  [s \in {x \in Secrets : Matches(c, x)} |->
     IF c.main = s THEN [owner |-> Main, until |-> Forever]
     ELSE LET i == CHOOSE j \in DOMAIN c.named :
                     c.named[j].secret = s /\ IsActive(c.named[j])
          IN [owner |-> c.named[i].name, until |-> c.named[i].until]]

-----------------------------------------------------------------------------
(* A change of the configuration, made under the lock by a command that    *)
(* draws the secrets up to drawn and will report what report says of them. *)
Transaction(new, drawn, report) ==
  /\ tx = None
  /\ Validate(new)
  /\ tx' = [prior |-> config, drawn |-> issued, report |-> report,
            phase |-> "restarting"]
  /\ config' = new
  /\ issued' = drawn
  /\ UNCHANGED <<loaded, now, promised, suspect, faults, crashes>>

Fresh(n) == [name |-> n, secret |-> issued + 1, until |-> Forever]

(* The first expired record of the name leaves its place to the new one. *)
Add(n) ==
  LET old == {i \in DOMAIN config.named : config.named[i].name = n}
      new(named) == Transaction([config EXCEPT !.named = named], issued + 1,
                                [promised EXCEPT ![issued + 1] = Forever])
  IN
  /\ n # Default
  /\ issued < MaxIssued
  /\ ActiveOf(n) = {}
  /\ \/ old = {} /\ new(Append(config.named, Fresh(n)))
     \/ \E i \in First(old) : new([config.named EXCEPT ![i] = Fresh(n)])

Revoke(n, grace) ==
  LET until == now + grace
      named == [i \in DOMAIN config.named |->
                  IF i \in ActiveOf(n)
                    THEN [config.named[i] EXCEPT !.until = Sooner(@, until)]
                    ELSE config.named[i]]
      report == [s \in Secrets |->
                   IF \E i \in ActiveOf(n) : config.named[i].secret = s
                     THEN Sooner(promised[s], until) ELSE promised[s]]
  IN
  /\ ActiveOf(n) # {}
  /\ Transaction([config EXCEPT !.named = named], issued, report)

(* The live record, or else the first one still in its grace window. *)
Rotated(n) ==
  LET live == {i \in DOMAIN config.named :
                 config.named[i].name = n /\ config.named[i].until = Forever}
  IN First(IF live # {} THEN live ELSE ActiveOf(n))

(* Mutant of Rotate: the old link is dropped whatever the window.          *)
RotateForgets(n, grace) ==
  \E i \in Rotated(n) :
    /\ issued < MaxIssued
    /\ Transaction([config EXCEPT !.named[i] = Fresh(n)], issued + 1,
         [promised EXCEPT ![config.named[i].secret] = Sooner(@, now + grace),
                          ![issued + 1] = Forever])

(* Mutant of Rotate: the window starts anew, whatever was promised.        *)
RotateExtends(n, grace) ==
  \E i \in Rotated(n) :
    LET retired == [config.named[i] EXCEPT !.until = now + grace] IN
    /\ issued < MaxIssued
    /\ Transaction([config EXCEPT !.named =
                      [Append(@, retired) EXCEPT ![i] = Fresh(n)]],
                   issued + 1,
                   [promised EXCEPT ![retired.secret] = now + grace,
                                    ![issued + 1] = Forever])

Rotate(n, grace) ==
  \E i \in Rotated(n) :
    LET old == config.named[i]
        retired == [old EXCEPT !.until = Sooner(@, now + grace)]
        kept == IF grace > 0 THEN Append(config.named, retired) ELSE config.named
    IN
    /\ issued < MaxIssued
    /\ Transaction([config EXCEPT !.named = [kept EXCEPT ![i] = Fresh(n)]],
                   issued + 1,
                   [promised EXCEPT ![old.secret] = Sooner(@, now + grace),
                                    ![issued + 1] = Forever])

RotateDefault ==
  /\ issued < MaxIssued
  /\ Transaction([config EXCEPT !.main = issued + 1],
                 issued + 1,
                 [promised EXCEPT ![config.main] = now,
                                  ![issued + 1] = Forever])

-----------------------------------------------------------------------------
(* Mutant of Restarted: only the data plane is restarted. *)
RestartedBlind ==
  /\ tx # None
  /\ promised' = IF tx.phase = "recovering" THEN promised ELSE tx.report
  /\ tx' = None
  /\ UNCHANGED <<config, loaded, now, issued, suspect, faults, crashes>>

(* restart_services succeeds: the daemon runs on the file, and a change is *)
(* reported as made, a recovery as failed with the old deployment back.    *)
Restarted ==
  /\ tx # None
  /\ loaded' = config
  /\ promised' = IF tx.phase = "recovering" THEN promised ELSE tx.report
  /\ tx' = None
  /\ UNCHANGED <<config, now, issued, suspect, faults, crashes>>

(* replace_locked fails, or the services do not come up: the prior bytes   *)
(* are written back, or that write fails as well and the new ones stay.    *)
RestartFails ==
  /\ tx # None /\ tx.phase = "restarting"
  /\ \/ /\ faults < MaxFaults /\ faults' = faults + 1
        /\ config' = tx.prior
        /\ tx' = [tx EXCEPT !.phase = "recovering"]
        /\ suspect' = suspect
     \/ /\ faults + 1 < MaxFaults /\ faults' = faults + 2
        /\ tx' = None
        /\ suspect' = TRUE
        /\ config' = config
  /\ UNCHANGED <<loaded, now, issued, promised, crashes>>

RecoveryRestartFails ==
  /\ tx # None /\ tx.phase = "recovering"
  /\ faults < MaxFaults /\ faults' = faults + 1
  /\ tx' = None
  /\ UNCHANGED <<config, loaded, now, issued, promised, suspect, crashes>>

(* The process dies; the kernel drops its lock. *)
Crash ==
  /\ tx # None
  /\ crashes < MaxCrashes /\ crashes' = crashes + 1
  /\ tx' = None
  /\ suspect' = TRUE
  /\ UNCHANGED <<config, loaded, now, issued, promised, faults>>

(* The daemon dies, or comes up by itself: Restart=on-failure, a           *)
(* connection to its socket, or the restart under way.                     *)
DaemonStarts ==
  /\ loaded' = config
  /\ UNCHANGED <<config, tx, now, issued, promised, suspect, faults, crashes>>

DaemonDies ==
  /\ loaded # Down
  /\ loaded' = Down
  /\ UNCHANGED <<config, tx, now, issued, promised, suspect, faults, crashes>>

Tick ==
  /\ now < MaxTime
  /\ now' = now + 1
  /\ UNCHANGED <<config, loaded, tx, issued, promised, suspect, faults, crashes>>

-----------------------------------------------------------------------------
(* An old configuration may name a device "default". *)
Init ==
  /\ \E legacy \in BOOLEAN :
       /\ config = [main |-> 1,
                    named |-> IF legacy THEN <<[name |-> Default, secret |-> 2,
                                                until |-> Forever]>>
                              ELSE <<>>]
       /\ issued = IF legacy THEN 2 ELSE 1
       /\ promised = [s \in Secrets |->
                        IF s = 1 \/ (legacy /\ s = 2) THEN Forever ELSE Unissued]
  /\ loaded = config
  /\ tx = None
  /\ now = 0
  /\ suspect = FALSE
  /\ faults = 0 /\ crashes = 0

Command ==
  \/ \E n \in Names : \/ Add(n)
                      \/ \E g \in Graces : Revoke(n, g) \/ Rotate(n, g)
  \/ RotateDefault

Next ==
  \/ Command \/ Restarted \/ RestartFails
  \/ RecoveryRestartFails \/ Crash \/ DaemonStarts \/ DaemonDies \/ Tick

Spec == Init /\ [][Next]_vars

-----------------------------------------------------------------------------
(* Types of the file, the daemon's copy and the command's snapshot.        *)
TypeOK ==
  /\ config \in Configs
  /\ loaded \in Configs \cup {Down}
  /\ tx \in Transactions \cup {None}
  /\ now \in 0..MaxTime /\ issued \in Secrets
  /\ promised \in [Secrets -> Until \cup {Unissued}]
  /\ suspect \in BOOLEAN
  /\ faults \in 0..MaxFaults /\ crashes \in 0..MaxCrashes

(* A link is never served beyond the expiry last reported for it, by any   *)
(* daemon that is up, through later commands, rollbacks, crashes and       *)
(* restarts ("Serving an expired one is impossible", config.rs:487-490).   *)
ServedWithinPromise ==
  loaded # Down =>
    \A s \in Secrets :
      Matches(loaded, s) /\ promised[s] # Unissued => Live(promised[s])

(* With no command under way, and none that died or left its change behind *)
(* unreported, a link works exactly as long as was reported:               *)
(* a failed command changed nobody's access, a grace window is not cut     *)
(* short by adding or rotating another link, and no link works that was    *)
(* never reported.                                                         *)
LinksAsReported ==
  tx = None /\ ~suspect =>
    \A s \in Secrets :
      Matches(config, s) <=> promised[s] # Unissued /\ Live(promised[s])

(* With the lock free the commands behave as steps of the table of         *)
(* promises, each done at once or not at all: one current link per name,   *)
(* fresh when it appears, and retired links that nobody extends.           *)
Promises == INSTANCE CredentialPromises WITH
  Times <- Instants,
  table <- Table(IF tx = None THEN config ELSE tx.prior),
  used <- 1..(IF tx = None THEN issued ELSE tx.drawn)

PromisesKept == Promises!Spec
=============================================================================
