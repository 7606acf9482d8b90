------------------------- MODULE UpdateTransaction -------------------------
(***************************************************************************)
(* Replacing the binaries of a running deployment: `sbctl update` (both),  *)
(* and `sbctl sing-box update|install|fetch` (the data plane alone).       *)
(*                                                                         *)
(* Under the operation lock an update checks its sing-box candidate        *)
(* against the active server configuration, makes a rollback point (the    *)
(* oldest beyond the kept window goes), copies everything it might touch   *)
(* into it, replaces the binaries, restarts the services and, when they do *)
(* not come up, puts the copy back file by file.  Configuration commands   *)
(* take the same lock; Certbot's hook and the certificate commands do not, *)
(* and publish the pinned pair at any moment.                              *)
(* (src/src/update.rs, src/src/lifecycle.rs)                               *)
(***************************************************************************)
EXTENDS Integers, SequencesExt

CONSTANTS
  Updaters,
  Versions,      \* of a binary: an official and a signed one may differ
  Configs,       \* configuration, artifacts, state and units, as one
  Accepts,       \* sing-box versions and the configurations they accept
  Unhealthy,     \* versions whose services do not stay active
  None, Down,
  Kept,          \* ROLLBACK_GENERATIONS_KEPT
  MaxRenewals,   \* bound: certificates Certbot obtains
  MaxFaults,     \* bound: steps that fail
  MaxCrashes,    \* bound: updates that die
  MaxUpdates     \* bound: updates begun

ASSUME UpdateAssumption ==
  /\ Accepts \subseteq Versions \X Configs
  /\ Unhealthy \subseteq Versions
  /\ None \notin Updaters
  /\ Kept \in Nat \ {0}
  /\ {MaxRenewals, MaxFaults, MaxCrashes, MaxUpdates} \subseteq Nat

VARIABLES
  disk,       \* the installed binaries and configuration
  pinned,     \* the published certificate directory: chain and key
  live,       \* the pair Certbot has
  running,    \* what each service was started on, or Down
  points,     \* the rollback points, oldest first
  lock, pc,
  job,        \* what an update works with
  suspect,    \* an update died, could not set the mode of a new binary, or
              \* could not put everything back and restart
  faults, crashes, updates

update  == <<lock, pc, job>>
counted == <<faults, crashes, updates>>
vars == <<disk, pinned, live, running, points, update, suspect, counted>>

Binaries == {"sbctl", "singBox"}
Disks    == [sbctl : Versions, singBox : Versions, config : Configs]
Pairs    == [chain : Nat, key : Nat]
Daemons  == [version : Versions, config : Configs, pair : Pairs]
Copies   == [disk : Disks, pair : Pairs]

ASSUME NothingAssumption == None \notin Copies /\ Down \notin Daemons

-----------------------------------------------------------------------------
Goto(u, where) == pc' = [pc EXCEPT ![u] = where]

Fault == faults < MaxFaults /\ faults' = faults + 1 /\ UNCHANGED <<crashes, updates>>

(* "left": failed, and nothing was tried to put back; "not restored": it   *)
(* was, and failed too.                                                    *)
Over == {"idle", "done", "failed", "left", "not restored"}

(* The command is over. *)
Finish(u, result) ==
  /\ Goto(u, result)
  /\ lock' = None
  /\ job' = [job EXCEPT ![u] = None]

(* check_sing_box_config *)
Checked(v, c) == <<v, c>> \in Accepts

(* What a service started now runs on. *)
Started(d, p, service) == [version |-> d[service], config |-> d.config, pair |-> p]

ComesUp(d, services) == \A s \in services : d[s] \notin Unhealthy

-----------------------------------------------------------------------------
(* acquire_operation_lock, and the check of the candidate under it.        *)
Acquire(u) ==
  /\ lock = None
  /\ pc[u] \in Over
  /\ updates < MaxUpdates
  /\ \E scope \in {Binaries, {"singBox"}} : \E new \in [scope -> Versions] :
       /\ Checked(new["singBox"], disk.config)
       /\ job' = [job EXCEPT ![u] =
            [new |-> new, before |-> disk, dir |-> None, saved |-> None]]
  /\ lock' = u
  /\ Goto(u, "checked")
  /\ updates' = updates + 1
  /\ UNCHANGED <<disk, pinned, live, running, points, suspect, faults, crashes>>

(* Mutant of Prune: the new point is not counted. *)
PruneOthers(p) == IF Len(p) > Kept + 1 THEN SubSeq(p, Len(p) - Kept, Len(p)) ELSE p

(* prune_rollback_history *)
Prune(p) == IF Len(p) > Kept THEN SubSeq(p, Len(p) - Kept + 1, Len(p)) ELSE p

(* rollback_directory: the empty point exists before the oldest goes.      *)
MakePoint(u) ==
  /\ pc[u] = "checked"
  /\ points' = Prune(Append(points, None))
  /\ Goto(u, "pointed")
  /\ UNCHANGED <<disk, pinned, live, running, lock, job, suspect, counted>>

(* read_pair: the generation is opened once ... *)
OpenPair(u) ==
  /\ pc[u] = "pointed"
  /\ job' = [job EXCEPT ![u].dir = pinned]
  /\ Goto(u, "opened")
  /\ UNCHANGED <<disk, pinned, live, running, points, lock, suspect, counted>>

(* Mutant of ReadPair: the files are read by their paths. *)
ReadPairByPath(u) == [chain |-> job[u].dir.chain, key |-> pinned.key]

(* ... and both files are read in it. *)
ReadPair(u) == job[u].dir

(* backup: everything an update might touch is copied into the point.      *)
Backup(u) ==
  LET copy == [disk |-> disk, pair |-> ReadPair(u)] IN
  /\ pc[u] = "opened"
  /\ job' = [job EXCEPT ![u].saved = copy]
  /\ points' = [points EXCEPT ![Len(points)] = copy]
  /\ Goto(u, "saved")
  /\ UNCHANGED <<disk, pinned, live, running, lock, suspect, counted>>

(* The point cannot be made or filled, or the pair's generation was        *)
(* removed between its opening and its reading.                            *)
BackupFails(u) ==
  /\ pc[u] \in {"checked", "pointed", "opened"}
  /\ \/ Fault
     \/ pc[u] = "opened" /\ job[u].dir # pinned /\ UNCHANGED counted
  /\ Finish(u, "failed")
  /\ UNCHANGED <<disk, pinned, live, running, points, suspect>>

(* What a command replaces and restarts: sbctl update both, the others one. *)
Restarted(u) == DOMAIN job[u].new

(* sbctl first, if it is replaced at all, then sing-box. *)
NextBinary(u) ==
  IF pc[u] = "saved" /\ "sbctl" \in Restarted(u) THEN "sbctl" ELSE "singBox"

(* write_managed_binary *)
WriteBinary(u) ==
  LET b == NextBinary(u) IN
  /\ pc[u] \in {"saved", "written"}
  /\ disk' = [disk EXCEPT ![b] = job[u].new[b]]
  /\ Goto(u, IF b = "sbctl" THEN "written" ELSE "replaced")
  /\ UNCHANGED <<pinned, live, running, points, lock, job, suspect, counted>>

(* Mutant of WriteFails: a failed second write is returned like the first. *)
WriteFailsAtOnce(u) ==
  /\ pc[u] \in {"saved", "written"}
  /\ Fault
  /\ Finish(u, "failed")
  /\ UNCHANGED <<disk, pinned, live, running, points, suspect>>

(* The first write failed: nothing was changed before it.  The second: the *)
(* first has to be taken back, and the services still run on what was      *)
(* there.                                                                  *)
WriteFails(u) ==
  /\ pc[u] \in {"saved", "written"}
  /\ Fault
  /\ IF pc[u] = "saved" THEN Finish(u, "failed")
     ELSE Goto(u, "undo sbctl") /\ UNCHANGED <<lock, job>>
  /\ UNCHANGED <<disk, pinned, live, running, points, suspect>>

(* A file was renamed into place and its mode could not be set.  After the *)
(* first the error is returned and the file stays.  After the second both  *)
(* are put back, and no service is restarted, although Certbot's hook may  *)
(* have restarted sing-box on the new one.                                 *)
ChmodFails(u) ==
  LET b == NextBinary(u) IN
  /\ pc[u] \in {"saved", "written"}
  /\ Fault
  /\ disk' = [disk EXCEPT ![b] = job[u].new[b]]
  /\ suspect' = TRUE
  /\ IF pc[u] = "saved" THEN Finish(u, "left")
     ELSE Goto(u, "undo sbctl") /\ UNCHANGED <<lock, job>>
  /\ UNCHANGED <<pinned, live, running, points>>

-----------------------------------------------------------------------------
(* restart_services, restart_sing_box_service: all stay active. *)
RestartOk(u) ==
  /\ pc[u] = "replaced"
  /\ ComesUp(disk, Restarted(u))
  /\ running' = [s \in Binaries |-> IF s \in Restarted(u)
                                    THEN Started(disk, pinned, s) ELSE running[s]]
  /\ suspect' = (suspect /\ Restarted(u) # Binaries)
  /\ Finish(u, "done")
  /\ UNCHANGED <<disk, pinned, live, points, counted>>

(* They do not: some are down, some run on the new files, and those whose  *)
(* turn had not come run on as before.                                     *)
HalfRestarted(u) ==
  \E up \in SUBSET (Restarted(u) \ {s \in Binaries : disk[s] \in Unhealthy}) :
  \E down \in SUBSET (Restarted(u) \ up) :
    running' = [s \in Binaries |->
                  IF s \in up THEN Started(disk, pinned, s)
                  ELSE IF s \in down THEN Down ELSE running[s]]

RestartFails(u) ==
  /\ pc[u] = "replaced"
  /\ \/ Fault
     \/ ~ComesUp(disk, Restarted(u)) /\ UNCHANGED counted
  /\ HalfRestarted(u)
  /\ Goto(u, "restore sbctl")
  /\ UNCHANGED <<disk, pinned, live, points, lock, job, suspect>>

(* restore_entry, in the order of MANAGED_PATHS, for either rollback.      *)
After == [x \in {"undo sbctl", "undo singBox", "undo config",
                 "restore sbctl", "restore singBox", "restore config"} |->
            CASE x = "undo sbctl"      -> <<"sbctl", "undo singBox">>
              [] x = "undo singBox"    -> <<"singBox", "undo config">>
              [] x = "undo config"     -> <<"config", "undo pair">>
              [] x = "restore sbctl"   -> <<"sbctl", "restore singBox">>
              [] x = "restore singBox" -> <<"singBox", "restore config">>
              [] x = "restore config"  -> <<"config", "restore pair">>]

Entry(u) ==
  /\ pc[u] \in DOMAIN After
  /\ LET entry == After[pc[u]][1] IN
       disk' = [disk EXCEPT ![entry] = job[u].saved.disk[entry]]

RestoreEntry(u) ==
  /\ Entry(u)
  /\ Goto(u, After[pc[u]][2])
  /\ UNCHANGED <<pinned, live, running, points, lock, job, suspect, counted>>

(* write_private_pair: the pair of the copy is exchanged in, whatever was  *)
(* published since.  After a failed restart the services are restarted on  *)
(* what is there again.                                                    *)
Pair(u) ==
  /\ pc[u] \in {"undo pair", "restore pair"}
  /\ pinned' = job[u].saved.pair

RestorePair(u) ==
  /\ Pair(u)
  /\ IF pc[u] = "undo pair" THEN Finish(u, "failed")
     ELSE Goto(u, "restart") /\ UNCHANGED <<lock, job>>
  /\ UNCHANGED <<disk, live, running, points, suspect, counted>>

(* A warning, or UpdateError::Rollback without another restart: the message *)
(* says that the rollback failed too.                                      *)
RestoreFails(u) ==
  /\ pc[u] \in DOMAIN After \cup {"undo pair", "restore pair"}
  /\ Fault
  /\ \/ UNCHANGED <<disk, pinned>>
     \/ Entry(u) /\ UNCHANGED pinned   \* its mode could not be set
     \/ Pair(u) /\ UNCHANGED disk      \* its group could not be set
  /\ suspect' = TRUE
  /\ Finish(u, "not restored")
  /\ UNCHANGED <<live, running, points>>

(* Mutant of RestartBack: the services are left as they are. *)
RestartBackForgotten(u) ==
  /\ pc[u] = "restart"
  /\ Finish(u, "failed")
  /\ UNCHANGED <<disk, pinned, live, running, points, suspect, counted>>

RestartBack(u) ==
  /\ pc[u] = "restart"
  /\ ComesUp(disk, Restarted(u))
  /\ running' = [s \in Binaries |-> IF s \in Restarted(u)
                                    THEN Started(disk, pinned, s) ELSE running[s]]
  /\ Finish(u, "failed")
  /\ UNCHANGED <<disk, pinned, live, points, suspect, counted>>

(* Only a warning. *)
RestartBackFails(u) ==
  /\ pc[u] = "restart"
  /\ \/ Fault
     \/ ~ComesUp(disk, Restarted(u)) /\ UNCHANGED counted
  /\ HalfRestarted(u)
  /\ suspect' = TRUE
  /\ Finish(u, "failed")
  /\ UNCHANGED <<disk, pinned, live, points>>

(* The process dies; the kernel drops its lock. *)
Crash(u) ==
  /\ lock = u
  /\ crashes < MaxCrashes /\ crashes' = crashes + 1
  /\ suspect' = TRUE
  /\ Finish(u, "idle")
  /\ UNCHANGED <<disk, pinned, live, running, points, faults, updates>>

-----------------------------------------------------------------------------
(* systemd starts a service that is down again (Restart=on-failure).       *)
ServiceRetries(s) ==
  /\ running[s] = Down /\ disk[s] \notin Unhealthy
  /\ running' = [running EXCEPT ![s] = Started(disk, pinned, s)]
  /\ UNCHANGED <<disk, pinned, live, points, update, suspect, counted>>

(* Mutant of Configure: nobody asks sing-box. *)
ConfigureUnchecked(c) ==
  /\ lock = None
  /\ disk' = [disk EXCEPT !.config = c]
  /\ running' = [s \in Binaries |-> Started(disk', pinned, s)]
  /\ UNCHANGED <<pinned, live, points, update, suspect, counted>>

(* A configuration command, all of it under the lock (its own failures are *)
(* DeploymentTransaction's): the installed sing-box accepts what it        *)
(* publishes and the services come up on it.                               *)
Configure(c) ==
  /\ lock = None
  /\ Checked(disk.singBox, c)
  /\ ComesUp(disk, Binaries)
  /\ disk' = [disk EXCEPT !.config = c]
  /\ running' = [s \in Binaries |-> Started(disk', pinned, s)]
  /\ suspect' = FALSE
  /\ UNCHANGED <<pinned, live, points, update, counted>>

(* Certbot renews, and its hook publishes the pair as one generation and   *)
(* try-restarts sing-box, with no operation lock.                          *)
Renew ==
  /\ live < MaxRenewals
  /\ live' = live + 1
  /\ UNCHANGED <<disk, pinned, running, points, update, suspect, counted>>

Publish ==
  /\ pinned.chain # live
  /\ pinned' = [chain |-> live, key |-> live]
  /\ running' = [running EXCEPT !["singBox"] =
       IF @ = Down \/ disk["singBox"] \in Unhealthy THEN Down
       ELSE Started(disk, pinned', "singBox")]
  /\ UNCHANGED <<disk, live, points, update, suspect, counted>>

-----------------------------------------------------------------------------
Init ==
  /\ disk \in Disks
  /\ Checked(disk.singBox, disk.config) /\ ComesUp(disk, Binaries)
  /\ live = 0 /\ pinned = [chain |-> 0, key |-> 0]
  /\ running = [s \in Binaries |-> Started(disk, pinned, s)]
  /\ points = <<>>
  /\ lock = None
  /\ pc = [u \in Updaters |-> "idle"]
  /\ job = [u \in Updaters |-> None]
  /\ suspect = FALSE
  /\ faults = 0 /\ crashes = 0 /\ updates = 0

Step(u) ==
  \/ Acquire(u) \/ MakePoint(u) \/ OpenPair(u) \/ Backup(u) \/ BackupFails(u)
  \/ WriteBinary(u) \/ WriteFails(u) \/ ChmodFails(u) \/ RestartOk(u) \/ RestartFails(u)
  \/ RestoreEntry(u) \/ RestorePair(u) \/ RestoreFails(u)
  \/ RestartBack(u) \/ RestartBackFails(u) \/ Crash(u)

Next ==
  \/ \E u \in Updaters : Step(u)
  \/ \E s \in Binaries : ServiceRetries(s)
  \/ \E c \in Configs : Configure(c)
  \/ Renew \/ Publish

Spec == Init /\ [][Next]_vars

-----------------------------------------------------------------------------
Phases == {"idle", "checked", "pointed", "opened", "saved", "written", "replaced",
           "undo pair", "restore pair", "restart"} \cup DOMAIN After \cup Over

(* Types, and a command is inside exactly while it holds the lock.         *)
TypeOK ==
  /\ disk \in Disks /\ pinned \in Pairs /\ live \in Nat
  /\ running \in [Binaries -> Daemons \cup {Down}]
  /\ points \in Seq(Copies \cup {None})
  /\ lock \in Updaters \cup {None}
  /\ pc \in [Updaters -> Phases]
  /\ \A u \in Updaters : lock = u <=> pc[u] \notin Over

(* An update that reports a failure has left both binaries and everything  *)
(* else as it found them, wherever it failed; unless it also reported that *)
(* it could not put them back ("restoring the backup puts the host back on *)
(* the previous consistent pair of binaries", update.rs:754-755), or could *)
(* not make its first new file executable, which nothing undoes.           *)
FailedUpdateRestores ==
  [][\A u \in Updaters :
       lock = u /\ pc'[u] = "failed" => disk' = job[u].before]_vars

(* With no command under way, and none that died or could not finish its   *)
(* rollback, the services run the installed binaries on the active         *)
(* configuration.                                                          *)
QuietHostRunsWhatIsInstalled ==
  lock = None /\ ~suspect =>
    \A s \in Binaries :
      /\ running[s] # Down
      /\ running[s].version = disk[s] /\ running[s].config = disk.config

(* The installed sing-box accepts the active server configuration at every *)
(* moment, through updates, rollbacks, crashes and configuration changes   *)
(* in any order.                                                           *)
InstalledAcceptsActive == Checked(disk.singBox, disk.config)

(* No service, no published directory and no rollback point ever holds the *)
(* chain of one certificate with the key of another (backup, restore).     *)
PairsStayWhole ==
  /\ pinned.chain = pinned.key
  /\ \A s \in Binaries : running[s] # Down => running[s].pair.chain = running[s].pair.key
  /\ \A i \in DOMAIN points : points[i] # None => points[i].pair.chain = points[i].pair.key

(* A finished update, done or failed after its backup, leaves the          *)
(* deployment it found in the newest of the kept rollback points, and no   *)
(* more points than are kept (ADR-0003).                                   *)
UpdateKeepsItsPoint ==
  [][\A u \in Updaters :
       lock = u /\ pc'[u] \in Over \ {"idle"} /\ job[u].saved # None
         => /\ Len(points) \in 1..Kept
            /\ Last(points) # None /\ Last(points).disk = job[u].before]_vars
=============================================================================
