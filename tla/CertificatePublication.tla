----------------------- MODULE CertificatePublication -----------------------
(***************************************************************************)
(* Publishing a renewed certificate to the two services.                   *)
(*                                                                         *)
(* A certificate command copies the pair Certbot keeps into a new          *)
(* directory and exchanges it, with a refresh marker inside, for the       *)
(* published one.  sing-box does not follow the exchange: it has to be     *)
(* restarted, and only after that may the marker of exactly this           *)
(* generation go.  Commands run at the same time (an administrator, the    *)
(* deploy hook, install, a mode switch), and a command may die or fail to  *)
(* restart sing-box anywhere in between.                                   *)
(*                                                                         *)
(* The publication lock covers staging and exchange, and the removal of a  *)
(* marker; each is one step here.  The pair and the stamps are read        *)
(* without it.                                                             *)
(***************************************************************************)
EXTENDS Naturals

CONSTANTS
  Commands,
  Stopped,       \* sing-box does not run
  None,
  ReuseInodes,   \* the file system may give a new directory a freed inode
  MaxRenewals,   \* bound: certificates Certbot obtains
  MaxFaults      \* bound: commands that die, refreshes that fail

ASSUME PublicationAssumption ==
  /\ Stopped \notin Nat /\ None \notin Nat
  /\ None \notin [inode : Nat, mtime : Nat]
  /\ None \notin [before : [inode : Nat, mtime : Nat], after : [inode : Nat, mtime : Nat],
                 pair : Nat]
  /\ ReuseInodes \in BOOLEAN
  /\ MaxRenewals \in Nat /\ MaxFaults \in Nat

VARIABLES
  live,       \* the pair in Certbot's live directory
  dir,        \* the published directory
  serial,     \* directories made so far
  dataplane,  \* the pair sing-box loaded when it last started
  pc, job,
  faults

vars == <<live, dir, serial, dataplane, pc, job, faults>>

Directories == [inode : Nat, pair : Nat, mtime : Nat, marker : BOOLEAN]

(* pinned_material_stamp *)
Stamps == [inode : Nat, mtime : Nat]

Stamp == [inode |-> dir.inode, mtime |-> dir.mtime]

Jobs == [before : Stamps, after : Stamps, pair : Nat]

Goto(p, where) == pc' = [pc EXCEPT ![p] = where]

Leave(p) == Goto(p, "idle") /\ job' = [job EXCEPT ![p] = None]

Init ==
  /\ live = 0 /\ serial = 1
  /\ dir = [inode |-> 1, pair |-> 0, mtime |-> 1, marker |-> FALSE]
  /\ dataplane \in {0, Stopped}
  /\ pc = [p \in Commands |-> "idle"]
  /\ job = [p \in Commands |-> None]
  /\ faults = 0

(* Certbot renews the pair in its own directory. *)
Renew ==
  /\ live < MaxRenewals /\ live' = live + 1
  /\ UNCHANGED <<dir, serial, dataplane, pc, job, faults>>

Begin(p) ==
  /\ pc[p] = "idle"
  /\ job' = [job EXCEPT ![p] = [before |-> Stamp, after |-> Stamp, pair |-> live]]
  /\ Goto(p, "opened")
  /\ UNCHANGED <<live, dir, serial, dataplane, faults>>

(* load: reads and validates Certbot's pair, before any lock.              *)
ReadLive(p) ==
  /\ pc[p] = "opened"
  /\ job' = [job EXCEPT ![p].pair = live]
  /\ Goto(p, "loaded")
  /\ UNCHANGED <<live, dir, serial, dataplane, faults>>

(* The inode of a new directory: the published one still exists beside it. *)
NewInodes ==
  {serial + 1} \cup IF ReuseInodes THEN (1..serial) \ {dir.inode} ELSE {}

(* replace_files_with_marker: nothing is exchanged for the same pair.      *)
Publish(p) ==
  /\ pc[p] = "loaded"
  /\ IF dir.pair = job[p].pair
       THEN UNCHANGED <<dir, serial>>
       ELSE /\ serial' = serial + 1
            /\ \E i \in NewInodes :
                 dir' = [inode |-> i, pair |-> job[p].pair,
                         mtime |-> serial + 1, marker |-> TRUE]
  /\ Goto(p, "published")
  /\ UNCHANGED <<live, dataplane, job, faults>>

(* run_certificate looks at the generation again ... *)
Observe(p) ==
  /\ pc[p] = "published"
  /\ job' = [job EXCEPT ![p].after = Stamp]
  /\ Goto(p, "observed")
  /\ UNCHANGED <<live, dir, serial, dataplane, faults>>

NeedsRefreshChangedOnly(p) == job[p].after # job[p].before

NeedsRefresh(p) == job[p].after # job[p].before \/ dir.marker

(* ... and refreshes the data plane if it changed or was left pending.     *)
Decide(p) ==
  /\ pc[p] = "observed"
  /\ Goto(p, IF NeedsRefresh(p) THEN "refreshing" ELSE "done")
  /\ UNCHANGED <<live, dir, serial, dataplane, job, faults>>

(* try-restart: a stopped data plane stays stopped. *)
Loaded == IF dataplane = Stopped THEN Stopped ELSE dir.pair

Refresh(p) ==
  /\ pc[p] = "refreshing"
  /\ dataplane' = Loaded
  /\ Goto(p, "refreshed")
  /\ UNCHANGED <<live, dir, serial, job, faults>>

RefreshFails(p) ==
  /\ pc[p] = "refreshing"
  /\ faults < MaxFaults /\ faults' = faults + 1
  /\ dataplane' \in {dataplane, Loaded, Stopped}
  /\ Leave(p)
  /\ UNCHANGED <<live, dir, serial>>

ClearAny(p) ==
  /\ pc[p] = "refreshed"
  /\ dir' = [dir EXCEPT !.marker = FALSE]
  /\ Goto(p, "done")
  /\ UNCHANGED <<live, serial, dataplane, job, faults>>

(* clear_generation_marker, on the generation that was looked at.          *)
Clear(p) ==
  /\ pc[p] = "refreshed"
  /\ dir' = IF dir.inode = job[p].after.inode
              THEN [dir EXCEPT !.marker = FALSE] ELSE dir
  /\ Goto(p, "done")
  /\ UNCHANGED <<live, serial, dataplane, job, faults>>

(* The command reports success. *)
Return(p) ==
  /\ pc[p] = "done"
  /\ Leave(p)
  /\ UNCHANGED <<live, dir, serial, dataplane, faults>>

Dies(p) ==
  /\ pc[p] \notin {"idle", "done"}
  /\ faults < MaxFaults /\ faults' = faults + 1
  /\ Leave(p)
  /\ UNCHANGED <<live, dir, serial, dataplane>>

(* The data plane is started, restarted or stopped by someone else.        *)
DataPlane ==
  /\ dataplane' \in {dir.pair, Stopped}
  /\ UNCHANGED <<live, dir, serial, pc, job, faults>>

Step(p) ==
  \/ ReadLive(p) \/ Publish(p) \/ Observe(p) \/ Decide(p) \/ Refresh(p) \/ RefreshFails(p)
  \/ Clear(p) \/ Return(p)

Next ==
  \/ \E p \in Commands : Begin(p) \/ Step(p) \/ Dies(p)
  \/ Renew \/ DataPlane

Spec == Init /\ [][Next]_vars

(* A command waits for nobody; somebody runs one again after a failure.    *)
FairSpec == Spec /\ \A p \in Commands : WF_vars(Begin(p)) /\ WF_vars(Step(p))

-----------------------------------------------------------------------------
(* Types; no pair is published or loaded that Certbot has not obtained     *)
(* (publish, pin).                                                         *)
TypeOK ==
  /\ live \in Nat /\ serial \in Nat
  /\ dir \in Directories /\ dir.pair <= live
  /\ dir.inode <= serial /\ dir.mtime <= serial
  /\ dataplane \in Nat \cup {Stopped}
  /\ dataplane # Stopped => dataplane <= live
  /\ pc \in [Commands -> {"idle", "opened", "loaded", "published",
                          "observed", "refreshing", "refreshed", "done"}]
  /\ job \in [Commands -> Jobs \cup {None}]
  /\ \A p \in Commands : pc[p] = "idle" <=> job[p] = None
  /\ faults \in Nat

(* While sing-box runs on an older pair than the published one, the        *)
(* refresh marker is there: whatever publishers, deaths and failed         *)
(* restarts came together, the next command will finish the refresh        *)
(* (clear_generation_marker; ADR-0037).                                    *)
UnrefreshedIsMarked ==
  dataplane \notin {Stopped, dir.pair} => dir.marker

(* A command that reports success leaves sing-box on the pair it published *)
(* or a newer one (run_certificate; "a successful renewal takes effect on  *)
(* the next handshake").  publish reads Certbot's pair before it has the   *)
(* publication lock, so a slower command puts the pair it read before the  *)
(* renewal back over the renewed one.                                      *)
SuccessMeansLoaded ==
  \A p \in Commands :
    pc[p] = "done" => dataplane = Stopped \/ dataplane >= job[p].pair

(* An interrupted refresh is finished by the next command for the same     *)
(* certificate, and its marker goes (ADR-0037).                            *)
RetryCompletes ==
  <>[](dir.pair = live /\ dataplane \in {Stopped, live} /\ ~dir.marker)
=============================================================================
