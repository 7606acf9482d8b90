---------------------------- MODULE Daemon_proofs ----------------------------
(***************************************************************************)
(* Proofs about the two sides of `sbctl serve`: the certificate it follows *)
(* (CertificatePublication, CertificateDelivery) and the connections and   *)
(* requests it admits (RequestBudget, SubscriptionListener).  They share   *)
(* no state.                                                               *)
(***************************************************************************)
EXTENDS CertificateDelivery, SubscriptionListener, FiniteSetTheorems, TLAPS

-----------------------------------------------------------------------------
(***************************************************************************)
(* Publishing a certificate and following it, for any number of commands,  *)
(* renewals, deaths, failed restarts and failed reads.                     *)
(*                                                                         *)
(* The refresh marker: on a file system that does not give the inode of a  *)
(* removed directory to a new one, the argument is about the last step of  *)
(* a command: when the generation it looked at is still the published one, *)
(* sing-box runs on its pair or not at all.                                *)
(*                                                                         *)
(* The daemon, on any file system: no generation is ever exchanged in with *)
(* a stamp that somebody has taken before, because its time is newer.  So  *)
(* a stamp that is still the directory's was taken of this very generation *)
(* and the pair read under it is the one published.                        *)
(***************************************************************************)
(* Generations are numbered; a command has looked at one made before.      *)
Generations ==
  /\ dir.inode = serial
  /\ \A p \in Commands :
       pc[p] # "idle" => job[p].after.inode <= serial /\ job[p].pair <= live

RefreshedIsLoaded ==
  \A p \in Commands :
    pc[p] = "refreshed" /\ job[p].after.inode = dir.inode
      => dataplane \in {Stopped, dir.pair}

RefreshInv == TypeOK /\ Generations /\ UnrefreshedIsMarked /\ RefreshedIsLoaded

LEMMA Types ==
  ASSUME TypeOK
  PROVE  /\ dir.inode \in Nat /\ dir.pair \in Nat /\ dir.mtime \in Nat
         /\ dir.marker \in BOOLEAN /\ Stamp \in Stamps
         /\ dir = [inode |-> dir.inode, pair |-> dir.pair, mtime |-> dir.mtime,
                   marker |-> dir.marker]
         /\ Stopped \notin Nat /\ None \notin Jobs
  BY PublicationAssumption DEF TypeOK, Directories, Stamp, Stamps, Jobs

LEMMA JobTypes ==
  ASSUME TypeOK, NEW p \in Commands, pc[p] # "idle"
  PROVE  /\ job[p] \in Jobs
         /\ job[p].before \in Stamps /\ job[p].after \in Stamps /\ job[p].pair \in Nat
         /\ job[p].after.inode \in Nat
  BY DEF TypeOK, Jobs, Stamps

LEMMA RefreshInit == Init => RefreshInv
  BY PublicationAssumption
     DEF Init, RefreshInv, TypeOK, Generations, UnrefreshedIsMarked,
         RefreshedIsLoaded, Directories

(* A step that changes only the command's place, by a job it may have.     *)
LEMMA OwnStep ==
  ASSUME RefreshInv, NEW p \in Commands, NEW where,
         where \in {"opened", "loaded", "published", "observed", "refreshing", "done"},
         Goto(p, where), NEW j \in Jobs, job' = [job EXCEPT ![p] = j],
         j.after.inode <= serial, j.pair <= live,
         UNCHANGED <<live, dir, serial, dataplane, faults>>
  PROVE  RefreshInv'
<1>1. TypeOK'
  BY Types DEF RefreshInv, TypeOK, Goto
<1>2. Generations'
  BY DEF RefreshInv, TypeOK, Generations, Goto
<1>3. UnrefreshedIsMarked'
  BY DEF RefreshInv, UnrefreshedIsMarked
<1>4. RefreshedIsLoaded'
  BY DEF RefreshInv, TypeOK, RefreshedIsLoaded, Goto
<1> QED
  BY <1>1, <1>2, <1>3, <1>4 DEF RefreshInv

LEMMA LeaveStep ==
  ASSUME RefreshInv, NEW p \in Commands, Leave(p),
         UNCHANGED <<live, dir, serial>>,
         faults' \in Nat, dataplane' \in {dataplane, Stopped, dir.pair}
  PROVE  RefreshInv'
<1>1. TypeOK'
  BY Types DEF RefreshInv, TypeOK, Leave, Goto
<1>2. Generations'
  BY DEF RefreshInv, TypeOK, Generations, Leave, Goto
<1>3. UnrefreshedIsMarked'
  BY DEF RefreshInv, UnrefreshedIsMarked
<1>4. RefreshedIsLoaded'
  BY DEF RefreshInv, TypeOK, RefreshedIsLoaded, Leave, Goto
<1> QED
  BY <1>1, <1>2, <1>3, <1>4 DEF RefreshInv

LEMMA BeginStep ==
  ASSUME RefreshInv, NEW p \in Commands, Begin(p)
  PROVE  RefreshInv'
<1> DEFINE j == [before |-> Stamp, after |-> Stamp, pair |-> live]
<1>1. j \in Jobs /\ j.after.inode <= serial /\ j.pair <= live
  BY Types DEF RefreshInv, TypeOK, Jobs, Stamp
<1> QED
  BY <1>1, OwnStep DEF Begin

LEMMA ReadLiveStep ==
  ASSUME RefreshInv, NEW p \in Commands, ReadLive(p)
  PROVE  RefreshInv'
<1> DEFINE j == [job[p] EXCEPT !.pair = live]
<1>1. job[p] \in Jobs /\ job[p].after.inode <= serial /\ job[p].pair <= live
  BY JobTypes DEF RefreshInv, ReadLive, Generations
<1>2. j \in Jobs /\ j.after.inode <= serial /\ j.pair <= live
  BY <1>1 DEF RefreshInv, TypeOK, Jobs
<1>3. job' = [job EXCEPT ![p] = j]
  BY DEF ReadLive
<1> QED
  BY <1>2, <1>3, OwnStep DEF ReadLive

LEMMA ObserveStep ==
  ASSUME RefreshInv, NEW p \in Commands, Observe(p)
  PROVE  RefreshInv'
<1> DEFINE j == [job[p] EXCEPT !.after = Stamp]
<1>1. job[p] \in Jobs /\ job[p].pair <= live
  BY JobTypes DEF RefreshInv, Observe, Generations
<1>2. j \in Jobs /\ j.after.inode <= serial /\ j.pair <= live
  BY <1>1, Types DEF RefreshInv, TypeOK, Jobs, Stamp
<1>3. job' = [job EXCEPT ![p] = j]
  BY DEF Observe
<1> QED
  BY <1>2, <1>3, OwnStep DEF Observe

LEMMA DecideStep ==
  ASSUME RefreshInv, NEW p \in Commands, Decide(p)
  PROVE  RefreshInv'
<1>1. job[p] \in Jobs /\ job[p].after.inode <= serial /\ job[p].pair <= live
  BY JobTypes DEF RefreshInv, Decide, Generations
<1>2. job' = [job EXCEPT ![p] = job[p]]
  BY DEF Decide, RefreshInv, TypeOK
<1> QED
  BY <1>1, <1>2, OwnStep DEF Decide

(* An exchange makes a generation nobody has looked at yet, and marks it.  *)
LEMMA PublishStep ==
  ASSUME ~ReuseInodes, RefreshInv, NEW p \in Commands, Publish(p)
  PROVE  RefreshInv'
<1>1. /\ pc[p] # "idle" /\ job[p] \in Jobs
      /\ job[p].after.inode <= serial /\ job[p].pair <= live
  BY JobTypes DEF RefreshInv, Publish, Generations
<1>2. CASE dir.pair = job[p].pair
  <2>1. job' = [job EXCEPT ![p] = job[p]]
    BY DEF Publish, RefreshInv, TypeOK
  <2> QED
    BY <1>1, <1>2, <2>1, OwnStep DEF Publish
<1>3. CASE dir.pair # job[p].pair
  <2>1. /\ serial' = serial + 1
        /\ dir' = [inode |-> serial + 1, pair |-> job[p].pair,
                   mtime |-> serial + 1, marker |-> TRUE]
        /\ UNCHANGED <<live, dataplane, job, faults>>
    BY <1>3 DEF Publish, NewInodes
  <2>2. pc' = [pc EXCEPT ![p] = "published"]
    BY DEF Publish, Goto
  <2>3. job[p].pair \in Nat /\ serial \in Nat
    BY <1>1, JobTypes DEF RefreshInv, TypeOK
  <2>4. TypeOK'
    <3>1. dir' \in Directories
      BY <2>1, <2>3 DEF Directories
    <3> QED
      BY <1>1, <2>1, <2>2, <2>3, <3>1 DEF RefreshInv, TypeOK
  <2>5. Generations'
    <3>1. \A q \in Commands : pc[q] # "idle" =>
            job[q].after.inode \in Nat /\ job[q].after.inode <= serial
      BY JobTypes DEF RefreshInv, Generations
    <3> QED
      BY <1>1, <2>1, <2>2, <2>3, <3>1 DEF RefreshInv, TypeOK, Generations
  <2>6. UnrefreshedIsMarked'
    BY <2>1 DEF UnrefreshedIsMarked
  <2>7. RefreshedIsLoaded'
    <3> SUFFICES ASSUME NEW q \in Commands, pc'[q] = "refreshed"
                 PROVE  job[q].after.inode # serial + 1
      BY <2>1 DEF RefreshedIsLoaded
    <3>1. pc[q] = "refreshed"
      BY <2>2 DEF RefreshInv, TypeOK
    <3>2. job[q].after.inode \in Nat /\ job[q].after.inode <= serial
      BY <3>1, JobTypes DEF RefreshInv, Generations
    <3> QED
      BY <2>3, <3>2
  <2> QED
    BY <2>4, <2>5, <2>6, <2>7 DEF RefreshInv
<1> QED
  BY <1>2, <1>3

LEMMA RefreshStep ==
  ASSUME RefreshInv, NEW p \in Commands, Refresh(p)
  PROVE  RefreshInv'
<1>1. dataplane' \in {Stopped, dir.pair} /\ UNCHANGED <<live, dir, serial, job, faults>>
  BY DEF Refresh, Loaded
<1>2. pc' = [pc EXCEPT ![p] = "refreshed"] /\ pc[p] # "idle"
  BY DEF Refresh, Goto
<1>3. TypeOK'
  BY <1>1, <1>2, Types DEF RefreshInv, TypeOK
<1>4. Generations'
  BY <1>1, <1>2 DEF RefreshInv, TypeOK, Generations
<1>5. UnrefreshedIsMarked' /\ RefreshedIsLoaded'
  BY <1>1 DEF UnrefreshedIsMarked, RefreshedIsLoaded
<1> QED
  BY <1>3, <1>4, <1>5 DEF RefreshInv

LEMMA ClearStep ==
  ASSUME RefreshInv, NEW p \in Commands, Clear(p)
  PROVE  RefreshInv'
<1>1. /\ pc[p] = "refreshed" /\ pc' = [pc EXCEPT ![p] = "done"]
      /\ UNCHANGED <<live, serial, dataplane, job, faults>>
  BY DEF Clear, Goto
<1>2. /\ dir' \in Directories
      /\ dir'.inode = dir.inode /\ dir'.pair = dir.pair /\ dir'.mtime = dir.mtime
      /\ dir.inode # job[p].after.inode => dir' = dir
  BY Types DEF Clear, RefreshInv, Directories
<1>3. TypeOK'
  BY <1>1, <1>2 DEF RefreshInv, TypeOK
<1>4. Generations'
  BY <1>1, <1>2 DEF RefreshInv, TypeOK, Generations
<1>5. UnrefreshedIsMarked'
  <2>1. CASE dir.inode = job[p].after.inode
    BY <1>1, <1>2, <2>1 DEF RefreshInv, RefreshedIsLoaded, UnrefreshedIsMarked
  <2>2. CASE dir.inode # job[p].after.inode
    BY <1>1, <1>2, <2>2 DEF RefreshInv, UnrefreshedIsMarked
  <2> QED
    BY <2>1, <2>2
<1>6. RefreshedIsLoaded'
  BY <1>1, <1>2 DEF RefreshInv, TypeOK, RefreshedIsLoaded
<1> QED
  BY <1>3, <1>4, <1>5, <1>6 DEF RefreshInv

LEMMA RenewStep ==
  ASSUME RefreshInv, Renew
  PROVE  RefreshInv'
<1>1. live' = live + 1 /\ UNCHANGED <<dir, serial, dataplane, pc, job, faults>>
  BY DEF Renew
<1>2. TypeOK'
  <2>1. dir.pair <= live' /\ (dataplane # Stopped => dataplane <= live')
    BY <1>1, Types DEF RefreshInv, TypeOK
  <2> QED
    BY <1>1, <2>1 DEF RefreshInv, TypeOK
<1>3. Generations'
  <2>1. \A p \in Commands : pc[p] # "idle" => job[p].pair <= live'
    BY <1>1, JobTypes DEF RefreshInv, TypeOK, Generations
  <2> QED
    BY <1>1, <2>1 DEF RefreshInv, Generations
<1>4. UnrefreshedIsMarked' /\ RefreshedIsLoaded'
  BY <1>1 DEF RefreshInv, UnrefreshedIsMarked, RefreshedIsLoaded
<1> QED
  BY <1>2, <1>3, <1>4 DEF RefreshInv

LEMMA DataPlaneStep ==
  ASSUME RefreshInv, DataPlane
  PROVE  RefreshInv'
<1>1. dataplane' \in {Stopped, dir.pair} /\ UNCHANGED <<live, dir, serial, pc, job, faults>>
  BY DEF DataPlane
<1>2. TypeOK'
  BY <1>1, Types DEF RefreshInv, TypeOK
<1> QED
  BY <1>1, <1>2 DEF RefreshInv, Generations, UnrefreshedIsMarked, RefreshedIsLoaded

LEMMA RefreshNext == ~ReuseInodes /\ RefreshInv /\ [Next]_vars => RefreshInv'
<1> SUFFICES ASSUME ~ReuseInodes, RefreshInv, [Next]_vars PROVE RefreshInv'
  OBVIOUS
<1>1. ASSUME NEW p \in Commands, RefreshFails(p) PROVE RefreshInv'
  <2>1. faults' \in Nat /\ dataplane' \in {dataplane, Stopped, dir.pair}
    BY <1>1 DEF RefreshFails, Loaded, RefreshInv, TypeOK
  <2> QED
    BY <1>1, <2>1, LeaveStep DEF RefreshFails
<1>2. ASSUME NEW p \in Commands, Return(p) \/ Dies(p) PROVE RefreshInv'
  <2>1. faults' \in Nat /\ dataplane' = dataplane
    BY <1>2 DEF Return, Dies, RefreshInv, TypeOK
  <2> QED
    BY <1>2, <2>1, LeaveStep DEF Return, Dies
<1>3. CASE UNCHANGED vars
  BY <1>3 DEF vars, RefreshInv, TypeOK, Generations, UnrefreshedIsMarked,
              RefreshedIsLoaded
<1> QED
  BY <1>1, <1>2, <1>3, BeginStep, ReadLiveStep, PublishStep, ObserveStep, DecideStep,
     RefreshStep, ClearStep, RenewStep, DataPlaneStep DEF Next, Step

(* The inductive invariant of concurrent publications (pin, refresh, and   *)
(* clear_generation_marker), on such a file system.                        *)
THEOREM RefreshInvariant ==
  ASSUME ~ReuseInodes
  PROVE  Spec => []RefreshInv
<1>1. RefreshInv /\ [Next]_vars => RefreshInv'
  BY RefreshNext
<1> QED
  BY <1>1, RefreshInit, PTL DEF Spec

(* Type correctness, on such a file system. *)
THEOREM TypeCorrect ==
  ASSUME ~ReuseInodes
  PROVE  Spec => []TypeOK
<1>1. RefreshInv => TypeOK
  BY DEF RefreshInv
<1> QED
  BY <1>1, RefreshInvariant, PTL

(* For any number of concurrent commands, renewals and failures, a data    *)
(* plane on an older pair than the published one is marked for refresh     *)
(* (clear_generation_marker; ADR-0037).                                    *)
THEOREM MarkedUntilRefreshed ==
  ASSUME ~ReuseInodes
  PROVE  Spec => []UnrefreshedIsMarked
<1>1. RefreshInv => UnrefreshedIsMarked
  BY DEF RefreshInv
<1> QED
  BY <1>1, RefreshInvariant, PTL

-----------------------------------------------------------------------------
(* The daemon's part.                                                      *)

(* Every stamp anybody took is of a generation made by now. *)
StampsAreOld ==
  /\ dir.mtime = serial
  /\ activeStamp # None => activeStamp.mtime <= serial
  /\ check.stamp # None => check.stamp.mtime <= serial

(* A pair read under a stamp that still holds is the published pair. *)
ReadIsItsGeneration ==
  check.step = "compare" /\ check.pair # None /\ check.stamp = Stamp
    => check.pair = dir.pair

(* A check under way has taken its stamp. *)
ChecksHaveStamps == check.step # "idle" => check.stamp # None

DeliveryInv ==
  /\ TypeAll /\ StampsAreOld /\ ChecksHaveStamps
  /\ ActiveIsItsGeneration /\ ReadIsItsGeneration

LEMMA NoneIsNoStamp == None \notin Stamps /\ None \notin Nat
  BY PublicationAssumption DEF Stamps

LEMMA DeliveryTypes ==
  ASSUME TypeAll
  PROVE  /\ TypeOK /\ serial \in Nat /\ Stamp \in Stamps /\ Stamp # None
         /\ dir.pair \in Nat /\ dir.mtime \in Nat /\ Stamp.mtime = dir.mtime
         /\ activeStamp # None => activeStamp.mtime \in Nat
         /\ check.stamp # None => check.stamp.mtime \in Nat
<1>1. TypeOK /\ serial \in Nat
  BY DEF TypeAll, TypeOK
<1>2. Stamp \in Stamps /\ dir.pair \in Nat /\ dir.mtime \in Nat
  BY <1>1, Types
<1>3. Stamp # None
  BY <1>2, NoneIsNoStamp
<1>4. Stamp.mtime = dir.mtime
  BY DEF Stamp
<1>5. activeStamp \in Stamps \cup {None} /\ check.stamp \in Stamps \cup {None}
  BY DEF TypeAll, Checks
<1> QED
  BY <1>1, <1>2, <1>3, <1>4, <1>5 DEF Stamps

LEMMA DeliveryInit == InitAll => DeliveryInv
<1> SUFFICES ASSUME InitAll PROVE DeliveryInv
  OBVIOUS
<1>1. RefreshInv
  BY RefreshInit DEF InitAll
<1>2. TypeAll
  BY <1>1 DEF RefreshInv, InitAll, TypeAll, Checks, Resting
<1>3. Stamp # None
  BY <1>2, DeliveryTypes
<1> QED
  BY <1>2, <1>3 DEF InitAll, Init, DeliveryInv, StampsAreOld, ChecksHaveStamps,
     ActiveIsItsGeneration, ReadIsItsGeneration, Resting

(* What a command, Certbot or the data plane does to the directory: it     *)
(* stays the same generation, or a newer one takes its place.              *)
Exchanged ==
  \/ /\ serial' = serial
     /\ dir'.inode = dir.inode /\ dir'.pair = dir.pair /\ dir'.mtime = dir.mtime
  \/ serial' = serial + 1 /\ dir'.mtime = serial + 1

LEMMA PublisherStep ==
  ASSUME DeliveryInv, TypeOK', Exchanged, UNCHANGED daemonVars
  PROVE  DeliveryInv'
<1>1. UNCHANGED <<session, expired, active, activeStamp, failed, waited, check, readErrors>>
  BY DEF daemonVars
<1>2. TypeAll'
  BY <1>1 DEF DeliveryInv, TypeAll
<1>3. /\ serial \in Nat
      /\ activeStamp # None => activeStamp.mtime \in Nat
      /\ check.stamp # None => check.stamp.mtime \in Nat
  BY DeliveryTypes DEF DeliveryInv
<1>4. StampsAreOld'
  BY <1>1, <1>3 DEF DeliveryInv, StampsAreOld, Exchanged
<1>5. ChecksHaveStamps'
  BY <1>1 DEF DeliveryInv, ChecksHaveStamps
<1>6. CASE Stamp' = Stamp /\ dir'.pair = dir.pair
  BY <1>1, <1>2, <1>4, <1>5, <1>6
     DEF DeliveryInv, ActiveIsItsGeneration, ReadIsItsGeneration
<1>7. CASE serial' = serial + 1 /\ dir'.mtime = serial + 1
  <2>1. Stamp'.mtime = serial + 1
    BY <1>7 DEF Stamp
  <2>2. Stamp' # None
    BY NoneIsNoStamp DEF TypeOK, Directories, Stamp, Stamps
  <2>3. activeStamp # Stamp' /\ check.stamp # Stamp'
    BY <1>3, <2>1, <2>2 DEF DeliveryInv, StampsAreOld
  <2> QED
    BY <1>1, <1>2, <1>4, <1>5, <2>3
       DEF DeliveryInv, ActiveIsItsGeneration, ReadIsItsGeneration
<1> QED
  BY <1>6, <1>7 DEF Exchanged, Stamp

(* The directory holds a pair Certbot has obtained, and a command never    *)
(* publishes another: the types on every file system.                      *)
TypeInv == TypeOK /\ \A p \in Commands : pc[p] # "idle" => job[p].pair <= live

LEMMA CommandMoves ==
  ASSUME TypeInv, NEW p \in Commands, NEW where,
         where \in {"opened", "loaded", "published", "observed", "refreshing",
                   "refreshed", "done"},
         Goto(p, where), NEW j \in Jobs, job' = [job EXCEPT ![p] = j], j.pair <= live,
         UNCHANGED <<live, faults>>, serial' \in Nat, dir' \in Directories,
         dir'.pair <= live, dir'.inode <= serial', dir'.mtime <= serial',
         dataplane' \in {dataplane, dir.pair, Stopped}
  PROVE  TypeInv'
<1>1. TypeOK'
  BY Types DEF TypeInv, TypeOK, Goto
<1>2. \A q \in Commands : pc'[q] # "idle" => job'[q].pair <= live'
  BY DEF TypeInv, TypeOK, Goto
<1> QED
  BY <1>1, <1>2 DEF TypeInv

LEMMA CommandLeaves ==
  ASSUME TypeInv, NEW p \in Commands, Leave(p),
         UNCHANGED <<live, dir, serial>>, faults' \in Nat,
         dataplane' \in {dataplane, dir.pair, Stopped}
  PROVE  TypeInv'
<1>1. TypeOK'
  BY Types DEF TypeInv, TypeOK, Leave, Goto
<1>2. \A q \in Commands : pc'[q] # "idle" => job'[q].pair <= live'
  BY DEF TypeInv, TypeOK, Leave, Goto
<1> QED
  BY <1>1, <1>2 DEF TypeInv

LEMMA StepTypes ==
  ASSUME TypeInv, dir.mtime = serial, NEW p \in Commands, Begin(p) \/ Step(p) \/ Dies(p)
  PROVE  TypeInv' /\ Exchanged
<1>1. /\ TypeOK /\ serial \in Nat /\ dir \in Directories /\ dir.pair <= live
      /\ dir.inode <= serial /\ dir.mtime <= serial /\ faults \in Nat /\ live \in Nat
      /\ dir.pair \in Nat /\ dir.inode \in Nat /\ dir.mtime \in Nat
  BY Types DEF TypeInv, TypeOK
<1>2. pc[p] # "idle" => /\ job[p] \in Jobs /\ job[p].pair \in Nat /\ job[p].pair <= live
                        /\ job' = job => job' = [job EXCEPT ![p] = job[p]]
  BY <1>1, JobTypes DEF TypeInv, TypeOK
<1>3. Stamp \in Stamps
  BY <1>1, Types
<1>4. CASE Begin(p)
  <2> DEFINE j == [before |-> Stamp, after |-> Stamp, pair |-> live]
  <2>1. j \in Jobs /\ j.pair <= live
    BY <1>1, <1>3 DEF Jobs
  <2> QED
    BY <1>1, <1>4, <2>1, CommandMoves DEF Begin, Exchanged
<1>5. CASE ReadLive(p)
  <2> DEFINE j == [job[p] EXCEPT !.pair = live]
  <2>1. j \in Jobs /\ j.pair <= live /\ job' = [job EXCEPT ![p] = j]
    BY <1>1, <1>2, <1>5 DEF ReadLive, Jobs
  <2> QED
    BY <1>1, <1>5, <2>1, CommandMoves DEF ReadLive, Exchanged
<1>6. CASE Publish(p)
  <2>1. pc[p] # "idle" /\ job' = [job EXCEPT ![p] = job[p]]
    BY <1>2, <1>6 DEF Publish
  <2>2. CASE dir.pair = job[p].pair
    BY <1>1, <1>2, <1>6, <2>1, <2>2, CommandMoves DEF Publish, Exchanged
  <2>3. CASE dir.pair # job[p].pair
    <3>1. PICK i \in NewInodes : dir' = [inode |-> i, pair |-> job[p].pair,
                                         mtime |-> serial + 1, marker |-> TRUE]
      BY <1>6, <2>3 DEF Publish
    <3>2. serial' = serial + 1
      BY <1>6, <2>3 DEF Publish
    <3>3. i \in Nat /\ i <= serial + 1
      BY <1>1 DEF NewInodes
    <3>4. /\ dir' \in Directories /\ dir'.pair <= live
          /\ dir'.inode <= serial' /\ dir'.mtime <= serial' /\ serial' \in Nat
      BY <1>1, <1>2, <2>1, <3>1, <3>2, <3>3 DEF Directories
    <3> QED
      BY <1>2, <1>6, <2>1, <3>1, <3>2, <3>4, CommandMoves DEF Publish, Exchanged
  <2> QED
    BY <2>2, <2>3
<1>7. CASE Observe(p)
  <2> DEFINE j == [job[p] EXCEPT !.after = Stamp]
  <2>1. j \in Jobs /\ j.pair <= live /\ job' = [job EXCEPT ![p] = j]
    BY <1>1, <1>2, <1>3, <1>7 DEF Observe, Jobs
  <2> QED
    BY <1>1, <1>7, <2>1, CommandMoves DEF Observe, Exchanged
<1>8. CASE Decide(p)
  BY <1>1, <1>2, <1>8, CommandMoves DEF Decide, Exchanged
<1>9. CASE Refresh(p)
  BY <1>1, <1>2, <1>9, CommandMoves DEF Refresh, Loaded, Exchanged
<1>10. CASE RefreshFails(p)
  BY <1>1, <1>10, CommandLeaves DEF RefreshFails, Loaded, Exchanged
<1>11. CASE Clear(p)
  <2>1. /\ dir' \in Directories
        /\ dir'.inode = dir.inode /\ dir'.pair = dir.pair /\ dir'.mtime = dir.mtime
    BY <1>1, <1>11 DEF Clear, Directories
  <2> QED
    BY <1>1, <1>2, <1>11, <2>1, CommandMoves DEF Clear, Exchanged
<1>12. CASE Return(p) \/ Dies(p)
  BY <1>1, <1>12, CommandLeaves DEF Return, Dies, Exchanged
<1> QED
  BY <1>4, <1>5, <1>6, <1>7, <1>8, <1>9, <1>10, <1>11, <1>12 DEF Step

LEMMA OthersTypes ==
  ASSUME TypeInv, Renew \/ DataPlane
  PROVE  TypeInv' /\ Exchanged
<1>1. \A p \in Commands : pc[p] # "idle" => job[p].pair \in Nat
  BY JobTypes DEF TypeInv
<1>2. CASE Renew
  <2>1. live' = live + 1 /\ UNCHANGED <<dir, serial, dataplane, pc, job, faults>>
    BY <1>2 DEF Renew
  <2>2. dir.pair <= live' /\ (dataplane # Stopped => dataplane <= live')
    BY <2>1, Types DEF TypeInv, TypeOK
  <2>3. \A p \in Commands : pc[p] # "idle" => job[p].pair <= live'
    BY <1>1, <2>1 DEF TypeInv, TypeOK
  <2> QED
    BY <2>1, <2>2, <2>3 DEF TypeInv, TypeOK, Exchanged
<1>3. CASE DataPlane
  BY <1>3, Types DEF DataPlane, TypeInv, TypeOK, Exchanged
<1> QED
  BY <1>2, <1>3

(* Rounds of the daemon.  What it makes active is a pair with its stamp,   *)
(* of the generation the stamp names.                                      *)
LEMMA RoundEnds ==
  ASSUME DeliveryInv, NEW pair \in Nat \cup {None}, NEW stamp \in Stamps \cup {None},
         pair = None <=> stamp = None, stamp # None => stamp.mtime <= serial,
         stamp = Stamp => pair = dir.pair,
         EndRound(pair, stamp),
         failed' \in Stamps \cup {None}, waited' \in BOOLEAN, waited' => failed' # None,
         UNCHANGED <<vars, session, expired, readErrors>>
  PROVE  DeliveryInv'
<1>1. UNCHANGED <<live, dir, serial, dataplane, pc, job, faults>>
  BY DEF vars
<1>2. Stamp' = Stamp /\ Stamp # None
  BY <1>1, DeliveryTypes DEF Stamp, DeliveryInv
<1>3. check' = Resting
  BY DEF EndRound
<1>4. \/ active' = pair /\ activeStamp' = stamp
      \/ active' = None /\ activeStamp' = None
  BY DEF EndRound, KeepUnexpired
<1>5. Resting \in Checks
  BY DEF Resting, Checks
<1>6. TypeOK'
  BY <1>1 DEF DeliveryInv, TypeAll, TypeOK
<1>7. TypeAll'
  BY <1>3, <1>4, <1>5, <1>6 DEF DeliveryInv, TypeAll
<1> QED
  BY <1>1, <1>2, <1>3, <1>4, <1>7
     DEF DeliveryInv, StampsAreOld, ChecksHaveStamps, ActiveIsItsGeneration,
         ReadIsItsGeneration, Resting

LEMMA ActiveAsRecorded ==
  ASSUME DeliveryInv
  PROVE  /\ active \in Nat \cup {None} /\ activeStamp \in Stamps \cup {None}
         /\ active = None <=> activeStamp = None
         /\ activeStamp # None => activeStamp.mtime <= serial
         /\ activeStamp = Stamp => active = dir.pair
  BY DEF DeliveryInv, TypeAll, StampsAreOld, ActiveIsItsGeneration

LEMMA TickStep ==
  ASSUME DeliveryInv, Tick
  PROVE  DeliveryInv'
<1>1. CASE /\ check' = [step |-> "read", stamp |-> Stamp, pair |-> None]
           /\ UNCHANGED <<active, activeStamp>>
  <2>1. UNCHANGED <<live, dir, serial, dataplane, pc, job, faults>>
    BY DEF Tick, vars
  <2>2. Stamp' = Stamp /\ Stamp \in Stamps /\ Stamp # None /\ Stamp.mtime = dir.mtime
    BY <2>1, DeliveryTypes DEF DeliveryInv, Stamp
  <2>3. check' \in Checks /\ check'.step # "idle"
    BY <1>1, <2>2 DEF Checks
  <2>4. TypeOK'
    BY <2>1 DEF DeliveryInv, TypeAll, TypeOK
  <2>5. TypeAll'
    BY <1>1, <2>3, <2>4 DEF Tick, DeliveryInv, TypeAll
  <2>6. serial \in Nat
    BY DeliveryTypes DEF DeliveryInv
  <2> QED
    BY <1>1, <2>1, <2>2, <2>5, <2>6
       DEF DeliveryInv, StampsAreOld, ChecksHaveStamps, ActiveIsItsGeneration,
           ReadIsItsGeneration
<1>2. CASE EndRound(active, activeStamp)
  <2>1. failed' \in Stamps \cup {None} /\ waited' \in BOOLEAN /\ (waited' => failed' # None)
    BY DEF Tick, DeliveryInv, TypeAll
  <2> QED
    BY <1>2, <2>1, ActiveAsRecorded, RoundEnds DEF Tick
<1> QED
  BY <1>1, <1>2 DEF Tick

LEMMA ReadStep ==
  ASSUME DeliveryInv, Read
  PROVE  DeliveryInv'
<1>1. UNCHANGED <<live, dir, serial, dataplane, pc, job, faults>>
  BY DEF Read, vars
<1>2. Stamp' = Stamp
  BY <1>1 DEF Stamp
<1>3. dir.pair \in Nat /\ check \in Checks /\ check.stamp # None
  BY DeliveryTypes DEF DeliveryInv, TypeAll, ChecksHaveStamps, Read
<1>4. PICK pair \in {None, dir.pair} : check' = [check EXCEPT !.step = "compare", !.pair = pair]
  BY DEF Read
<1>5. /\ check' \in Checks /\ check'.step = "compare"
      /\ check'.stamp = check.stamp /\ check'.pair \in {None, dir.pair}
  BY <1>3, <1>4 DEF Checks
<1>6. readErrors' \in Nat
  BY DEF Read, DeliveryInv, TypeAll
<1>7. TypeOK'
  BY <1>1 DEF DeliveryInv, TypeAll, TypeOK
<1>8. TypeAll'
  BY <1>5, <1>6, <1>7 DEF Read, DeliveryInv, TypeAll
<1> QED
  BY <1>1, <1>2, <1>3, <1>5, <1>8
     DEF Read, DeliveryInv, StampsAreOld, ChecksHaveStamps, ActiveIsItsGeneration,
         ReadIsItsGeneration

LEMMA CompareStep ==
  ASSUME DeliveryInv, Discard \/ Load \/ LoadFails
  PROVE  DeliveryInv'
<1>1. Stamp \in Stamps /\ Stamp # None /\ serial \in Nat /\ Stamp.mtime = serial
  BY DeliveryTypes DEF DeliveryInv, StampsAreOld
<1>2. failed \in Stamps \cup {None} /\ waited \in BOOLEAN /\ (waited => failed # None)
  BY DEF DeliveryInv, TypeAll
<1>3. CASE Discard
  BY <1>2, <1>3, ActiveAsRecorded, RoundEnds DEF Discard
<1>4. CASE Load
  <2>1. /\ check.pair \in Nat \cup {None} /\ check.pair # None /\ check.stamp = Stamp
        /\ check.pair = dir.pair
    BY <1>4 DEF Load, DeliveryInv, TypeAll, Checks, ReadIsItsGeneration,
                StillThatGeneration, StampOfRead
  <2>2. EndRound(check.pair, check.stamp)
    BY <1>4 DEF Load, StampOfRead
  <2>3. /\ failed' \in Stamps \cup {None} /\ waited' \in BOOLEAN
        /\ (waited' => failed' # None) /\ UNCHANGED <<vars, session, expired, readErrors>>
    BY <1>4 DEF Load
  <2>4. /\ check.stamp \in Stamps \cup {None} /\ check.stamp.mtime <= serial
        /\ check.stamp # None /\ (check.pair = None <=> check.stamp = None)
    BY <1>1, <2>1, DeliveryTypes DEF DeliveryInv
  <2> QED
    BY <1>1, <2>1, <2>2, <2>3, <2>4, RoundEnds
<1>5. CASE LoadFails
  <2>1. failed' = Stamp /\ waited' = FALSE
    BY <1>5 DEF LoadFails, StillThatGeneration
  <2> QED
    BY <1>1, <1>5, <2>1, ActiveAsRecorded, RoundEnds DEF LoadFails
<1> QED
  BY <1>3, <1>4, <1>5

LEMMA RestStep ==
  ASSUME DeliveryInv, BackoffEnds \/ Expire \/ Restart
  PROVE  DeliveryInv'
<1>1. UNCHANGED <<live, dir, serial, dataplane, pc, job>> /\ faults' \in Nat
  BY DEF BackoffEnds, Expire, Restart, vars, DeliveryInv, TypeAll, TypeOK
<1>2. TypeOK'
  BY <1>1 DEF DeliveryInv, TypeAll, TypeOK
<1>3. Stamp' = Stamp /\ Stamp # None
  BY <1>1, DeliveryTypes DEF DeliveryInv, Stamp
<1>4. CASE BackoffEnds \/ Expire
  <2>1. TypeAll'
    <3>1. expired' \in Nat
      BY <1>4 DEF BackoffEnds, Expire, DeliveryInv, TypeAll
    <3>2. waited' \in BOOLEAN /\ (waited' => failed # None)
      <4>1. CASE waited' = TRUE /\ failed # None
        BY <4>1
      <4>2. CASE waited' = waited
        BY <4>2 DEF DeliveryInv, TypeAll
      <4> QED
        BY <1>4, <4>1, <4>2 DEF BackoffEnds, Expire
    <3>3. UNCHANGED <<active, activeStamp, failed, check, readErrors>>
      BY <1>4 DEF BackoffEnds, Expire
    <3> QED
      BY <1>2, <3>1, <3>2, <3>3 DEF DeliveryInv, TypeAll
  <2> QED
    BY <1>1, <1>3, <1>4, <2>1
       DEF BackoffEnds, Expire, DeliveryInv, StampsAreOld, ChecksHaveStamps,
           ActiveIsItsGeneration, ReadIsItsGeneration
<1>5. CASE Restart
  <2>1. Resting \in Checks
    BY DEF Resting, Checks
  <2>2. TypeAll'
    BY <1>2, <1>5, <2>1 DEF Restart, DeliveryInv, TypeAll
  <2> QED
    BY <1>1, <1>3, <1>5, <2>2
       DEF Restart, DeliveryInv, StampsAreOld, ChecksHaveStamps,
           ActiveIsItsGeneration, ReadIsItsGeneration, Resting
<1> QED
  BY <1>4, <1>5

LEMMA DeliveryNext ==
  DeliveryInv /\ TypeInv /\ [NextAll]_allVars => DeliveryInv' /\ TypeInv'
<1> SUFFICES ASSUME DeliveryInv, TypeInv, [NextAll]_allVars
             PROVE  DeliveryInv' /\ TypeInv'
  OBVIOUS
<1>1. dir.mtime = serial
  BY DEF DeliveryInv, StampsAreOld
<1>2. ASSUME NEW p \in Commands, Publisher(p) PROVE DeliveryInv' /\ TypeInv'
  <2>1. TypeInv' /\ Exchanged /\ UNCHANGED daemonVars
    BY <1>1, <1>2, StepTypes DEF Publisher
  <2>2. TypeOK'
    BY <2>1 DEF TypeInv
  <2> QED
    BY <2>1, <2>2, PublisherStep
<1>3. CASE (Renew \/ DataPlane) /\ UNCHANGED daemonVars
  <2>1. TypeInv' /\ Exchanged
    BY <1>3, OthersTypes
  <2>2. TypeOK'
    BY <2>1 DEF TypeInv
  <2> QED
    BY <1>3, <2>1, <2>2, PublisherStep
<1>4. CASE Daemon \/ BackoffEnds \/ Expire \/ Restart
  <2>1. DeliveryInv'
    BY <1>4, TickStep, ReadStep, CompareStep, RestStep DEF Daemon
  <2>2. UNCHANGED <<live, dir, serial, dataplane, pc, job>>
    BY <1>4 DEF Daemon, Tick, Read, Discard, Load, LoadFails, BackoffEnds, Expire,
                Restart, vars
  <2>3. TypeOK'
    BY <2>1 DEF DeliveryInv, TypeAll
  <2> QED
    BY <2>1, <2>2, <2>3 DEF TypeInv
<1>5. CASE UNCHANGED allVars
  <2>1. UNCHANGED <<live, dir, serial, dataplane, pc, job, faults>> /\ UNCHANGED daemonVars
    BY <1>5 DEF allVars, vars
  <2>2. TypeOK'
    BY <2>1 DEF TypeInv, TypeOK
  <2> QED
    BY <2>1, <2>2, PublisherStep DEF TypeInv, Exchanged
<1> QED
  BY <1>2, <1>3, <1>4, <1>5 DEF NextAll

LEMMA DeliveryInvariant == SpecAll => [](DeliveryInv /\ TypeInv)
<1>1. InitAll => DeliveryInv /\ TypeInv
  <2>1. InitAll => TypeInv
    BY DeliveryInit DEF InitAll, Init, TypeInv, DeliveryInv, TypeAll
  <2> QED
    BY <2>1, DeliveryInit
<1> QED
  BY <1>1, DeliveryNext, PTL DEF SpecAll

(* Types of the commands and of the daemon, on any file system; the active *)
(* pair and its stamp come and go together (reload_tls_material).          *)
THEOREM DeliveryTypesCorrect == SpecAll => []TypeAll
<1>1. DeliveryInv => TypeAll
  BY DEF DeliveryInv
<1> QED
  BY <1>1, DeliveryInvariant, PTL

(* However many commands exchange how many generations between the         *)
(* daemon's two looks at the directory, even under recycled inode numbers, *)
(* handshakes use the published pair when the recorded generation is the   *)
(* published one (reload_tls_material, ChangedDuringRead).                 *)
THEOREM ServesWhatItRecords == SpecAll => []ActiveIsItsGeneration
<1>1. DeliveryInv => ActiveIsItsGeneration
  BY DEF DeliveryInv
<1> QED
  BY <1>1, DeliveryInvariant, PTL

(* No publication, failed read or back-off withdraws a valid pair from     *)
(* handshakes: only an expiry in this round or a restart does              *)
(* (CertificateCheck::Failed).                                             *)
THEOREM ValidPairRetained == SpecAll => LastValidRetained
<1> DEFINE Withdrawn == active # None /\ active' = None
           Excused == \/ active < expired
                      \/ check.pair # None /\ check.pair < expired
                      \/ faults' > faults
<1>1. DeliveryInv /\ [NextAll]_allVars => [Withdrawn => Excused]_allVars
  <2> SUFFICES ASSUME DeliveryInv, NextAll, Withdrawn PROVE Excused
    OBVIOUS
  <2>1. faults \in Nat
    BY DEF DeliveryInv, TypeAll, TypeOK
  <2>2. CASE Restart
    BY <2>1, <2>2 DEF Restart
  <2>3. CASE Load
    BY <2>3 DEF Load, EndRound, KeepUnexpired
  <2>4. CASE Tick \/ Read \/ Discard \/ LoadFails
    BY <2>4 DEF Tick, Read, Discard, LoadFails, EndRound, KeepUnexpired
  <2>5. CASE BackoffEnds \/ Expire \/ UNCHANGED daemonVars
    BY <2>5 DEF BackoffEnds, Expire, daemonVars
  <2> QED
    BY <2>2, <2>3, <2>4, <2>5 DEF NextAll, Publisher, Daemon
<1> QED
  BY <1>1, DeliveryInvariant, PTL DEF SpecAll, LastValidRetained, Withdrawn, Excused

(* The refresh marker with the daemon reading beside the commands, and     *)
(* restarted among them: it changes nothing of theirs (ADR-0037).          *)
THEOREM MarkedBesideTheDaemon ==
  ASSUME ~ReuseInodes
  PROVE  SpecAll => []UnrefreshedIsMarked
<1>1. InitAll => RefreshInv
  BY RefreshInit DEF InitAll
<1>2. RefreshInv /\ [NextAll]_allVars => RefreshInv'
  <2> SUFFICES ASSUME RefreshInv, [NextAll]_allVars PROVE RefreshInv'
    OBVIOUS
  <2>1. CASE [Next]_vars
    BY <2>1, RefreshNext
  <2>2. CASE Restart
    <3>1. UNCHANGED <<live, dir, serial, dataplane, pc, job>> /\ faults' \in Nat
      BY <2>2 DEF Restart, RefreshInv, TypeOK
    <3> QED
      BY <3>1 DEF RefreshInv, TypeOK, Generations, UnrefreshedIsMarked, RefreshedIsLoaded
  <2> QED
    BY <2>1, <2>2 DEF NextAll, Next, Publisher, Daemon, Tick, Read, Discard, Load,
                      LoadFails, BackoffEnds, Expire, allVars
<1>3. RefreshInv => UnrefreshedIsMarked
  BY DEF RefreshInv
<1> QED
  BY <1>1, <1>2, <1>3, PTL DEF SpecAll

-----------------------------------------------------------------------------
(***************************************************************************)
(* Proofs about RequestBudget and SubscriptionListener, for every burst,   *)
(* refill, limit, table size and set of addresses and connections.         *)
(*                                                                         *)
(* What an address can spend: Debt says when it would have its whole burst *)
(* back; admitting moves it by one refill, and neither refilling nor       *)
(* forgetting a full bucket moves it backwards past what the bound needs.  *)
(* Then: the permits of a listener always add up, and it uses the budget   *)
(* as RequestBudget allows, so what is proved of the budget holds of it.   *)
(***************************************************************************)
-----------------------------------------------------------------------------
(* Arithmetic of refills. *)
LEMMA Quotient ==
  ASSUME NEW e \in Nat, NEW r \in Nat \ {0}
  PROVE  /\ e \div r \in Nat
         /\ (e \div r) * r <= e
         /\ e < (e \div r) * r + r
  OBVIOUS

LEMMA Products ==
  ASSUME NEW r \in Nat \ {0}
  PROVE  /\ \A m, n \in Int : (m + n) * r = m * r + n * r
         /\ \A m \in Int : (m + 1) * r = m * r + r /\ (m - 1) * r = m * r - r
         /\ \A m, n \in Nat : m <= n => m * r <= n * r
         /\ \A m \in Nat : m * r \in Nat
  OBVIOUS

(* A refilled bucket is less than one refill behind, and nothing is lost   *)
(* or gained by it but what exceeds the burst.                             *)
LEMMA RefilledFacts ==
  ASSUME now \in Nat, NEW b \in Bucket, b.tokens <= Burst, b.at <= now
  PROVE  /\ Refills(b) \in Nat
         /\ Refilled(b) \in Bucket
         /\ Refilled(b).tokens <= Burst
         /\ Refilled(b).at <= now /\ now < Refilled(b).at + Refill
         /\ b.at <= Refilled(b).at
         /\ b.at - b.tokens * Refill
              <= Refilled(b).at - Refilled(b).tokens * Refill
         /\ b.tokens + Refills(b) >= Burst
              => b.at - b.tokens * Refill <= now - Burst * Refill
         /\ b.at + Refill <= now => Refilled(b).tokens > 0
<1> DEFINE k == Refills(b)
<1>1. b.tokens \in Nat /\ b.at \in Nat /\ Refill \in Nat \ {0} /\ Burst \in Nat \ {0}
  BY BudgetAssumption DEF Bucket
<1>2. now - b.at \in Nat
  BY <1>1
<1>3. k \in Nat /\ k * Refill <= now - b.at /\ now - b.at < k * Refill + Refill
  BY <1>1, <1>2, Quotient DEF Refills
<1>4. k * Refill \in Nat /\ b.tokens * Refill \in Nat /\ Burst * Refill \in Nat
  BY <1>1, <1>3, Products
<1>5. (b.tokens + k) * Refill = b.tokens * Refill + k * Refill
  BY <1>1, <1>3, Products
<1>6. b.tokens + k >= Burst => Burst * Refill <= b.tokens * Refill + k * Refill
  <2>1. b.tokens + k \in Nat
    BY <1>1, <1>3
  <2>2. Burst <= b.tokens + k => Burst * Refill <= (b.tokens + k) * Refill
    BY <1>1, <2>1, Products
  <2> QED
    BY <1>1, <1>3, <1>5, <2>2
<1>7. b.at + Refill <= now => k >= 1
  <2>1. SUFFICES ASSUME b.at + Refill <= now, k = 0 PROVE FALSE
    BY <1>3
  <2>2. k * Refill = 0
    BY <1>1, <2>1
  <2> QED
    BY <1>1, <1>3, <2>1, <2>2
<1>8. Refilled(b) = [tokens |-> Least(b.tokens + k, Burst), at |-> b.at + k * Refill]
  BY DEF Refilled
<1>9. /\ Least(b.tokens + k, Burst) \in Nat
      /\ Least(b.tokens + k, Burst) <= Burst
      /\ b.tokens + k <= Burst => Least(b.tokens + k, Burst) = b.tokens + k
      /\ b.tokens + k > Burst => Least(b.tokens + k, Burst) = Burst
  BY <1>1, <1>3 DEF Least
<1>10. CASE b.tokens + k <= Burst
  <2>1. Least(b.tokens + k, Burst) * Refill = b.tokens * Refill + k * Refill
    BY <1>5, <1>9, <1>10
  <2> HIDE DEF k
  <2> QED
    BY <1>1, <1>3, <1>4, <1>6, <1>7, <1>8, <1>9, <1>10, <2>1 DEF Bucket, k
<1>11. CASE b.tokens + k > Burst
  <2>1. Least(b.tokens + k, Burst) = Burst
    BY <1>9, <1>11
  <2> HIDE DEF k
  <2> QED
    BY <1>1, <1>3, <1>4, <1>6, <1>7, <1>8, <2>1, <1>11 DEF Bucket, k
<1> QED
  BY <1>1, <1>3, <1>10, <1>11

-----------------------------------------------------------------------------
(* The inductive invariant.  An admission is paid for by the bucket's      *)
(* debt, or by the time since the window began.                            *)
Debt(p) == buckets[p].at - buckets[p].tokens * Refill

Paid(p) ==
  IF p \in Tracked
    THEN \/ admitted[p] * Refill + since <= Debt(p) + Burst * Refill + Refill - 1
         \/ admitted[p] * Refill + since <= now
    ELSE admitted[p] * Refill + since <= now + Refill - 1

PaidFor == ~cleared => \A p \in Peers : Paid(p)

PromisesCovered ==
  \A p \in Tracked : promised[p] # Absent => buckets[p].at + Refill <= promised[p]

BudgetInv == BudgetTypeOK /\ PaidFor /\ PromisesCovered

LEMMA ConstantFacts ==
  /\ Refill \in Nat \ {0} /\ Burst \in Nat \ {0} /\ MaxTracked \in Nat
  /\ Burst * Refill \in Nat /\ Refill <= Burst * Refill
  /\ IsFiniteSet(Peers) /\ Absent \notin Nat
<1>1. Refill \in Nat \ {0} /\ Burst \in Nat \ {0}
  BY BudgetAssumption
<1>2. Burst * Refill \in Nat
  BY <1>1, Products
<1>3. 1 * Refill <= Burst * Refill
  BY <1>1, Products
<1> QED
  BY <1>1, <1>2, <1>3, BudgetAssumption

LEMMA TrackedFacts ==
  ASSUME BudgetTypeOK, NEW p \in Tracked
  PROVE  /\ p \in Peers /\ now \in Nat
         /\ buckets[p] \in Bucket /\ buckets[p].tokens \in Nat /\ buckets[p].at \in Nat
         /\ buckets[p].tokens <= Burst /\ buckets[p].at <= now
         /\ buckets[p].tokens * Refill \in Nat
  <1>1. buckets[p] \in Bucket /\ p \in Peers /\ now \in Nat
    BY DEF BudgetTypeOK
  <1>2. buckets[p].tokens \in Nat /\ buckets[p].at \in Nat
    BY <1>1 DEF Bucket
  <1> QED
    BY <1>1, <1>2, Products, ConstantFacts DEF BudgetTypeOK

LEMMA BudgetInit == InitBudget => BudgetInv
<1> SUFFICES ASSUME InitBudget PROVE BudgetInv
  OBVIOUS
<1>1. Tracked = {}
  BY DEF InitBudget, Tracked
<1>2. BudgetTypeOK
  <2>1. buckets \in [Tracked -> Bucket]
    BY DEF InitBudget, Tracked
  <2>2. now \in Nat /\ since \in 0..now
    BY DEF InitBudget
  <2>3. admitted \in [Peers -> Nat] /\ cleared \in BOOLEAN
    BY DEF InitBudget
  <2>4. promised \in [Peers -> Nat \cup {Absent}]
    BY DEF InitBudget
  <2> QED
    BY <1>1, <2>1, <2>2, <2>3, <2>4 DEF BudgetTypeOK
<1>3. PaidFor
  <2>1. 0 * Refill = 0
    BY ConstantFacts
  <2> QED
    BY <1>1, <2>1, ConstantFacts DEF InitBudget, PaidFor, Paid
<1>4. PromisesCovered
  BY <1>1 DEF PromisesCovered
<1> QED
  BY <1>2, <1>3, <1>4 DEF BudgetInv

(* The table after an admission. *)
LEMMA NewAddress ==
  ASSUME BudgetInv, NEW p \in Peers, AdmitNew(p)
  PROVE  /\ Tracked' = Kept \cup {p} /\ Kept \subseteq InDebt /\ InDebt \subseteq Tracked
         /\ p \notin Tracked
         /\ buckets'[p] = [tokens |-> Burst - 1, at |-> now]
         /\ \A q \in Kept : buckets'[q] = buckets[q]
  BY DEF AdmitNew, Tracked, Kept, InDebt

LEMMA AdmitNewStep ==
  ASSUME BudgetInv, NEW p \in Peers, Admit(p), AdmitNew(p)
  PROVE  BudgetInv'
<1>1. BudgetTypeOK'
  <2>1. [tokens |-> Burst - 1, at |-> now] \in Bucket
    BY ConstantFacts DEF BudgetInv, BudgetTypeOK, Bucket
  <2>2. Tracked' \subseteq Peers
    BY NewAddress DEF BudgetInv, BudgetTypeOK
  <2>3. \A q \in Tracked' : /\ buckets'[q] \in Bucket
                            /\ buckets'[q].tokens <= Burst /\ buckets'[q].at <= now
    <3> SUFFICES ASSUME NEW q \in Tracked'
                 PROVE  /\ buckets'[q] \in Bucket
                        /\ buckets'[q].tokens <= Burst /\ buckets'[q].at <= now
      OBVIOUS
    <3>1. CASE q = p
      BY <2>1, <3>1, NewAddress, ConstantFacts DEF BudgetInv, BudgetTypeOK
    <3>2. CASE q # p
      <4>1. q \in Kept /\ q \in Tracked /\ buckets'[q] = buckets[q]
        BY <3>2, NewAddress
      <4> QED
        BY <4>1, TrackedFacts DEF BudgetInv
    <3> QED
      BY <3>1, <3>2
  <2>4. buckets' = [q \in Tracked' |-> buckets'[q]]
    BY DEF AdmitNew, Tracked
  <2>5. buckets' \in [Tracked' -> Bucket]
    BY <2>3, <2>4
  <2>6. cleared' \in BOOLEAN
    BY DEF AdmitNew
  <2>7. admitted' \in [Peers -> Nat] /\ promised' \in [Peers -> Nat \cup {Absent}]
    BY DEF Admit, BudgetInv, BudgetTypeOK
  <2> QED
    BY <2>2, <2>3, <2>5, <2>6, <2>7 DEF BudgetInv, BudgetTypeOK, Admit
<1>2. PaidFor'
  <2> SUFFICES ASSUME ~cleared', NEW q \in Peers PROVE Paid(q)'
    BY DEF PaidFor
  <2>1. ~cleared /\ Kept = InDebt
    BY DEF AdmitNew
  <2>2. Paid(q) /\ Paid(p)
    BY <2>1 DEF BudgetInv, PaidFor
  <2>3. admitted' = [admitted EXCEPT ![p] = @ + 1] /\ since' = since /\ now' = now
    BY DEF Admit
  <2>4. admitted[q] \in Nat /\ admitted[p] \in Nat /\ since \in Nat /\ now \in Nat
    BY DEF BudgetInv, BudgetTypeOK
  <2>5. admitted[q] * Refill \in Nat /\ admitted[p] * Refill \in Nat
    BY <2>4, Products, ConstantFacts
  <2>6. CASE q = p
    <3>1. admitted[p] * Refill + since <= now + Refill - 1
      BY <2>2, NewAddress DEF Paid
    <3>2. (admitted[p] + 1) * Refill = admitted[p] * Refill + Refill
      BY <2>4, Products, ConstantFacts
    <3>3. (Burst - 1) * Refill = Burst * Refill - Refill
      BY Products, ConstantFacts
    <3>4. Debt(p)' = now - (Burst * Refill - Refill)
      BY <3>3, NewAddress DEF Debt
    <3>5. admitted'[p] = admitted[p] + 1
      BY <2>3 DEF BudgetInv, BudgetTypeOK
    <3>6. admitted'[p] * Refill + since'
            <= Debt(p)' + Burst * Refill + Refill - 1
      BY <2>3, <2>4, <2>5, <3>1, <3>2, <3>4, <3>5, ConstantFacts
    <3> QED
      BY <2>6, <3>6, NewAddress DEF Paid
  <2>7. CASE q # p /\ q \in Kept
    BY <2>2, <2>3, <2>7, NewAddress DEF Paid, Debt
  <2>8. CASE q # p /\ q \notin Kept /\ q \in Tracked
    <3>1. buckets[q].tokens + Refills(buckets[q]) >= Burst
      <4>1. ~(buckets[q].tokens + Refills(buckets[q]) < Burst)
        BY <2>1, <2>8 DEF InDebt
      <4> QED
        BY <4>1, <2>8, TrackedFacts, RefilledFacts, ConstantFacts DEF BudgetInv
    <3>2. Debt(q) <= now - Burst * Refill
      BY <2>8, <3>1, TrackedFacts, RefilledFacts DEF Debt, BudgetInv
    <3>3. Debt(q) \in Int
      BY <2>8, TrackedFacts DEF Debt, BudgetInv
    <3>4. admitted[q] * Refill + since <= now + Refill - 1
      BY <2>2, <2>4, <2>5, <2>8, <3>2, <3>3, ConstantFacts DEF Paid
    <3>5. q \notin Tracked'
      BY <2>8, NewAddress
    <3> QED
      BY <2>3, <2>8, <3>4, <3>5 DEF Paid
  <2>9. CASE q # p /\ q \notin Tracked
    <3>1. q \notin Tracked'
      BY <2>9, NewAddress
    <3> QED
      BY <2>2, <2>3, <2>9, <3>1 DEF Paid
  <2> QED
    BY <2>6, <2>7, <2>8, <2>9
<1>3. PromisesCovered'
  <2> SUFFICES ASSUME NEW q \in Tracked', promised'[q] # Absent
               PROVE  buckets'[q].at + Refill <= promised'[q]
    BY DEF PromisesCovered
  <2>1. q # p
    BY NewAddress DEF Admit, BudgetInv, BudgetTypeOK
  <2> QED
    BY <2>1, NewAddress, TrackedFacts DEF Admit, BudgetInv, BudgetTypeOK, PromisesCovered
<1> QED
  BY <1>1, <1>2, <1>3 DEF BudgetInv

LEMMA AdmitKnownStep ==
  ASSUME BudgetInv, NEW p \in Peers, Admit(p), AdmitKnown(p)
  PROVE  BudgetInv'
<1> DEFINE r == Refilled(buckets[p])
<1>1. /\ p \in Tracked /\ Tracked' = Tracked
      /\ buckets' = [buckets EXCEPT ![p] = [tokens |-> r.tokens - 1, at |-> r.at]]
      /\ UNCHANGED <<now, since, cleared>>
  BY DEF AdmitKnown, Admit, BudgetInv, BudgetTypeOK, Tracked
<1>2. /\ r \in Bucket /\ r.tokens \in Nat \ {0} /\ r.at \in Nat
      /\ r.tokens <= Burst /\ r.at <= now /\ now < r.at + Refill
      /\ buckets[p].at <= r.at
      /\ Debt(p) <= r.at - r.tokens * Refill
  <2>1. r.tokens > 0
    BY DEF AdmitKnown
  <2>2. /\ r \in Bucket /\ r.tokens <= Burst /\ r.at <= now /\ now < r.at + Refill
        /\ buckets[p].at <= r.at /\ Debt(p) <= r.at - r.tokens * Refill
    BY <1>1, TrackedFacts, RefilledFacts DEF BudgetInv, Debt
  <2> QED
    BY <2>1, <2>2 DEF Bucket
<1>3. /\ buckets'[p] = [tokens |-> r.tokens - 1, at |-> r.at]
      /\ \A q \in Tracked : q # p => buckets'[q] = buckets[q]
  BY <1>1 DEF BudgetInv, BudgetTypeOK
<1>4. BudgetTypeOK'
  <2>1. [tokens |-> r.tokens - 1, at |-> r.at] \in Bucket
    BY <1>2 DEF Bucket
  <2>2. buckets' \in [Tracked' -> Bucket]
    BY <1>1, <2>1 DEF BudgetInv, BudgetTypeOK
  <2>3. \A q \in Tracked' : buckets'[q].tokens <= Burst /\ buckets'[q].at <= now
    <3> SUFFICES ASSUME NEW q \in Tracked
                 PROVE  buckets'[q].tokens <= Burst /\ buckets'[q].at <= now
      BY <1>1
    <3>1. CASE q = p
      BY <1>2, <1>3, <3>1, ConstantFacts
    <3>2. CASE q # p
      BY <1>3, <3>2, TrackedFacts DEF BudgetInv
    <3> QED
      BY <3>1, <3>2
  <2>4. admitted' \in [Peers -> Nat] /\ promised' \in [Peers -> Nat \cup {Absent}]
    BY DEF Admit, BudgetInv, BudgetTypeOK
  <2> QED
    BY <1>1, <2>2, <2>3, <2>4 DEF BudgetInv, BudgetTypeOK
<1>5. PaidFor'
  <2> SUFFICES ASSUME ~cleared', NEW q \in Peers PROVE Paid(q)'
    BY DEF PaidFor
  <2>1. Paid(q) /\ Paid(p)
    BY <1>1 DEF BudgetInv, PaidFor
  <2>2. admitted' = [admitted EXCEPT ![p] = @ + 1]
    BY DEF Admit
  <2>3. CASE q = p
    <3>1. admitted[p] \in Nat /\ since \in Nat /\ now \in Nat
      BY DEF BudgetInv, BudgetTypeOK
    <3>2. admitted[p] * Refill \in Nat /\ r.tokens * Refill \in Nat
      BY <1>2, <3>1, Products, ConstantFacts
    <3>3. (admitted[p] + 1) * Refill = admitted[p] * Refill + Refill
      BY <3>1, Products, ConstantFacts
    <3>4. (r.tokens - 1) * Refill = r.tokens * Refill - Refill
      <4>1. r.tokens \in Int
        BY <1>2
      <4> HIDE DEF r
      <4> QED
        BY <4>1, Products, ConstantFacts
    <3>5. Debt(p)' = r.at - r.tokens * Refill + Refill
      <4>1. Debt(p)' = r.at - (r.tokens - 1) * Refill
        BY <1>3 DEF Debt
      <4> HIDE DEF r
      <4> QED
        BY <1>2, <3>2, <3>4, <4>1, ConstantFacts
    <3>6. r.tokens * Refill <= Burst * Refill
      BY <1>2, Products, ConstantFacts
    <3>7. Debt(p) \in Int
      BY <1>1, TrackedFacts DEF BudgetInv, Debt
    <3>8. admitted[p] * Refill + since
            <= r.at - r.tokens * Refill + Burst * Refill + Refill - 1
      <4>1. \/ admitted[p] * Refill + since <= Debt(p) + Burst * Refill + Refill - 1
            \/ admitted[p] * Refill + since <= now
        BY <1>1, <2>1 DEF Paid
      <4> HIDE DEF r
      <4> QED
        BY <1>2, <3>1, <3>2, <3>6, <3>7, <4>1, ConstantFacts
    <3>9. admitted'[p] = admitted[p] + 1
      BY <2>2 DEF BudgetInv, BudgetTypeOK
    <3>10. admitted'[p] * Refill + since' <= Debt(p)' + Burst * Refill + Refill - 1
      <4> HIDE DEF r
      <4> QED
        BY <1>1, <1>2, <3>1, <3>2, <3>3, <3>5, <3>8, <3>9, ConstantFacts
    <3> QED
      BY <1>1, <2>3, <3>10 DEF Paid
  <2>4. CASE q # p
    <3>1. admitted'[q] = admitted[q]
      BY <2>2, <2>4 DEF BudgetInv, BudgetTypeOK
    <3> QED
      BY <1>1, <1>3, <2>1, <2>4, <3>1 DEF Paid, Debt
  <2> QED
    BY <2>3, <2>4
<1>6. PromisesCovered'
  <2> SUFFICES ASSUME NEW q \in Tracked, promised'[q] # Absent
               PROVE  buckets'[q].at + Refill <= promised'[q]
    BY <1>1 DEF PromisesCovered
  <2>1. q # p /\ promised'[q] = promised[q]
    BY TrackedFacts DEF Admit, BudgetInv, BudgetTypeOK
  <2> QED
    BY <1>3, <2>1 DEF BudgetInv, PromisesCovered
<1> QED
  BY <1>4, <1>5, <1>6 DEF BudgetInv

LEMMA RefuseStep ==
  ASSUME BudgetInv, NEW p \in Peers, Refuse(p)
  PROVE  BudgetInv'
<1> DEFINE r == Refilled(buckets[p])
<1>1. /\ p \in Tracked /\ Tracked' = Tracked
      /\ buckets' = [buckets EXCEPT ![p] = r]
      /\ UNCHANGED <<now, since, admitted, cleared>>
  BY DEF Refuse, BudgetInv, BudgetTypeOK, Tracked
<1>2. /\ r \in Bucket /\ r.tokens \in Nat /\ r.at \in Nat
      /\ r.tokens <= Burst /\ r.at <= now /\ now < r.at + Refill
      /\ Debt(p) <= r.at - r.tokens * Refill
  <2>1. /\ r \in Bucket /\ r.tokens <= Burst /\ r.at <= now /\ now < r.at + Refill
        /\ Debt(p) <= r.at - r.tokens * Refill
    BY <1>1, TrackedFacts, RefilledFacts DEF BudgetInv, Debt
  <2> QED
    BY <2>1 DEF Bucket
<1>3. buckets'[p] = r /\ \A q \in Tracked : q # p => buckets'[q] = buckets[q]
  BY <1>1 DEF BudgetInv, BudgetTypeOK
<1>4. RetryAfter(r) \in Nat /\ Refill <= RetryAfter(r)
  <2> DEFINE rest == Refill - (now - r.at)
             remaining == IF rest < Refill THEN Refill ELSE rest
             n == remaining \div Refill
  <2>1. now \in Nat
    BY DEF BudgetInv, BudgetTypeOK
  <2>2. remaining = Refill
    <3> HIDE DEF r
    <3> QED
      BY <1>2, <2>1, ConstantFacts
  <2>3. n \in Nat
    BY <2>2, Quotient, ConstantFacts
  <2>4. Refill * (n + 1) = n * Refill + Refill /\ n * Refill \in Nat
    <3> HIDE DEF n
    <3> QED
      BY <2>3, Products, ConstantFacts
  <2>5. RetryAfter(r) = Refill * (n + 1)
    BY DEF RetryAfter
  <2> HIDE DEF n, r
  <2> QED
    BY <2>4, <2>5, ConstantFacts
<1>5. promised' = [promised EXCEPT ![p] = now + RetryAfter(r)]
  BY DEF Refuse
<1>6. BudgetTypeOK'
  <2>1. buckets' \in [Tracked' -> Bucket]
    BY <1>1, <1>2 DEF BudgetInv, BudgetTypeOK
  <2>2. \A q \in Tracked' : buckets'[q].tokens <= Burst /\ buckets'[q].at <= now
    <3> SUFFICES ASSUME NEW q \in Tracked
                 PROVE  buckets'[q].tokens <= Burst /\ buckets'[q].at <= now
      BY <1>1
    <3>1. CASE q = p
      BY <1>2, <1>3, <3>1
    <3>2. CASE q # p
      BY <1>3, <3>2, TrackedFacts DEF BudgetInv
    <3> QED
      BY <3>1, <3>2
  <2>3. promised' \in [Peers -> Nat \cup {Absent}]
    <3>1. now + RetryAfter(r) \in Nat
      BY <1>4 DEF BudgetInv, BudgetTypeOK
    <3> HIDE DEF r
    <3> QED
      BY <1>5, <3>1 DEF BudgetInv, BudgetTypeOK
  <2> QED
    BY <1>1, <2>1, <2>2, <2>3 DEF BudgetInv, BudgetTypeOK
<1>7. PaidFor'
  <2> SUFFICES ASSUME ~cleared', NEW q \in Peers PROVE Paid(q)'
    BY DEF PaidFor
  <2>1. Paid(q)
    BY <1>1 DEF BudgetInv, PaidFor
  <2>2. CASE q = p
    <3>1. admitted[p] \in Nat /\ since \in Nat /\ now \in Nat
      BY DEF BudgetInv, BudgetTypeOK
    <3>2. admitted[p] * Refill \in Nat /\ r.tokens * Refill \in Nat
      BY <1>2, <3>1, Products, ConstantFacts
    <3>3. Debt(p)' = r.at - r.tokens * Refill
      BY <1>3 DEF Debt
    <3>4. Debt(p) \in Int
      BY <1>1, TrackedFacts DEF BudgetInv, Debt
    <3>5. \/ admitted[p] * Refill + since <= Debt(p) + Burst * Refill + Refill - 1
          \/ admitted[p] * Refill + since <= now
      BY <1>1, <2>1, <2>2 DEF Paid
    <3>6. \/ admitted[p] * Refill + since
               <= r.at - r.tokens * Refill + Burst * Refill + Refill - 1
          \/ admitted[p] * Refill + since <= now
      <4> HIDE DEF r
      <4> QED
        BY <1>2, <3>1, <3>2, <3>4, <3>5, ConstantFacts
    <3> QED
      BY <1>1, <2>2, <3>3, <3>6 DEF Paid
  <2>3. CASE q # p
    BY <1>1, <1>3, <2>1, <2>3 DEF Paid, Debt
  <2> QED
    BY <2>2, <2>3
<1>8. PromisesCovered'
  <2> SUFFICES ASSUME NEW q \in Tracked, promised'[q] # Absent
               PROVE  buckets'[q].at + Refill <= promised'[q]
    BY <1>1 DEF PromisesCovered
  <2>1. CASE q = p
    <3>1. promised'[p] = now + RetryAfter(r)
      BY <1>5 DEF BudgetInv, BudgetTypeOK
    <3>2. now \in Nat
      BY DEF BudgetInv, BudgetTypeOK
    <3>3. r.at + Refill <= now + RetryAfter(r)
      <4> HIDE DEF r
      <4> QED
        BY <1>2, <1>4, <3>2, ConstantFacts
    <3> QED
      BY <1>3, <2>1, <3>1, <3>3
  <2>2. CASE q # p
    <3>1. promised'[q] = promised[q]
      BY <1>5, <2>2, TrackedFacts DEF BudgetInv, BudgetTypeOK
    <3> QED
      BY <1>3, <2>2, <3>1 DEF BudgetInv, PromisesCovered
  <2> QED
    BY <2>1, <2>2
<1> QED
  BY <1>6, <1>7, <1>8 DEF BudgetInv

LEMMA ElapseStep ==
  ASSUME BudgetInv, Elapse
  PROVE  BudgetInv'
<1>1. /\ now' = now + 1 /\ now \in Nat /\ Tracked' = Tracked
      /\ UNCHANGED <<buckets, since, admitted, cleared, promised>>
  BY DEF Elapse, Tracked, BudgetInv, BudgetTypeOK
<1>2. BudgetTypeOK'
  <2>1. \A q \in Tracked' : buckets'[q].tokens <= Burst /\ buckets'[q].at <= now'
    BY <1>1, TrackedFacts DEF BudgetInv
  <2>2. now' \in Nat /\ since' \in 0..now'
    BY <1>1 DEF BudgetInv, BudgetTypeOK
  <2>3. Tracked' \subseteq Peers /\ buckets' \in [Tracked' -> Bucket]
    BY <1>1 DEF BudgetInv, BudgetTypeOK
  <2>4. admitted' \in [Peers -> Nat]
    BY <1>1 DEF BudgetInv, BudgetTypeOK
  <2>5. cleared' \in BOOLEAN
    BY <1>1 DEF BudgetInv, BudgetTypeOK
  <2>6. promised' \in [Peers -> Nat \cup {Absent}]
    BY <1>1 DEF BudgetInv, BudgetTypeOK
  <2> QED
    BY <2>1, <2>2, <2>3, <2>4, <2>5, <2>6 DEF BudgetTypeOK
<1>3. PaidFor'
  <2> SUFFICES ASSUME ~cleared, NEW q \in Peers PROVE Paid(q)'
    BY <1>1 DEF PaidFor
  <2>1. Paid(q)
    BY DEF BudgetInv, PaidFor
  <2>2. admitted[q] * Refill \in Nat /\ since \in Nat
    <3>1. admitted[q] \in Nat /\ since \in Nat
      BY DEF BudgetInv, BudgetTypeOK
    <3> QED
      BY <3>1, Products, ConstantFacts
  <2> QED
    BY <1>1, <2>1, <2>2, ConstantFacts DEF Paid, Debt
<1>4. PromisesCovered'
  BY <1>1 DEF BudgetInv, PromisesCovered
<1> QED
  BY <1>2, <1>3, <1>4 DEF BudgetInv

(* A window may begin in any state: a refilled bucket is not far enough    *)
(* behind for what it holds to exceed the burst.                           *)
LEMMA WatchStep ==
  ASSUME BudgetInv, Watch
  PROVE  BudgetInv'
<1>1. /\ since' = now /\ now \in Nat /\ Tracked' = Tracked
      /\ admitted' = [p \in Peers |-> 0] /\ UNCHANGED <<now, buckets, promised>>
  BY DEF Watch, Tracked, BudgetInv, BudgetTypeOK
<1>2. BudgetTypeOK'
  <2>1. since' \in 0..now'
    BY <1>1
  <2>2. admitted' \in [Peers -> Nat]
    BY <1>1
  <2>3. cleared' \in BOOLEAN
    BY DEF Watch
  <2> QED
    BY <1>1, <2>1, <2>2, <2>3 DEF BudgetInv, BudgetTypeOK
<1>3. PaidFor'
  <2>1. 0 * Refill = 0
    BY ConstantFacts
  <2> QED
    BY <1>1, <2>1, ConstantFacts DEF PaidFor, Paid
<1>4. PromisesCovered'
  BY <1>1 DEF BudgetInv, PromisesCovered
<1> QED
  BY <1>2, <1>3, <1>4 DEF BudgetInv

LEMMA BudgetStep == BudgetInv /\ [NextBudget]_budgetVars => BudgetInv'
<1> SUFFICES ASSUME BudgetInv, [NextBudget]_budgetVars PROVE BudgetInv'
  OBVIOUS
<1>1. ASSUME NEW p \in Peers, Admit(p) PROVE BudgetInv'
  BY <1>1, AdmitNewStep, AdmitKnownStep DEF Admit
<1>2. ASSUME NEW p \in Peers, Refuse(p) PROVE BudgetInv'
  BY <1>2, RefuseStep
<1>3. CASE Elapse
  BY <1>3, ElapseStep
<1>4. CASE Watch
  BY <1>4, WatchStep
<1>5. CASE UNCHANGED budgetVars
  BY <1>5 DEF budgetVars, BudgetInv, BudgetTypeOK, PaidFor, Paid, Debt,
              PromisesCovered, Tracked
<1> QED
  BY <1>1, <1>2, <1>3, <1>4, <1>5 DEF NextBudget, Request

(* Every admission is paid for and every Retry-After covered, through all  *)
(* requests and refills (IpBudget::try_acquire).                           *)
THEOREM BudgetInvariant == SpecBudget => []BudgetInv
  BY BudgetInit, BudgetStep, PTL DEF SpecBudget

-----------------------------------------------------------------------------
LEMMA PaidForBounds == BudgetInv => AdmittedBounded
<1> SUFFICES ASSUME BudgetInv, ~cleared, NEW p \in Peers
             PROVE  admitted[p] * Refill
                      <= Burst * Refill + (now - since) + Refill - 1
  BY DEF AdmittedBounded
<1>1. Paid(p)
  BY DEF BudgetInv, PaidFor
<1>2. now \in Nat /\ since \in Nat /\ admitted[p] * Refill \in Nat
  <2>1. now \in Nat /\ since \in Nat /\ admitted[p] \in Nat
    BY DEF BudgetInv, BudgetTypeOK
  <2> QED
    BY <2>1, Products, ConstantFacts
<1>3. CASE p \in Tracked
  <2>1. Debt(p) \in Int /\ Debt(p) <= now
    BY <1>3, <1>2, TrackedFacts DEF Debt, BudgetInv
  <2> QED
    BY <1>1, <1>2, <1>3, <2>1, ConstantFacts DEF Paid
<1>4. CASE p \notin Tracked
  BY <1>1, <1>2, <1>4, ConstantFacts DEF Paid
<1> QED
  BY <1>3, <1>4

LEMMA CoveredPromisesKept == BudgetInv => RetryAfterHonoured
<1> SUFFICES ASSUME BudgetInv, NEW p \in Tracked,
                    promised[p] # Absent, promised[p] <= now
             PROVE  Refilled(buckets[p]).tokens > 0
  BY DEF RetryAfterHonoured, Admissible
<1>1. buckets[p].at + Refill <= now
  <2>1. promised[p] \in Nat
    BY TrackedFacts DEF BudgetInv, BudgetTypeOK
  <2> QED
    BY <2>1, TrackedFacts, ConstantFacts DEF BudgetInv, PromisesCovered
<1> QED
  BY <1>1, TrackedFacts, RefilledFacts DEF BudgetInv

(* For every burst, refill and table size: an address is served no more    *)
(* than its burst and one request per refill begun, in any window in which *)
(* the table was not cleared (IpBudget).                                   *)
THEOREM WindowBound == SpecBudget => []AdmittedBounded
  BY BudgetInvariant, PaidForBounds, PTL

(* An address that waits out its Retry-After is served.                    *)
THEOREM WaitingSuffices == SpecBudget => []RetryAfterHonoured
  BY BudgetInvariant, CoveredPromisesKept, PTL

-----------------------------------------------------------------------------
LEMMA KeptFits ==
  ASSUME BudgetTypeOK, NEW p
  PROVE  Cardinality(Kept \cup {p}) <= MaxTracked + 1
<1>1. InDebt \in SUBSET Peers
  BY DEF InDebt, BudgetTypeOK
<1>2. IsFiniteSet(InDebt) /\ Cardinality(InDebt) \in Nat
  BY <1>1, FS_Subset, FS_CardinalityType, ConstantFacts
<1>3. IsFiniteSet(Kept) /\ Cardinality(Kept) \in Nat /\ Cardinality(Kept) <= MaxTracked
  BY <1>2, FS_EmptySet, ConstantFacts DEF Kept
<1>4. Cardinality(Kept \cup {p})
        = IF p \in Kept THEN Cardinality(Kept) ELSE Cardinality(Kept) + 1
  BY <1>3, FS_AddElement
<1>5. IsFiniteSet(Kept \cup {p})
  BY <1>3, FS_AddElement
<1>6. Cardinality(Kept \cup {p}) \in Nat
  BY <1>5, FS_CardinalityType
<1> QED
  BY <1>3, <1>4, <1>6, ConstantFacts

(* The table of addresses never holds more than one above its limit        *)
(* (IpBudget::admit).                                                      *)
THEOREM TableStaysBounded == SpecBudget => []TableBounded
<1>1. InitBudget => TableBounded
  <2>1. InitBudget => Tracked = {}
    BY DEF InitBudget, Tracked
  <2> QED
    BY <2>1, FS_EmptySet, ConstantFacts DEF TableBounded
<1>2. BudgetInv /\ TableBounded /\ [NextBudget]_budgetVars => TableBounded'
  <2> SUFFICES ASSUME BudgetInv, TableBounded, [NextBudget]_budgetVars
               PROVE  TableBounded'
    OBVIOUS
  <2>1. ASSUME NEW p \in Peers, AdmitNew(p) PROVE TableBounded'
    BY <2>1, NewAddress, KeptFits DEF TableBounded, BudgetInv
  <2>2. ASSUME NEW p \in Peers, AdmitKnown(p) \/ Refuse(p) PROVE TableBounded'
    <3>1. Tracked' = Tracked
      BY <2>2 DEF AdmitKnown, Refuse, Tracked, BudgetInv, BudgetTypeOK
    <3> QED
      BY <3>1 DEF TableBounded
  <2>3. CASE Elapse \/ Watch \/ UNCHANGED budgetVars
    BY <2>3 DEF Elapse, Watch, budgetVars, Tracked, TableBounded
  <2> QED
    BY <2>1, <2>2, <2>3 DEF NextBudget, Request, Admit
<1> QED
  BY <1>1, <1>2, BudgetInvariant, PTL DEF SpecBudget

-----------------------------------------------------------------------------
(* Connections and the peers they are charged to. *)
ConnectionsOK ==
  /\ phase \in [Connections -> Phases]
  /\ from \in [Connections -> Peers \cup {Absent}]
  /\ \A c \in Connections : phase[c] = "closed" <=> from[c] = Absent

CountsOK == DOMAIN counts \subseteq Peers /\ counts \in [DOMAIN counts -> Nat \ {0}]

PermitInv == ConnectionsOK /\ CountsOK /\ available \in Nat /\ PermitsAccounted

(* What a step that leaves the connections alone keeps. *)
LEMMA Undisturbed ==
  PermitInv /\ UNCHANGED listenerVars => PermitInv'
  BY DEF PermitInv, ConnectionsOK, CountsOK, PermitsAccounted, CountOf, Holding,
         OpenOf, listenerVars

LEMMA Sets ==
  ASSUME ConnectionsOK
  PROVE  /\ IsFiniteSet(Holding) /\ Cardinality(Holding) \in Nat
         /\ \A p \in Peers : IsFiniteSet(OpenOf(p)) /\ Cardinality(OpenOf(p)) \in Nat
<1>1. IsFiniteSet(Connections)
  BY ListenerAssumption
<1>2. \A S \in SUBSET Connections : IsFiniteSet(S) /\ Cardinality(S) \in Nat
  BY <1>1, FS_Subset, FS_CardinalityType
<1> QED
  BY <1>2 DEF Holding, OpenOf

LEMMA Constants ==
  MaxConcurrent \in Nat \ {0} /\ MaxPerPeer \in Nat \ {0} /\ Absent \notin Peers
  BY ListenerAssumption

(* The table of counts says what it was told. *)
LEMMA CountedFacts ==
  ASSUME CountsOK, NEW p \in Peers, NEW n \in Nat, Counted(p, n)
  PROVE  /\ CountsOK'
         /\ CountOf(p)' = n
         /\ \A q \in Peers : q # p => CountOf(q)' = CountOf(q)
<1>1. CASE n = 0
  <2>1. DOMAIN counts' = DOMAIN counts \ {p}
    BY <1>1 DEF Counted
  <2>2. \A q \in DOMAIN counts' : counts'[q] = counts[q]
    BY <1>1, <2>1 DEF Counted
  <2>3. counts' = [q \in DOMAIN counts' |-> counts'[q]]
    BY DEF Counted
  <2> QED
    BY <1>1, <2>1, <2>2, <2>3 DEF CountsOK, CountOf
<1>2. CASE n # 0
  <2>1. DOMAIN counts' = DOMAIN counts \cup {p}
    BY <1>2 DEF Counted
  <2>2. \A q \in DOMAIN counts' : counts'[q] = IF q = p THEN n ELSE counts[q]
    BY <1>2, <2>1 DEF Counted
  <2>3. counts' = [q \in DOMAIN counts' |-> counts'[q]]
    BY DEF Counted
  <2> QED
    BY <1>2, <2>1, <2>2, <2>3 DEF CountsOK, CountOf
<1> QED
  BY <1>1, <1>2

LEMMA PermitInit == InitListener => PermitInv
<1> SUFFICES ASSUME InitListener PROVE PermitInv
  OBVIOUS
<1>1. ConnectionsOK
  BY DEF InitListener, ConnectionsOK, Phases
<1>2. CountsOK
  BY DEF InitListener, CountsOK
<1>3. Holding = {} /\ \A p \in Peers : OpenOf(p) = {}
  BY DEF InitListener, Holding, OpenOf
<1>4. \A p \in Peers : CountOf(p) = 0
  BY DEF InitListener, CountOf
<1>5. Cardinality(Holding) = 0 /\ \A p \in Peers : Cardinality(OpenOf(p)) = 0
  BY <1>3, FS_EmptySet
<1>6. available = MaxConcurrent
  BY DEF InitListener
<1>7. PermitsAccounted
  BY <1>4, <1>5, <1>6, Constants DEF PermitsAccounted
<1> QED
  BY <1>1, <1>2, <1>6, <1>7, Constants DEF PermitInv

LEMMA TakePermitStep ==
  ASSUME PermitInv, NEW c \in Connections, NEW p \in Peers, TakePermit(c, p)
  PROVE  PermitInv'
<1>1. ConnectionsOK'
  BY Constants DEF PermitInv, ConnectionsOK, TakePermit, Becomes, Phases
<1>2. c \notin Holding /\ Holding' = Holding \cup {c}
  BY DEF PermitInv, ConnectionsOK, TakePermit, Becomes, Holding
<1>3. \A q \in Peers : OpenOf(q)' = OpenOf(q) /\ CountOf(q)' = CountOf(q)
  BY DEF PermitInv, ConnectionsOK, TakePermit, Becomes, OpenOf, CountOf
<1>4. Cardinality(Holding') = Cardinality(Holding) + 1
  BY <1>2, Sets, FS_AddElement DEF PermitInv
<1>5. available' = available - 1 /\ available' \in Nat /\ CountsOK'
  BY DEF TakePermit, PermitInv, CountsOK
<1> QED
  BY <1>1, <1>3, <1>4, <1>5, Sets, Constants DEF PermitInv, PermitsAccounted

LEMMA CountPeerStep ==
  ASSUME PermitInv, NEW c \in Connections, CountPeer(c)
  PROVE  PermitInv'
<1> DEFINE p == from[c]
<1>1. p \in Peers /\ phase[c] = "permitted"
  BY DEF PermitInv, ConnectionsOK, CountPeer
<1>2. CountOf(p) \in Nat /\ CountOf(p) = Cardinality(OpenOf(p)) /\ CountOf(p) < MaxPerPeer
  BY <1>1, Sets DEF PermitInv, PermitsAccounted, CountPeer
<1>3. /\ CountsOK' /\ CountOf(p)' = CountOf(p) + 1
      /\ \A q \in Peers : q # p => CountOf(q)' = CountOf(q)
  BY <1>1, <1>2, CountedFacts DEF PermitInv, CountPeer
<1>4. ConnectionsOK'
  BY DEF PermitInv, ConnectionsOK, CountPeer, Becomes, Phases
<1>5. Holding' = Holding
  BY DEF PermitInv, ConnectionsOK, CountPeer, Becomes, Holding
<1>6. /\ c \notin OpenOf(p) /\ OpenOf(p)' = OpenOf(p) \cup {c}
      /\ \A q \in Peers : q # p => OpenOf(q)' = OpenOf(q)
  BY DEF PermitInv, ConnectionsOK, CountPeer, Becomes, OpenOf
<1>7. Cardinality(OpenOf(p)') = Cardinality(OpenOf(p)) + 1
  BY <1>1, <1>6, Sets, FS_AddElement DEF PermitInv
<1>8. \A q \in Peers : CountOf(q)' = Cardinality(OpenOf(q)') /\ CountOf(q)' <= MaxPerPeer
  <2> SUFFICES ASSUME NEW q \in Peers
               PROVE  CountOf(q)' = Cardinality(OpenOf(q)') /\ CountOf(q)' <= MaxPerPeer
    OBVIOUS
  <2>1. CASE q = p
    <3>1. OpenOf(q)' = OpenOf(p)' /\ CountOf(q)' = CountOf(p)'
      BY <2>1 DEF CountPeer, OpenOf, CountOf
    <3> QED
      BY <1>2, <1>3, <1>7, <3>1, Constants
  <2>2. CASE q # p
    BY <1>3, <1>6, <2>2 DEF PermitInv, PermitsAccounted
  <2> QED
    BY <2>1, <2>2
<1> QED
  BY <1>3, <1>4, <1>5, <1>8 DEF PermitInv, PermitsAccounted, CountPeer

LEMMA RefusePeerStep ==
  ASSUME PermitInv, NEW c \in Connections, RefusePeer(c)
  PROVE  PermitInv'
<1>1. ConnectionsOK'
  BY Constants DEF PermitInv, ConnectionsOK, RefusePeer, Close, Becomes, Phases
<1>2. c \in Holding /\ Holding' = Holding \ {c}
  BY DEF PermitInv, ConnectionsOK, RefusePeer, Close, Becomes, Holding
<1>3. \A q \in Peers : OpenOf(q)' = OpenOf(q) /\ CountOf(q)' = CountOf(q)
  BY Constants DEF PermitInv, ConnectionsOK, RefusePeer, Close, Becomes, OpenOf, CountOf
<1>4. Cardinality(Holding') = Cardinality(Holding) - 1
  BY <1>2, Sets, FS_RemoveElement DEF PermitInv
<1>5. available' = available + 1 /\ CountsOK'
  BY DEF RefusePeer, PermitInv, CountsOK
<1> QED
  BY <1>1, <1>3, <1>4, <1>5, Sets, Constants DEF PermitInv, PermitsAccounted

LEMMA ServeStep ==
  ASSUME PermitInv, NEW c \in Connections, Serve(c)
  PROVE  PermitInv'
<1>1. ConnectionsOK'
  BY DEF PermitInv, ConnectionsOK, Serve, Becomes, Phases
<1>2. Holding' = Holding /\ \A q \in Peers : OpenOf(q)' = OpenOf(q)
  BY DEF PermitInv, ConnectionsOK, Serve, Becomes, Holding, OpenOf
<1> QED
  BY <1>1, <1>2 DEF PermitInv, PermitsAccounted, CountsOK, CountOf, Serve

LEMMA DisconnectStep ==
  ASSUME PermitInv, NEW c \in Connections, Disconnect(c)
  PROVE  PermitInv'
<1> DEFINE p == from[c]
<1>1. p \in Peers /\ phase[c] \in {"open", "answered"}
  BY DEF PermitInv, ConnectionsOK, Disconnect
<1>2. /\ c \in OpenOf(p) /\ OpenOf(p)' = OpenOf(p) \ {c}
      /\ \A q \in Peers : q # p => OpenOf(q)' = OpenOf(q)
  BY <1>1 DEF PermitInv, ConnectionsOK, Disconnect, Becomes, OpenOf
<1>3. Cardinality(OpenOf(p)') = Cardinality(OpenOf(p)) - 1
  BY ZenonT(40), <1>1, <1>2, Sets, FS_RemoveElement DEF PermitInv
<1>4. OpenOf(p) # {} /\ Cardinality(OpenOf(p)) \in Nat \ {0}
  BY <1>1, <1>2, Sets, FS_EmptySet DEF PermitInv
<1>5. CountOf(p) = Cardinality(OpenOf(p)) /\ CountOf(p) <= MaxPerPeer
  BY <1>1 DEF PermitInv, PermitsAccounted
<1>6. CountOf(p) - 1 \in Nat
  BY <1>4, <1>5
<1>7. /\ CountsOK' /\ CountOf(p)' = CountOf(p) - 1
      /\ \A q \in Peers : q # p => CountOf(q)' = CountOf(q)
  BY <1>1, <1>6, CountedFacts DEF PermitInv, Disconnect
<1>8. ConnectionsOK'
  BY DEF PermitInv, ConnectionsOK, Disconnect, Becomes, Phases
<1>9. Holding' = Holding
  BY DEF PermitInv, ConnectionsOK, Disconnect, Becomes, Holding
<1>10. \A q \in Peers : CountOf(q)' = Cardinality(OpenOf(q)') /\ CountOf(q)' <= MaxPerPeer
  <2> SUFFICES ASSUME NEW q \in Peers
               PROVE  CountOf(q)' = Cardinality(OpenOf(q)') /\ CountOf(q)' <= MaxPerPeer
    OBVIOUS
  <2>1. CASE q = p
    <3>1. OpenOf(q)' = OpenOf(p)' /\ CountOf(q)' = CountOf(p)'
      BY <2>1 DEF Disconnect, OpenOf, CountOf
    <3> QED
      BY <1>3, <1>4, <1>5, <1>7, <3>1, Constants
  <2>2. CASE q # p
    BY <1>2, <1>7, <2>2 DEF PermitInv, PermitsAccounted
  <2> QED
    BY <2>1, <2>2
<1> QED
  BY <1>7, <1>8, <1>9, <1>10 DEF PermitInv, PermitsAccounted, Disconnect

LEMMA ReturnPermitStep ==
  ASSUME PermitInv, NEW c \in Connections, ReturnPermit(c)
  PROVE  PermitInv'
<1>1. ConnectionsOK'
  BY Constants DEF PermitInv, ConnectionsOK, ReturnPermit, Close, Becomes, Phases
<1>2. c \in Holding /\ Holding' = Holding \ {c}
  BY DEF PermitInv, ConnectionsOK, ReturnPermit, Close, Becomes, Holding
<1>3. \A q \in Peers : OpenOf(q)' = OpenOf(q) /\ CountOf(q)' = CountOf(q)
  BY Constants DEF PermitInv, ConnectionsOK, ReturnPermit, Close, Becomes, OpenOf, CountOf
<1>4. Cardinality(Holding') = Cardinality(Holding) - 1
  BY <1>2, Sets, FS_RemoveElement DEF PermitInv
<1>5. available' = available + 1 /\ CountsOK'
  BY DEF ReturnPermit, PermitInv, CountsOK
<1> QED
  BY <1>1, <1>3, <1>4, <1>5, Sets, Constants DEF PermitInv, PermitsAccounted

LEMMA PermitStep == PermitInv /\ [NextListener]_servingVars => PermitInv'
<1> SUFFICES ASSUME PermitInv, [NextListener]_servingVars PROVE PermitInv'
  OBVIOUS
<1>1. CASE UNCHANGED listenerVars
  BY <1>1, Undisturbed
<1>2. CASE \E c \in Connections :
             \/ \E p \in Peers : TakePermit(c, p)
             \/ CountPeer(c) \/ RefusePeer(c) \/ Serve(c) \/ Disconnect(c) \/ ReturnPermit(c)
  BY <1>2, TakePermitStep, CountPeerStep, RefusePeerStep, ServeStep, DisconnectStep,
     ReturnPermitStep
<1> QED
  BY <1>1, <1>2 DEF NextListener, servingVars

(* Permits, counts and phases agree after every step of the accepting task *)
(* and of the connections (ConnectionLimits, ConnectionPermit).            *)
THEOREM PermitInvariant == SpecListener => []PermitInv
  BY PermitInit, PermitStep, PTL DEF SpecListener

(* For any limits and any number of connections and addresses: no permit   *)
(* is lost or returned twice, and each peer's count is the number of its   *)
(* open connections (ConnectionLimits, ConnectionPermit).                  *)
THEOREM PermitsAddUp == SpecListener => []PermitsAccounted
  BY PermitInvariant, PTL DEF PermitInv

-----------------------------------------------------------------------------
(* Every step of the listener is a step of the budget or leaves it alone   *)
(* (subscription_http_response is its only caller).                        *)
THEOREM ListenerUsesBudget == SpecListener => SpecBudget
<1>1. InitListener => InitBudget
  BY DEF InitListener
<1>2. PermitInv /\ [NextListener]_servingVars => [NextBudget]_budgetVars
  <2> SUFFICES ASSUME PermitInv, [NextListener]_servingVars PROVE [NextBudget]_budgetVars
    OBVIOUS
  <2>1. ASSUME NEW c \in Connections, Serve(c) PROVE NextBudget
    <3>1. from[c] \in Peers
      BY <2>1 DEF Serve, PermitInv, ConnectionsOK
    <3> QED
      BY <2>1, <3>1 DEF Serve, NextBudget
  <2>2. ASSUME NEW c \in Connections, NEW p \in Peers, TakePermit(c, p)
        PROVE  UNCHANGED budgetVars
    BY <2>2 DEF TakePermit
  <2>3. ASSUME NEW c \in Connections,
               CountPeer(c) \/ RefusePeer(c) \/ Disconnect(c) \/ ReturnPermit(c)
        PROVE  UNCHANGED budgetVars
    BY <2>3 DEF CountPeer, RefusePeer, Disconnect, ReturnPermit
  <2>4. CASE (Elapse \/ Watch) /\ UNCHANGED listenerVars
    BY <2>4 DEF NextBudget
  <2>5. CASE UNCHANGED servingVars
    BY <2>5 DEF servingVars
  <2> QED
    BY <2>1, <2>2, <2>3, <2>4, <2>5 DEF NextListener
<1> QED
  BY <1>1, <1>2, PermitInvariant, PTL DEF SpecListener, SpecBudget

(* The window bound holds of every listener.                               *)
THEOREM ListenerWindowBound == SpecListener => []AdmittedBounded
  BY ListenerUsesBudget, WindowBound, PTL

(* An address that waits out its Retry-After is served by the listener.    *)
THEOREM ListenerWaitingSuffices == SpecListener => []RetryAfterHonoured
  BY ListenerUsesBudget, WaitingSuffices, PTL

(* The listener's table of addresses stays bounded (IpBudget::admit).      *)
THEOREM ListenerTableBounded == SpecListener => []TableBounded
  BY ListenerUsesBudget, TableStaysBounded, PTL

(* Type correctness of the whole listener. *)
THEOREM ListenerTypesCorrect == SpecListener => []ListenerTypeOK
<1>1. PermitInv /\ BudgetInv => ListenerTypeOK
  <2> SUFFICES ASSUME PermitInv, BudgetInv PROVE ListenerTypeOK
    OBVIOUS
  <2>1. available \in 0..MaxConcurrent
    BY Sets, Constants DEF PermitInv, PermitsAccounted
  <2> QED
    BY <2>1 DEF PermitInv, BudgetInv, ConnectionsOK, CountsOK, ListenerTypeOK
<1>2. SpecListener => []BudgetInv
  BY ListenerUsesBudget, BudgetInvariant, PTL
<1> QED
  BY <1>1, <1>2, PermitInvariant, PTL
=============================================================================
