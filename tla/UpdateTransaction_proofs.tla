---------------------- MODULE UpdateTransaction_proofs ----------------------
(***************************************************************************)
(* An update leaves either what it installed or what it found.             *)
(*                                                                         *)
(* Everything rests on one picture of the command that holds the lock:     *)
(* what it took down of the deployment it found, what of the disk still is *)
(* or is again as it found it, and - unless something died or failed twice *)
(* - which services still run on that.                                     *)
(***************************************************************************)
EXTENDS UpdateTransaction, SequenceTheorems, TLAPS

Scopes == {Binaries, {"singBox"}}

Jobs == [new : [Binaries -> Versions] \cup [{"singBox"} -> Versions], before : Disks,
         dir : Pairs \cup {None}, saved : Copies \cup {None}]

(* The services of bs run on d. *)
RunsOn(d, bs) ==
  \A s \in bs : /\ running[s] # Down
                /\ running[s].version = d[s] /\ running[s].config = d.config

Healthy(d) == \A s \in Binaries : d[s] \notin Unhealthy

Undoing   == {"undo sbctl", "undo singBox", "undo config", "undo pair"}
Restoring == {"restore sbctl", "restore singBox", "restore config", "restore pair", "restart"}

(* Nothing has been replaced yet, or everything is back. *)
Untouched == {"checked", "pointed", "opened", "saved", "undo config", "undo pair",
              "restore config", "restore pair", "restart"}

(* The copy is complete. *)
Copied == {"saved", "written", "replaced"} \cup Undoing \cup Restoring

(* The services have not been asked to restart. *)
Unasked == {"checked", "pointed", "opened", "saved", "written"} \cup Undoing

(* What the command u under way knows, and how far the disk is from it.    *)
Found(u) ==
  LET j == job[u] IN
  /\ j \in Jobs
  /\ Checked(j.before.singBox, j.before.config)
  /\ Checked(j.new["singBox"], j.before.config)
  /\ disk.config = j.before.config
  /\ disk.singBox \in {j.before.singBox, j.new["singBox"]}
  /\ \A b \in Binaries \ DOMAIN j.new : disk[b] = j.before[b]
  /\ pc[u] \in Untouched => disk = j.before
  /\ pc[u] \in {"undo singBox", "restore singBox"} => disk.sbctl = j.before.sbctl
  /\ pc[u] = "written" => disk.singBox = j.before.singBox

HasCopy(u) ==
  LET j == job[u] IN
  /\ j.saved # None => pc[u] \in Copied
  /\ pc[u] # "checked" => Len(points) \in 1..Kept
  /\ pc[u] = "opened" => j.dir \in Pairs /\ j.dir.chain = j.dir.key
  /\ pc[u] \in Copied =>
       /\ j.saved \in Copies /\ j.saved.disk = j.before
       /\ j.saved.pair.chain = j.saved.pair.key
       /\ points[Len(points)] = j.saved

StillRuns(u) ==
  LET j == job[u] IN
  ~suspect =>
    /\ Healthy(j.before)
    /\ RunsOn(j.before, Binaries \ DOMAIN j.new)
    /\ pc[u] \in Unasked => RunsOn(j.before, Binaries)
    /\ pc[u] \in Undoing => disk.singBox = j.before.singBox

Inside == \A u \in Updaters : lock = u => Found(u) /\ HasCopy(u) /\ StillRuns(u)

Free ==
  lock = None =>
    /\ Checked(disk.singBox, disk.config)
    /\ ~suspect => Healthy(disk) /\ RunsOn(disk, Binaries)

Types ==
  /\ TypeOK
  /\ job \in [Updaters -> Jobs \cup {None}]
  /\ suspect \in BOOLEAN
  /\ Len(points) <= Kept

IInv == Types /\ PairsStayWhole /\ Free /\ Inside

-----------------------------------------------------------------------------
LEMMA Constants ==
  /\ None \notin Updaters /\ None \notin Copies /\ Down \notin Daemons
  /\ Kept \in Nat \ {0}
  BY UpdateAssumption, NothingAssumption

(* A rollback point is made at the end, and the oldest goes.               *)
LEMMA PruneFacts ==
  ASSUME NEW S, NEW p \in Seq(S), p # <<>>
  PROVE  /\ Prune(p) \in Seq(S)
         /\ Len(Prune(p)) \in 1..Kept
         /\ \A i \in DOMAIN Prune(p) : \E k \in DOMAIN p : Prune(p)[i] = p[k]
<1> DEFINE first == Len(p) - Kept + 1
<1>1. Len(p) \in Nat \ {0} /\ DOMAIN p = 1..Len(p) /\ \A i \in 1..Len(p) : p[i] \in S
  BY ElementOfSeq, LenProperties, EmptySeq
<1>2. CASE Len(p) > Kept
  <2>1. Prune(p) = SubSeq(p, first, Len(p))
    BY <1>2 DEF Prune
  <2>2. first \in Int /\ first >= 1 /\ first <= Len(p) /\ Len(p) - first + 1 = Kept
    BY <1>1, <1>2, Constants
  <2> HIDE DEF first
  <2>3. /\ SubSeq(p, first, Len(p)) \in Seq(S)
        /\ Len(SubSeq(p, first, Len(p))) = Kept
        /\ \A i \in 1..Kept : SubSeq(p, first, Len(p))[i] = p[first + i - 1]
    <3>1. \A i \in first..Len(p) : p[i] \in S
      BY <1>1, <2>2
    <3> QED BY <1>1, <2>2, <3>1, SubSeqProperties
  <2>4. \A i \in 1..Kept : first + i - 1 \in 1..Len(p)
    BY <1>1, <2>2, Constants
  <2>5. DOMAIN Prune(p) = 1..Kept
    BY <2>1, <2>3, LenProperties
  <2>6. ASSUME NEW i \in 1..Kept
        PROVE  \E k \in DOMAIN p : Prune(p)[i] = p[k]
    <3>1. Prune(p)[i] = p[first + i - 1] /\ first + i - 1 \in DOMAIN p
      BY <1>1, <2>1, <2>3, <2>4
    <3> QED BY <3>1
  <2>7. Len(Prune(p)) = Kept /\ Kept \in 1..Kept
    BY <2>1, <2>3, Constants
  <2> QED BY <2>1, <2>3, <2>5, <2>6, <2>7
<1>3. CASE ~(Len(p) > Kept)
  BY <1>1, <1>3, Constants DEF Prune
<1> QED BY <1>2, <1>3

-----------------------------------------------------------------------------
(***************************************************************************)
(* Types                                                                   *)
(***************************************************************************)
LEMMA InitTypes == Init => Types
<1> SUFFICES ASSUME Init PROVE Types
  OBVIOUS
<1>1. disk \in Disks /\ pinned \in Pairs /\ live \in Nat
  BY DEF Init, Pairs
<1>2. running \in [Binaries -> Daemons \cup {Down}]
  BY <1>1 DEF Init, Started, Daemons, Disks, Binaries
<1>3. points = <<>> /\ points \in Seq(Copies \cup {None}) /\ Len(points) <= Kept
  BY Constants, EmptySeq DEF Init
<1>4. \A u \in Updaters : lock = u <=> pc[u] \notin Over
  BY Constants DEF Init, Over
<1>5. lock \in Updaters \cup {None} /\ pc \in [Updaters -> Phases]
  BY DEF Init, Phases
<1> QED BY <1>1, <1>2, <1>3, <1>4, <1>5 DEF Types, TypeOK, Init

(* What a service is started on. *)
LEMMA StartedType ==
  ASSUME NEW d \in Disks, NEW p \in Pairs, NEW s \in Binaries
  PROVE  /\ Started(d, p, s) \in Daemons
         /\ Started(d, p, s) # Down
         /\ Started(d, p, s).version = d[s]
         /\ Started(d, p, s).config = d.config
         /\ Started(d, p, s).pair = p
<1>1. d[s] \in Versions
  BY DEF Disks, Binaries
<1>2. Started(d, p, s) \in Daemons
  BY <1>1 DEF Started, Daemons, Disks
<1> QED BY <1>2, Constants DEF Started

(* The command under way is the one that holds the lock. *)
LEMMA Holder ==
  ASSUME Types, NEW u \in Updaters, pc[u] \notin Over
  PROVE  lock = u
  BY DEF Types, TypeOK

(* What lock, counters of the commands and jobs have to do with each other. *)
LockTypes ==
  /\ lock \in Updaters \cup {None}
  /\ pc \in [Updaters -> Phases]
  /\ \A u \in Updaters : lock = u <=> pc[u] \notin Over
  /\ job \in [Updaters -> Jobs \cup {None}]

LEMMA GoesOn ==
  ASSUME Types, NEW u \in Updaters, NEW w \in Phases \ Over, pc[u] \notin Over,
         Goto(u, w), lock' = lock, job' = job
  PROVE  LockTypes'
<1>1. lock = u
  BY Holder
<1>2. pc' \in [Updaters -> Phases] /\ pc'[u] = w /\ \A v \in Updaters \ {u} : pc'[v] = pc[v]
  BY DEF Goto, Types, TypeOK
<1> QED BY <1>1, <1>2 DEF Types, TypeOK, LockTypes

LEMMA Ends ==
  ASSUME Types, NEW u \in Updaters, NEW w \in Over, pc[u] \notin Over, Finish(u, w)
  PROVE  LockTypes' /\ lock' = None
<1>1. lock = u /\ lock' = None
  BY Holder DEF Finish
<1>2. pc' \in [Updaters -> Phases] /\ pc'[u] = w /\ \A v \in Updaters \ {u} : pc'[v] = pc[v]
  BY DEF Finish, Goto, Types, TypeOK, Phases
<1>3. job' \in [Updaters -> Jobs \cup {None}]
  BY DEF Finish, Types
<1> QED BY <1>1, <1>2, <1>3, Constants DEF Types, TypeOK, LockTypes

(* The services a restart reaches. *)
LEMMA RestartTypes ==
  ASSUME Types, NEW up \in SUBSET Binaries, NEW down \in SUBSET Binaries,
         running' = [s \in Binaries |-> IF s \in up THEN Started(disk, pinned, s)
                                        ELSE IF s \in down THEN Down ELSE running[s]]
  PROVE  running' \in [Binaries -> Daemons \cup {Down}]
  BY StartedType DEF Types, TypeOK

LEMMA HalfRestartedTypes ==
  ASSUME Types, NEW u \in Updaters, HalfRestarted(u), Restarted(u) \subseteq Binaries
  PROVE  running' \in [Binaries -> Daemons \cup {Down}]
<1>1. PICK up \in SUBSET (Restarted(u) \ {s \in Binaries : disk[s] \in Unhealthy}) :
      \E down \in SUBSET (Restarted(u) \ up) :
        running' = [s \in Binaries |-> IF s \in up THEN Started(disk, pinned, s)
                                       ELSE IF s \in down THEN Down ELSE running[s]]
  BY DEF HalfRestarted
<1>2. PICK down \in SUBSET (Restarted(u) \ up) :
        running' = [s \in Binaries |-> IF s \in up THEN Started(disk, pinned, s)
                                       ELSE IF s \in down THEN Down ELSE running[s]]
  BY <1>1
<1> QED BY <1>2, RestartTypes

LEMMA AllRestartedTypes ==
  ASSUME Types, NEW u \in Updaters,
         running' = [s \in Binaries |-> IF s \in Restarted(u)
                                        THEN Started(disk, pinned, s) ELSE running[s]]
  PROVE  running' \in [Binaries -> Daemons \cup {Down}]
  BY StartedType DEF Types, TypeOK

(* The command that holds the lock has a job. *)
LEMMA JobFacts ==
  ASSUME NEW j \in Jobs
  PROVE  /\ DOMAIN j.new \in Scopes /\ DOMAIN j.new \subseteq Binaries
         /\ "singBox" \in DOMAIN j.new
         /\ \A b \in DOMAIN j.new : j.new[b] \in Versions
         /\ j.before \in Disks
         /\ j.dir \in Pairs \cup {None} /\ j.saved \in Copies \cup {None}
<1>1. CASE j.new \in [Binaries -> Versions]
  BY <1>1 DEF Jobs, Scopes, Binaries
<1>2. CASE j.new \in [{"singBox"} -> Versions]
  BY <1>2 DEF Jobs, Scopes, Binaries
<1> QED BY <1>1, <1>2 DEF Jobs

LEMMA WrittenTypes ==
  ASSUME Types, NEW b \in Binaries, NEW v \in Versions
  PROVE  [disk EXCEPT ![b] = v] \in Disks
  BY DEF Types, TypeOK, Disks, Binaries

LEMMA CopiedBack ==
  ASSUME Types, NEW d \in Disks, NEW e \in {"sbctl", "singBox", "config"}
  PROVE  [disk EXCEPT ![e] = d[e]] \in Disks
  BY DEF Types, TypeOK, Disks

(* What stays as it is keeps its type. *)
LEMMA Rest ==
  ASSUME Types, LockTypes',
         disk' \in Disks, pinned' \in Pairs, live' \in Nat,
         running' \in [Binaries -> Daemons \cup {Down}],
         points' \in Seq(Copies \cup {None}), Len(points') <= Kept,
         suspect' \in BOOLEAN
  PROVE  Types'
  BY DEF Types, TypeOK, LockTypes

LEMMA TypeStep == ASSUME IInv, [Next]_vars PROVE Types'
<1> USE DEF Over, After, Phases
<1>0. Types /\ disk \in Disks /\ pinned \in Pairs /\ live \in Nat
      /\ running \in [Binaries -> Daemons \cup {Down}]
      /\ points \in Seq(Copies \cup {None}) /\ Len(points) <= Kept /\ suspect \in BOOLEAN
      /\ LockTypes
  BY DEF IInv, Types, TypeOK, LockTypes
<1>a. ASSUME NEW u \in Updaters, lock = u
      PROVE  Found(u) /\ HasCopy(u) /\ job[u] \in Jobs
  BY <1>a DEF IInv, Inside, Found
<1>1. ASSUME NEW u \in Updaters, Acquire(u) PROVE Types'
  <2>1. PICK scope \in Scopes : \E new \in [scope -> Versions] :
          job' = [job EXCEPT ![u] = [new |-> new, before |-> disk, dir |-> None, saved |-> None]]
    BY <1>1 DEF Acquire, Scopes
  <2>2. PICK new \in [scope -> Versions] :
          job' = [job EXCEPT ![u] = [new |-> new, before |-> disk, dir |-> None, saved |-> None]]
    BY <2>1
  <2>3. [new |-> new, before |-> disk, dir |-> None, saved |-> None] \in Jobs
    BY <1>0, <2>2 DEF Jobs, Scopes
  <2>4. job' \in [Updaters -> Jobs \cup {None}]
    BY <1>0, <2>2, <2>3 DEF Types
  <2>5. /\ pc' \in [Updaters -> Phases] /\ lock = None /\ lock' = u
        /\ pc'[u] = "checked" /\ \A v \in Updaters \ {u} : pc'[v] = pc[v]
    BY <1>0, <1>1 DEF Acquire, Goto, Types, TypeOK
  <2>6. LockTypes'
    BY <1>0, <2>4, <2>5, Constants DEF LockTypes, Types, TypeOK
  <2> QED BY <1>0, <1>1, <2>6, Rest DEF Acquire
<1>2. ASSUME NEW u \in Updaters, MakePoint(u) PROVE Types'
  <2>1. LockTypes'
    BY <1>0, <1>2, GoesOn DEF MakePoint
  <2>2. /\ Append(points, None) \in Seq(Copies \cup {None}) /\ Append(points, None) # <<>>
    BY <1>0, AppendProperties
  <2>3. points' \in Seq(Copies \cup {None}) /\ Len(points') \in 1..Kept
    BY <1>2, <2>2, PruneFacts DEF MakePoint
  <2>4. Len(points') <= Kept
    BY <2>3, Constants
  <2> QED BY <1>0, <1>2, <2>1, <2>3, <2>4, Rest DEF MakePoint
<1>3. ASSUME NEW u \in Updaters, OpenPair(u) PROVE Types'
  <2>1. lock = u
    BY <1>0, <1>3, Holder DEF OpenPair
  <2>2. job' \in [Updaters -> Jobs \cup {None}]
    BY <1>0, <1>3, <1>a, <2>1 DEF OpenPair, Types, Jobs
  <2>3. /\ pc' \in [Updaters -> Phases] /\ lock' = u
        /\ pc'[u] = "opened" /\ \A v \in Updaters \ {u} : pc'[v] = pc[v]
    BY <1>0, <1>3, <2>1 DEF OpenPair, Goto, Types, TypeOK
  <2>4. LockTypes'
    BY <1>0, <2>1, <2>2, <2>3 DEF LockTypes
  <2> QED BY <1>0, <1>3, <2>4, Rest DEF OpenPair
<1>4. ASSUME NEW u \in Updaters, Backup(u) PROVE Types'
  <2> DEFINE copy == [disk |-> disk, pair |-> ReadPair(u)]
  <2>1. lock = u /\ pc[u] = "opened" /\ job[u] \in Jobs /\ job[u].dir \in Pairs
        /\ Len(points) \in 1..Kept
    BY <1>0, <1>4, <1>a, Holder DEF Backup, HasCopy
  <2>2. copy \in Copies
    BY <1>0, <2>1 DEF Copies, ReadPair
  <2>3. job' = [job EXCEPT ![u].saved = copy] /\ points' = [points EXCEPT ![Len(points)] = copy]
    BY <1>4 DEF Backup
  <2> HIDE DEF copy
  <2>4. job' \in [Updaters -> Jobs \cup {None}]
    BY <1>0, <2>1, <2>2, <2>3 DEF Types, Jobs
  <2>5. points' \in Seq(Copies \cup {None}) /\ Len(points') <= Kept
    <3>1. copy \in Copies \cup {None} /\ Len(points) \in 1..Len(points)
      BY <1>0, <2>1, <2>2, LenProperties, Constants
    <3> QED BY <1>0, <2>3, <3>1, ExceptSeq
  <2>6. /\ pc' \in [Updaters -> Phases] /\ lock' = u
        /\ pc'[u] = "saved" /\ \A v \in Updaters \ {u} : pc'[v] = pc[v]
    BY <1>0, <1>4, <2>1 DEF Backup, Goto, Types, TypeOK
  <2>7. LockTypes'
    BY <1>0, <2>1, <2>4, <2>6 DEF LockTypes
  <2> QED BY <1>0, <1>4, <2>5, <2>7, Rest DEF Backup
<1>5. ASSUME NEW u \in Updaters, BackupFails(u) PROVE Types'
  <2>1. LockTypes'
    BY <1>0, <1>5, Ends DEF BackupFails
  <2> QED BY <1>0, <1>5, <2>1, Rest DEF BackupFails
<1>b. ASSUME NEW u \in Updaters, pc[u] \in {"saved", "written"}
      PROVE  [disk EXCEPT ![NextBinary(u)] = job[u].new[NextBinary(u)]] \in Disks
  <2>1. job[u] \in Jobs
    BY <1>0, <1>a, <1>b, Holder
  <2>2. NextBinary(u) \in Binaries /\ NextBinary(u) \in DOMAIN job[u].new
    BY <1>b, <2>1, JobFacts DEF NextBinary, Restarted, Binaries
  <2> QED BY <1>0, <2>1, <2>2, JobFacts, WrittenTypes
<1>6. ASSUME NEW u \in Updaters, WriteBinary(u) PROVE Types'
  <2>1. LockTypes'
    <3>1. CASE NextBinary(u) = "sbctl"
      BY <1>0, <1>6, <3>1, GoesOn DEF WriteBinary
    <3>2. CASE NextBinary(u) # "sbctl"
      BY <1>0, <1>6, <3>2, GoesOn DEF WriteBinary
    <3> QED BY <3>1, <3>2
  <2>2. disk' \in Disks
    BY <1>6, <1>b DEF WriteBinary
  <2> QED BY <1>0, <1>6, <2>1, <2>2, Rest DEF WriteBinary
<1>7. ASSUME NEW u \in Updaters, WriteFails(u) PROVE Types'
  <2>1. LockTypes'
    <3>1. CASE pc[u] = "saved"
      BY <1>0, <1>7, <3>1, Ends DEF WriteFails
    <3>2. CASE pc[u] # "saved"
      BY <1>0, <1>7, <3>2, GoesOn DEF WriteFails
    <3> QED BY <3>1, <3>2
  <2> QED BY <1>0, <1>7, <2>1, Rest DEF WriteFails
<1>8. ASSUME NEW u \in Updaters, ChmodFails(u) PROVE Types'
  <2>1. LockTypes'
    <3>1. CASE pc[u] = "saved"
      BY <1>0, <1>8, <3>1, Ends DEF ChmodFails
    <3>2. CASE pc[u] # "saved"
      BY <1>0, <1>8, <3>2, GoesOn DEF ChmodFails
    <3> QED BY <3>1, <3>2
  <2>2. disk' \in Disks
    BY <1>8, <1>b DEF ChmodFails
  <2> QED BY <1>0, <1>8, <2>1, <2>2, Rest DEF ChmodFails
<1>9. ASSUME NEW u \in Updaters, RestartOk(u) PROVE Types'
  <2>1. LockTypes'
    BY <1>0, <1>9, Ends DEF RestartOk
  <2>2. running' \in [Binaries -> Daemons \cup {Down}]
    BY <1>0, <1>9, AllRestartedTypes DEF RestartOk
  <2> QED BY <1>0, <1>9, <2>1, <2>2, Rest DEF RestartOk
<1>c. ASSUME NEW u \in Updaters, pc[u] \notin Over PROVE Restarted(u) \subseteq Binaries
  BY <1>0, <1>a, <1>c, Holder, JobFacts DEF Restarted
<1>10. ASSUME NEW u \in Updaters, RestartFails(u) PROVE Types'
  <2>1. LockTypes'
    BY <1>0, <1>10, GoesOn DEF RestartFails
  <2>2. running' \in [Binaries -> Daemons \cup {Down}]
    BY <1>0, <1>10, <1>c, HalfRestartedTypes DEF RestartFails
  <2> QED BY <1>0, <1>10, <2>1, <2>2, Rest DEF RestartFails
<1>d. ASSUME NEW u \in Updaters, Entry(u) PROVE disk' \in Disks
  <2>1. job[u].saved \in Copies
    BY <1>0, <1>a, <1>d, Holder DEF Entry, HasCopy, Copied, Undoing, Restoring
  <2>2. After[pc[u]][1] \in {"sbctl", "singBox", "config"}
    BY <1>d DEF Entry
  <2> QED BY <1>0, <1>d, <2>1, <2>2, CopiedBack DEF Entry, Copies
<1>e. ASSUME NEW u \in Updaters, Pair(u) PROVE pinned' \in Pairs
  BY <1>0, <1>a, <1>e, Holder DEF Pair, HasCopy, Copied, Undoing, Restoring, Copies
<1>11. ASSUME NEW u \in Updaters, RestoreEntry(u) PROVE Types'
  <2>1. pc[u] \notin Over /\ After[pc[u]][2] \in Phases \ Over
    BY <1>11 DEF RestoreEntry, Entry
  <2>2. LockTypes'
    BY <1>0, <1>11, <2>1, GoesOn DEF RestoreEntry
  <2>3. disk' \in Disks
    BY <1>11, <1>d DEF RestoreEntry
  <2> QED BY <1>0, <1>11, <2>2, <2>3, Rest DEF RestoreEntry
<1>12. ASSUME NEW u \in Updaters, RestorePair(u) PROVE Types'
  <2>1. LockTypes'
    <3>1. CASE pc[u] = "undo pair"
      BY <1>0, <1>12, <3>1, Ends DEF RestorePair
    <3>2. CASE pc[u] # "undo pair"
      BY <1>0, <1>12, <3>2, GoesOn DEF RestorePair, Pair
    <3> QED BY <3>1, <3>2
  <2>2. pinned' \in Pairs
    BY <1>12, <1>e DEF RestorePair
  <2> QED BY <1>0, <1>12, <2>1, <2>2, Rest DEF RestorePair
<1>13. ASSUME NEW u \in Updaters, RestoreFails(u) PROVE Types'
  <2>1. LockTypes'
    BY <1>0, <1>13, Ends DEF RestoreFails
  <2>2. disk' \in Disks /\ pinned' \in Pairs
    BY <1>0, <1>13, <1>d, <1>e DEF RestoreFails
  <2> QED BY <1>0, <1>13, <2>1, <2>2, Rest DEF RestoreFails
<1>14. ASSUME NEW u \in Updaters, RestartBack(u) PROVE Types'
  <2>1. LockTypes'
    BY <1>0, <1>14, Ends DEF RestartBack
  <2>2. running' \in [Binaries -> Daemons \cup {Down}]
    BY <1>0, <1>14, AllRestartedTypes DEF RestartBack
  <2> QED BY <1>0, <1>14, <2>1, <2>2, Rest DEF RestartBack
<1>15. ASSUME NEW u \in Updaters, RestartBackFails(u) PROVE Types'
  <2>1. LockTypes'
    BY <1>0, <1>15, Ends DEF RestartBackFails
  <2>2. running' \in [Binaries -> Daemons \cup {Down}]
    BY <1>0, <1>15, <1>c, HalfRestartedTypes DEF RestartBackFails
  <2> QED BY <1>0, <1>15, <2>1, <2>2, Rest DEF RestartBackFails
<1>16. ASSUME NEW u \in Updaters, Crash(u) PROVE Types'
  <2>1. pc[u] \notin Over
    BY <1>0, <1>16 DEF Crash, LockTypes
  <2>2. LockTypes'
    BY <1>0, <1>16, <2>1, Ends DEF Crash
  <2> QED BY <1>0, <1>16, <2>2, Rest DEF Crash
<1>f. UNCHANGED update => LockTypes'
  BY <1>0 DEF update, LockTypes
<1>17. ASSUME NEW s \in Binaries, ServiceRetries(s) PROVE Types'
  <2>1. running' \in [Binaries -> Daemons \cup {Down}]
    BY <1>0, <1>17, StartedType DEF ServiceRetries
  <2> QED BY <1>0, <1>17, <1>f, <2>1, Rest DEF ServiceRetries
<1>18. ASSUME NEW c \in Configs, Configure(c) PROVE Types'
  <2>1. disk' \in Disks
    BY <1>0, <1>18 DEF Configure, Disks
  <2>2. running' \in [Binaries -> Daemons \cup {Down}]
    BY <1>0, <1>18, <2>1, StartedType DEF Configure
  <2> QED BY <1>0, <1>18, <1>f, <2>1, <2>2, Rest DEF Configure
<1>19. CASE Renew
  BY <1>0, <1>19, <1>f, Rest DEF Renew
<1>20. CASE Publish
  <2>1. pinned' \in Pairs
    BY <1>0, <1>20 DEF Publish, Pairs
  <2>2. running' \in [Binaries -> Daemons \cup {Down}]
    BY <1>0, <1>20, <2>1, StartedType DEF Publish, Binaries
  <2> QED BY <1>0, <1>20, <1>f, <2>1, <2>2, Rest DEF Publish
<1>21. CASE UNCHANGED vars
  BY <1>0, <1>21, <1>f, Rest DEF vars
<1> QED BY <1>1, <1>2, <1>3, <1>4, <1>5, <1>6, <1>7, <1>8, <1>9, <1>10, <1>11, <1>12, <1>13,
           <1>14, <1>15, <1>16, <1>17, <1>18, <1>19, <1>20, <1>21 DEF Next, Step

-----------------------------------------------------------------------------
(***************************************************************************)
(* Pairs stay whole                                                        *)
(***************************************************************************)
WholePair(p) == p.chain = p.key

(* Whatever is restarted, started or left: its pair is whole. *)
LEMMA RunningWhole ==
  ASSUME IInv, NEW p \in Pairs, WholePair(p), NEW d \in Disks,
         \A s \in Binaries : running'[s] \in {Started(d, p, s), Down, running[s]}
  PROVE  \A s \in Binaries : running'[s] # Down => running'[s].pair.chain = running'[s].pair.key
<1> SUFFICES ASSUME NEW s \in Binaries, running'[s] # Down
             PROVE  running'[s].pair.chain = running'[s].pair.key
  OBVIOUS
<1>1. CASE running'[s] = Started(d, p, s)
  BY <1>1, StartedType DEF WholePair
<1>2. CASE running'[s] = running[s]
  BY <1>2 DEF IInv, PairsStayWhole
<1> QED BY <1>1, <1>2

LEMMA HalfRestartedOutcomes ==
  ASSUME NEW u \in Updaters, HalfRestarted(u)
  PROVE  \A s \in Binaries :
           /\ running'[s] \in {Started(disk, pinned, s), Down, running[s]}
           /\ s \notin Restarted(u) => running'[s] = running[s]
<1>1. PICK up \in SUBSET (Restarted(u) \ {s \in Binaries : disk[s] \in Unhealthy}) :
      \E down \in SUBSET (Restarted(u) \ up) :
        running' = [s \in Binaries |-> IF s \in up THEN Started(disk, pinned, s)
                                       ELSE IF s \in down THEN Down ELSE running[s]]
  BY DEF HalfRestarted
<1>2. PICK down \in SUBSET (Restarted(u) \ up) :
        running' = [s \in Binaries |-> IF s \in up THEN Started(disk, pinned, s)
                                       ELSE IF s \in down THEN Down ELSE running[s]]
  BY <1>1
<1> QED BY <1>2

LEMMA PairsStep == ASSUME IInv, [Next]_vars PROVE PairsStayWhole'
<1> USE DEF WholePair
<1>0. /\ Types /\ pinned \in Pairs /\ WholePair(pinned) /\ disk \in Disks
      /\ \A s \in Binaries : running[s] # Down => running[s].pair.chain = running[s].pair.key
      /\ \A i \in DOMAIN points : points[i] # None => points[i].pair.chain = points[i].pair.key
      /\ points \in Seq(Copies \cup {None})
  BY DEF IInv, PairsStayWhole, Types, TypeOK
<1>a. ASSUME NEW u \in Updaters, pc[u] \notin Over PROVE lock = u /\ Found(u) /\ HasCopy(u)
  BY <1>0, <1>a, Holder DEF IInv, Inside
<1>b. ASSUME UNCHANGED <<points, pinned, running>> PROVE PairsStayWhole'
  BY <1>0, <1>b DEF PairsStayWhole
<1>c. ASSUME UNCHANGED <<points, pinned>>,
             \A s \in Binaries : running'[s] \in {Started(disk, pinned, s), Down, running[s]}
      PROVE  PairsStayWhole'
  BY <1>0, <1>c, RunningWhole DEF PairsStayWhole
<1>1. ASSUME NEW u \in Updaters, MakePoint(u) PROVE PairsStayWhole'
  <2> DEFINE p == Append(points, None)
  <2>1. /\ p \in Seq(Copies \cup {None}) /\ p # <<>> /\ Len(p) = Len(points) + 1
        /\ \A i \in 1..Len(points) : p[i] = points[i]
        /\ p[Len(points) + 1] = None
    BY <1>0, AppendProperties
  <2>2. DOMAIN p = 1..Len(points) + 1 /\ DOMAIN points = 1..Len(points) /\ Len(points) \in Nat
    BY <1>0, <2>1, LenProperties
  <2> HIDE DEF p
  <2>3. \A k \in DOMAIN p : p[k] # None => p[k].pair.chain = p[k].pair.key
    BY <1>0, <2>1, <2>2
  <2>4. points' = Prune(p)
    BY <1>1 DEF MakePoint, p
  <2>5. \A i \in DOMAIN points' : \E k \in DOMAIN p : points'[i] = p[k]
    BY <2>1, <2>4, PruneFacts
  <2>6. UNCHANGED <<pinned, running>>
    BY <1>1 DEF MakePoint
  <2> QED BY <1>0, <2>3, <2>5, <2>6 DEF PairsStayWhole
<1>2. ASSUME NEW u \in Updaters, Backup(u) PROVE PairsStayWhole'
  <2> DEFINE copy == [disk |-> disk, pair |-> ReadPair(u)]
  <2>1. job[u].dir.chain = job[u].dir.key
    BY <1>2, <1>a DEF Backup, HasCopy, Over
  <2>2. copy.pair.chain = copy.pair.key
    BY <2>1 DEF ReadPair
  <2>3. points' = [points EXCEPT ![Len(points)] = copy] /\ UNCHANGED <<pinned, running>>
    BY <1>2 DEF Backup
  <2> HIDE DEF copy
  <2>4. DOMAIN points' = DOMAIN points
        /\ \A i \in DOMAIN points : points'[i] \in {points[i], copy}
    BY <2>3
  <2> QED BY <1>0, <2>2, <2>3, <2>4 DEF PairsStayWhole
<1>3. ASSUME NEW u \in Updaters, RestartOk(u) \/ RestartBack(u) PROVE PairsStayWhole'
  <2>1. \A s \in Binaries : running'[s] \in {Started(disk, pinned, s), Down, running[s]}
    BY <1>3 DEF RestartOk, RestartBack
  <2> QED BY <1>3, <1>c, <2>1 DEF RestartOk, RestartBack
<1>4. ASSUME NEW u \in Updaters, RestartFails(u) \/ RestartBackFails(u) PROVE PairsStayWhole'
  <2>1. \A s \in Binaries : running'[s] \in {Started(disk, pinned, s), Down, running[s]}
    BY <1>4, HalfRestartedOutcomes DEF RestartFails, RestartBackFails
  <2> QED BY <1>4, <1>c, <2>1 DEF RestartFails, RestartBackFails
<1>d. ASSUME NEW u \in Updaters, Pair(u) PROVE pinned'.chain = pinned'.key
  BY <1>a, <1>d DEF Pair, HasCopy, Copied, Undoing, Restoring, Over
<1>5. ASSUME NEW u \in Updaters, RestorePair(u) PROVE PairsStayWhole'
  BY <1>0, <1>5, <1>d DEF RestorePair, PairsStayWhole
<1>6. ASSUME NEW u \in Updaters, RestoreFails(u) PROVE PairsStayWhole'
  BY <1>0, <1>6, <1>d DEF RestoreFails, PairsStayWhole
<1>7. ASSUME NEW s \in Binaries, ServiceRetries(s) PROVE PairsStayWhole'
  <2>1. \A b \in Binaries : running'[b] \in {Started(disk, pinned, b), Down, running[b]}
    BY <1>0, <1>7 DEF ServiceRetries, Types, TypeOK
  <2> QED BY <1>7, <1>c, <2>1 DEF ServiceRetries
<1>8. ASSUME NEW c \in Configs, Configure(c) PROVE PairsStayWhole'
  <2>1. disk' \in Disks
    BY TypeStep DEF Types, TypeOK
  <2>2. \A b \in Binaries : running'[b] = Started(disk', pinned, b)
    BY <1>8 DEF Configure
  <2>3. \A b \in Binaries : running'[b].pair = pinned
    BY <1>0, <2>1, <2>2, StartedType
  <2> QED BY <1>0, <1>8, <2>3 DEF Configure, PairsStayWhole
<1>9. CASE Publish
  <2>1. pinned' \in Pairs /\ WholePair(pinned')
    BY <1>9, TypeStep DEF Publish, Types, TypeOK
  <2>2. \A b \in Binaries : running'[b] \in {Started(disk, pinned', b), Down, running[b]}
    BY <1>0, <1>9 DEF Publish, Types, TypeOK, Binaries
  <2>3. \A s \in Binaries : running'[s] # Down => running'[s].pair.chain = running'[s].pair.key
    BY <1>0, <2>1, <2>2, RunningWhole
  <2> QED BY <1>0, <1>9, <2>1, <2>3 DEF Publish, PairsStayWhole
<1>10. ASSUME NEW u \in Updaters,
              \/ Acquire(u) \/ OpenPair(u) \/ BackupFails(u) \/ WriteBinary(u) \/ WriteFails(u)
              \/ ChmodFails(u) \/ RestoreEntry(u) \/ Crash(u)
       PROVE  PairsStayWhole'
  BY <1>10, <1>b DEF Acquire, OpenPair, BackupFails, WriteBinary, WriteFails, ChmodFails,
                     RestoreEntry, Crash
<1>11. CASE Renew \/ UNCHANGED vars
  BY <1>11, <1>b DEF Renew, vars
<1> QED BY <1>1, <1>2, <1>3, <1>4, <1>5, <1>6, <1>7, <1>8, <1>9, <1>10, <1>11 DEF Next, Step

-----------------------------------------------------------------------------
(***************************************************************************)
(* What the command under way found is what it can go back to              *)
(***************************************************************************)
Held(u) == lock = u /\ Found(u) /\ HasCopy(u) /\ StillRuns(u)

LEMMA HeldFacts ==
  ASSUME IInv, NEW u \in Updaters, pc[u] \notin Over
  PROVE  /\ Held(u) /\ lock # None
         /\ pc \in [Updaters -> Phases] /\ job \in [Updaters -> Jobs \cup {None}]
         /\ DOMAIN job[u].new \in Scopes /\ DOMAIN job[u].new \subseteq Binaries
         /\ "singBox" \in DOMAIN job[u].new
         /\ job[u].before \in Disks /\ disk \in Disks
<1>1. lock = u
  BY Holder DEF IInv
<1>2. job[u] \in Jobs
  BY <1>1 DEF IInv, Inside, Found
<1> QED BY <1>1, <1>2, JobFacts, Constants DEF IInv, Inside, Held, Types, TypeOK

LEMMA Remains ==
  ASSUME NEW u \in Updaters, Held(u)'
  PROVE  Inside' /\ Free'
  BY Constants DEF Held, Inside, Free

LEMMA EndsWell ==
  ASSUME lock' = None, Checked(disk.singBox, disk.config)',
         ~suspect' => Healthy(disk)' /\ RunsOn(disk, Binaries)'
  PROVE  Inside' /\ Free'
  BY Constants DEF Inside, Free

(* Both ways a deployment is accepted. *)
LEMMA FoundAccepts ==
  ASSUME NEW u \in Updaters, Found(u) PROVE Checked(disk.singBox, disk.config)
  BY DEF Found

(* Services that are left alone go on as they are. *)
LEMMA RunsOnKept ==
  ASSUME NEW bs, NEW d, RunsOn(d, bs), \A s \in bs : running'[s] = running[s]
  PROVE  RunsOn(d, bs)'
  BY DEF RunsOn

LEMMA AcquireInside ==
  ASSUME IInv, NEW u \in Updaters, Acquire(u) PROVE Inside' /\ Free'
<1>1. PICK scope \in Scopes : \E new \in [scope -> Versions] :
        /\ Checked(new["singBox"], disk.config)
        /\ job' = [job EXCEPT ![u] = [new |-> new, before |-> disk, dir |-> None, saved |-> None]]
  BY DEF Acquire, Scopes
<1>2. PICK new \in [scope -> Versions] :
        /\ Checked(new["singBox"], disk.config)
        /\ job' = [job EXCEPT ![u] = [new |-> new, before |-> disk, dir |-> None, saved |-> None]]
  BY <1>1
<1>3. /\ job'[u] = [new |-> new, before |-> disk, dir |-> None, saved |-> None]
      /\ pc'[u] = "checked" /\ lock' = u /\ lock = None
      /\ UNCHANGED <<disk, running, points, suspect>>
  BY <1>2 DEF Acquire, Goto, IInv, Types, TypeOK
<1>4. disk \in Disks
  BY DEF IInv, Types, TypeOK
<1>5. [new |-> new, before |-> disk, dir |-> None, saved |-> None] \in Jobs
  BY <1>4 DEF Jobs, Scopes
<1>6. /\ Checked(disk.singBox, disk.config)
      /\ ~suspect => Healthy(disk) /\ RunsOn(disk, Binaries)
  BY <1>3 DEF IInv, Free
<1>7. Found(u)'
  BY <1>2, <1>3, <1>5, <1>6 DEF Found
<1>8. HasCopy(u)'
  BY <1>3 DEF HasCopy, Copied, Undoing, Restoring
<1>9. StillRuns(u)'
  BY <1>3, <1>6 DEF StillRuns, Undoing, Healthy, RunsOn
<1> QED BY <1>3, <1>7, <1>8, <1>9, Remains DEF Held

(* Up to the backup nothing but the job and the points changes. *)
LEMMA BackupInside ==
  ASSUME IInv, NEW u \in Updaters, MakePoint(u) \/ OpenPair(u) \/ Backup(u)
  PROVE  Inside' /\ Free'
<1>1. /\ pc[u] \in {"checked", "pointed", "opened"} /\ pc[u] \notin Over
      /\ UNCHANGED <<disk, running, lock, suspect>>
  BY DEF MakePoint, OpenPair, Backup, Over
<1>2. /\ Found(u) /\ HasCopy(u) /\ StillRuns(u) /\ lock' = u /\ disk \in Disks
      /\ job \in [Updaters -> Jobs \cup {None}] /\ pc \in [Updaters -> Phases]
  BY <1>1, HeldFacts DEF Held
<1>3. job[u] \in Jobs /\ disk = job[u].before
  BY <1>1, <1>2 DEF Found, Untouched
<1>4. /\ pc'[u] \in {"pointed", "opened", "saved"}
      /\ job'[u] \in Jobs /\ job'[u].new = job[u].new /\ job'[u].before = job[u].before
  <2>1. CASE MakePoint(u)
    BY <1>2, <1>3, <2>1 DEF MakePoint, Goto
  <2>2. CASE OpenPair(u)
    BY <1>2, <1>3, <2>2 DEF OpenPair, Goto, Jobs, IInv, Types, TypeOK
  <2>3. CASE Backup(u)
    <3>1. job[u].dir \in Pairs
      BY <1>2, <2>3 DEF Backup, HasCopy
    <3>2. [disk |-> disk, pair |-> ReadPair(u)] \in Copies
      BY <1>2, <3>1 DEF Copies, ReadPair
    <3> QED BY <1>2, <1>3, <2>3, <3>2 DEF Backup, Goto, Jobs
  <2> QED BY <2>1, <2>2, <2>3
<1>5. Found(u)'
  BY <1>1, <1>2, <1>3, <1>4 DEF Found, Untouched
<1>6. StillRuns(u)'
  BY <1>1, <1>2, <1>4 DEF StillRuns, Unasked, Undoing, Healthy, RunsOn
<1>7. HasCopy(u)'
  <2>0. points \in Seq(Copies \cup {None}) /\ pinned \in Pairs /\ pinned.chain = pinned.key
    BY DEF IInv, Types, TypeOK, PairsStayWhole
  <2>1. CASE MakePoint(u)
    <3>0. Append(points, None) \in Seq(Copies \cup {None}) /\ Append(points, None) # <<>>
      BY <2>0, AppendProperties
    <3>1. Len(points') \in 1..Kept
      BY <2>1, <3>0, PruneFacts DEF MakePoint
    <3>2. pc[u] = "checked" /\ pc'[u] = "pointed" /\ job'[u].saved = None
      BY <1>2, <2>1 DEF MakePoint, Goto, HasCopy, Copied, Undoing, Restoring
    <3> QED BY <3>1, <3>2 DEF HasCopy, Copied, Undoing, Restoring
  <2>2. CASE OpenPair(u)
    <3>1. /\ pc[u] = "pointed" /\ pc'[u] = "opened" /\ points' = points
          /\ job'[u].dir = pinned /\ job'[u].saved = job[u].saved
      BY <1>2, <1>3, <2>2 DEF OpenPair, Goto, Jobs
    <3> QED BY <1>2, <2>0, <3>1 DEF HasCopy, Copied, Undoing, Restoring
  <2>3. CASE Backup(u)
    <3> DEFINE copy == [disk |-> disk, pair |-> ReadPair(u)]
    <3>1. /\ pc[u] = "opened" /\ pc'[u] = "saved"
          /\ points' = [points EXCEPT ![Len(points)] = copy]
          /\ job'[u].saved = copy
      BY <1>2, <1>3, <2>3 DEF Backup, Goto, Jobs
    <3>2. job[u].dir \in Pairs /\ job[u].dir.chain = job[u].dir.key /\ Len(points) \in 1..Kept
      BY <1>2, <3>1 DEF HasCopy
    <3>3. /\ copy \in Copies /\ copy.disk = disk /\ copy.pair.chain = copy.pair.key
      BY <1>2, <3>2 DEF Copies, ReadPair
    <3> HIDE DEF copy
    <3>4. Len(points) \in 1..Len(points)
      BY <2>0, <3>2, LenProperties, Constants
    <3>5. Len(points') = Len(points) /\ points'[Len(points)] = copy
      BY <2>0, <3>1, <3>3, <3>4, ExceptSeq
    <3> QED BY <1>3, <1>4, <3>1, <3>2, <3>3, <3>5 DEF HasCopy, Copied
  <2> QED BY <2>1, <2>2, <2>3
<1> QED BY <1>2, <1>5, <1>6, <1>7, Remains DEF Held

LEMMA BackupFailsInside ==
  ASSUME IInv, NEW u \in Updaters, BackupFails(u) PROVE Inside' /\ Free'
<1>1. /\ pc[u] \in {"checked", "pointed", "opened"} /\ pc[u] \notin Over
      /\ UNCHANGED <<disk, running, suspect>> /\ lock' = None
  BY DEF BackupFails, Finish, Over
<1>2. /\ Found(u) /\ StillRuns(u) /\ disk = job[u].before
  BY <1>1, HeldFacts DEF Held, Found, Untouched
<1>3. Checked(disk.singBox, disk.config)'
  BY <1>1, <1>2, FoundAccepts
<1>4. ~suspect' => Healthy(disk)' /\ RunsOn(disk, Binaries)'
  BY <1>1, <1>2 DEF StillRuns, Unasked, Healthy, RunsOn
<1> QED BY <1>1, <1>3, <1>4, EndsWell

(* Which binary is next, and what is known of the disk then.               *)
LEMMA NextFacts ==
  ASSUME IInv, NEW u \in Updaters, pc[u] \in {"saved", "written"}
  PROVE  /\ NextBinary(u) \in DOMAIN job[u].new
         /\ NextBinary(u) = "sbctl" => pc[u] = "saved" /\ DOMAIN job[u].new = Binaries
         /\ NextBinary(u) # "sbctl" => NextBinary(u) = "singBox"
         /\ pc[u] = "saved" /\ NextBinary(u) = "singBox" => DOMAIN job[u].new = {"singBox"}
  BY HeldFacts DEF Over, NextBinary, Restarted, Scopes, Binaries

(* A binary is written: only that entry differs, and it was asked for.     *)
LEMMA WrittenFound ==
  ASSUME IInv, NEW u \in Updaters, pc[u] \in {"saved", "written"},
         disk' = [disk EXCEPT ![NextBinary(u)] = job[u].new[NextBinary(u)]],
         job'[u] = job[u],
         pc'[u] \in {"written", "replaced", "undo sbctl"},
         pc'[u] = "written" => NextBinary(u) = "sbctl"
  PROVE  /\ Found(u)'
         /\ Checked(disk.singBox, disk.config)'
<1>1. /\ Found(u) /\ disk \in Disks /\ job[u] \in Jobs
      /\ DOMAIN job[u].new \in Scopes /\ DOMAIN job[u].new \subseteq Binaries
  BY HeldFacts DEF Held, Over, Found
<1>2. DOMAIN disk = {"sbctl", "singBox", "config"}
  BY <1>1 DEF Disks
<1>3. CASE NextBinary(u) = "sbctl"
  <2>1. /\ disk'.config = disk.config /\ disk'.singBox = disk.singBox
        /\ "sbctl" \in DOMAIN job[u].new
        /\ \A b \in Binaries \ DOMAIN job[u].new : disk'[b] = disk[b]
    BY <1>2, <1>3, NextFacts DEF Binaries
  <2>2. disk.singBox = job[u].before.singBox
    BY <1>1 DEF Found, Untouched
  <2> QED BY <1>1, <2>1, <2>2 DEF Found, Untouched
<1>4. CASE NextBinary(u) = "singBox"
  <2>1. /\ disk'.config = disk.config /\ disk'.singBox = job[u].new["singBox"]
        /\ "singBox" \in DOMAIN job[u].new
        /\ \A b \in Binaries \ DOMAIN job[u].new : disk'[b] = disk[b]
    BY <1>2, <1>4, NextFacts DEF Binaries
  <2> QED BY <1>1, <1>4, <2>1 DEF Found, Untouched
<1> QED BY <1>3, <1>4, NextFacts

LEMMA CopyKept ==
  ASSUME NEW u \in Updaters, HasCopy(u), pc[u] \in Copied, pc'[u] \in Copied,
         job'[u] = job[u], points' = points
  PROVE  HasCopy(u)'
  BY DEF HasCopy, Copied, Undoing, Restoring

LEMMA WriteInside ==
  ASSUME IInv, NEW u \in Updaters, WriteBinary(u) PROVE Inside' /\ Free'
<1>1. /\ pc[u] \in {"saved", "written"} /\ pc[u] \notin Over
      /\ UNCHANGED <<running, lock, job, points, suspect>>
      /\ disk' = [disk EXCEPT ![NextBinary(u)] = job[u].new[NextBinary(u)]]
  BY DEF WriteBinary, Over
<1>2. Held(u) /\ pc \in [Updaters -> Phases] /\ disk \in Disks
  BY <1>1, HeldFacts
<1>3. pc'[u] = (IF NextBinary(u) = "sbctl" THEN "written" ELSE "replaced")
  BY <1>2 DEF WriteBinary, Goto
<1>4. Found(u)'
  BY <1>1, <1>3, WrittenFound
<1>5. HasCopy(u)'
  BY <1>1, <1>2, <1>3, CopyKept DEF Held, Copied
<1>6. StillRuns(u)'
  <2>1. job'[u] = job[u] /\ pc'[u] \notin Undoing
    BY <1>1, <1>3 DEF Undoing
  <2>2. ~suspect => Healthy(job[u].before) /\ RunsOn(job[u].before, Binaries)
                    /\ RunsOn(job[u].before, Binaries \ DOMAIN job[u].new)
    BY <1>1, <1>2 DEF Held, StillRuns, Unasked
  <2> QED BY <1>1, <2>1, <2>2 DEF StillRuns, Healthy, RunsOn
<1> QED BY <1>1, <1>2, <1>4, <1>5, <1>6, Remains DEF Held

LEMMA WriteFailsInside ==
  ASSUME IInv, NEW u \in Updaters, WriteFails(u) PROVE Inside' /\ Free'
<1>1. /\ pc[u] \in {"saved", "written"} /\ pc[u] \notin Over
      /\ UNCHANGED <<disk, running, points, suspect>>
  BY DEF WriteFails, Over
<1>2. Held(u) /\ pc \in [Updaters -> Phases]
  BY <1>1, HeldFacts
<1>3. ~suspect => /\ Healthy(job[u].before) /\ RunsOn(job[u].before, Binaries)
                  /\ RunsOn(job[u].before, Binaries \ DOMAIN job[u].new)
  BY <1>1, <1>2 DEF Held, StillRuns, Unasked
<1>4. CASE pc[u] = "saved"
  <2>1. lock' = None /\ disk = job[u].before
    BY <1>2, <1>4 DEF WriteFails, Finish, Held, Found, Untouched
  <2>2. Checked(disk.singBox, disk.config)'
    BY <1>1, <1>2, FoundAccepts DEF Held
  <2>3. ~suspect' => Healthy(disk)' /\ RunsOn(disk, Binaries)'
    BY <1>1, <1>3, <2>1 DEF Healthy, RunsOn
  <2> QED BY <2>1, <2>2, <2>3, EndsWell
<1>5. CASE pc[u] = "written"
  <2>1. pc'[u] = "undo sbctl" /\ lock' = u /\ job' = job
    BY <1>2, <1>5 DEF WriteFails, Goto, Held
  <2>2. Found(u)'
    BY <1>1, <1>2, <2>1 DEF Held, Found, Untouched
  <2>3. HasCopy(u)'
    BY <1>1, <1>2, <2>1, CopyKept DEF Held, Copied, Undoing
  <2>4. disk.singBox = job[u].before.singBox
    BY <1>2, <1>5 DEF Held, Found
  <2>5. StillRuns(u)'
    BY <1>1, <1>3, <2>1, <2>4 DEF StillRuns, Healthy, RunsOn
  <2> QED BY <2>1, <2>2, <2>3, <2>5, Remains DEF Held
<1> QED BY <1>1, <1>4, <1>5

LEMMA ChmodFailsInside ==
  ASSUME IInv, NEW u \in Updaters, ChmodFails(u) PROVE Inside' /\ Free'
<1>1. /\ pc[u] \in {"saved", "written"} /\ pc[u] \notin Over
      /\ points' = points /\ suspect' = TRUE
      /\ disk' = [disk EXCEPT ![NextBinary(u)] = job[u].new[NextBinary(u)]]
  BY DEF ChmodFails, Over
<1>2. Held(u) /\ pc \in [Updaters -> Phases] /\ disk \in Disks /\ job[u] \in Jobs
  BY <1>1, HeldFacts DEF Held, Found
<1>3. CASE pc[u] = "saved"
  <2>1. lock' = None
    BY <1>3 DEF ChmodFails, Finish
  <2>2. CASE NextBinary(u) = "sbctl"
    BY <1>1, <1>2, <2>1, <2>2, EndsWell DEF Held, Found, Disks
  <2>3. CASE NextBinary(u) = "singBox"
    BY <1>1, <1>2, <2>1, <2>3, EndsWell DEF Held, Found, Disks
  <2> QED BY <1>1, <2>2, <2>3, NextFacts
<1>4. CASE pc[u] = "written"
  <2>1. pc'[u] = "undo sbctl" /\ lock' = u /\ job' = job
    BY <1>2, <1>4 DEF ChmodFails, Goto, Held
  <2>2. Found(u)'
    BY <1>1, <2>1, WrittenFound
  <2>3. HasCopy(u)'
    BY <1>1, <1>2, <2>1, CopyKept DEF Held, Copied, Undoing
  <2>4. StillRuns(u)'
    BY <1>1 DEF StillRuns
  <2> QED BY <2>1, <2>2, <2>3, <2>4, Remains DEF Held
<1> QED BY <1>1, <1>3, <1>4

(* Restarted services run what is installed. *)
LEMMA RestartedRunsOn ==
  ASSUME IInv, NEW u \in Updaters, pc[u] \notin Over,
         running' = [s \in Binaries |-> IF s \in Restarted(u)
                                        THEN Started(disk, pinned, s) ELSE running[s]],
         disk' = disk
  PROVE  /\ Restarted(u) = Binaries => RunsOn(disk, Binaries)'
         /\ ~suspect /\ (\A b \in Binaries \ Restarted(u) : disk[b] = job[u].before[b])
              => RunsOn(disk, Binaries)'
<1>1. /\ disk \in Disks /\ pinned \in Pairs /\ Restarted(u) \subseteq Binaries
      /\ Found(u) /\ StillRuns(u)
  BY HeldFacts DEF Held, Restarted, IInv, Types, TypeOK
<1>2. \A s \in Restarted(u) : /\ running'[s] # Down
                              /\ running'[s].version = disk[s] /\ running'[s].config = disk.config
  BY <1>1, StartedType
<1>3. \A s \in Binaries \ Restarted(u) : running'[s] = running[s]
  OBVIOUS
<1>4. ASSUME ~suspect, \A b \in Binaries \ Restarted(u) : disk[b] = job[u].before[b]
      PROVE  \A s \in Binaries \ Restarted(u) :
               /\ running[s] # Down
               /\ running[s].version = disk[s] /\ running[s].config = disk.config
  BY <1>1, <1>4 DEF StillRuns, RunsOn, Found, Restarted
<1>5. ASSUME Restarted(u) = Binaries PROVE RunsOn(disk, Binaries)'
  BY <1>2, <1>5 DEF RunsOn
<1>6. ASSUME ~suspect, \A b \in Binaries \ Restarted(u) : disk[b] = job[u].before[b]
      PROVE  RunsOn(disk, Binaries)'
  <2>1. ASSUME NEW s \in Binaries
        PROVE  /\ running'[s] # Down
               /\ running'[s].version = disk'[s] /\ running'[s].config = disk'.config
    BY <1>2, <1>3, <1>4, <1>6
  <2> QED BY <2>1 DEF RunsOn
<1> QED BY <1>5, <1>6

LEMMA RestartOkInside ==
  ASSUME IInv, NEW u \in Updaters, RestartOk(u) PROVE Inside' /\ Free'
<1>1. /\ pc[u] = "replaced" /\ pc[u] \notin Over /\ lock' = None /\ disk' = disk
      /\ ComesUp(disk, Restarted(u)) /\ suspect' = (suspect /\ Restarted(u) # Binaries)
      /\ running' = [s \in Binaries |-> IF s \in Restarted(u)
                                        THEN Started(disk, pinned, s) ELSE running[s]]
  BY DEF RestartOk, Finish, Over
<1>2. Held(u)
  BY <1>1, HeldFacts
<1>3. Checked(disk.singBox, disk.config)'
  BY <1>1, <1>2, FoundAccepts DEF Held
<1>4. \A b \in Binaries \ Restarted(u) : disk[b] = job[u].before[b]
  BY <1>2 DEF Held, Found, Restarted
<1>5. ASSUME ~suspect' PROVE Healthy(disk)' /\ RunsOn(disk, Binaries)'
  <2>1. CASE Restarted(u) = Binaries
    BY <1>1, <2>1, RestartedRunsOn DEF Healthy, ComesUp
  <2>2. CASE ~suspect
    <3>1. RunsOn(disk, Binaries)'
      BY <1>1, <1>4, <2>2, RestartedRunsOn
    <3>2. Healthy(disk)
      BY <1>1, <1>2, <1>4, <2>2 DEF Held, StillRuns, Healthy, ComesUp
    <3> QED BY <1>1, <3>1, <3>2 DEF Healthy
  <2> QED BY <1>1, <1>5, <2>1, <2>2
<1> QED BY <1>1, <1>3, <1>5, EndsWell

LEMMA RestartFailsInside ==
  ASSUME IInv, NEW u \in Updaters, RestartFails(u) PROVE Inside' /\ Free'
<1>1. /\ pc[u] = "replaced" /\ pc[u] \notin Over /\ HalfRestarted(u)
      /\ UNCHANGED <<disk, points, lock, job, suspect>>
  BY DEF RestartFails, Over
<1>2. Held(u) /\ pc \in [Updaters -> Phases]
  BY <1>1, HeldFacts
<1>3. pc'[u] = "restore sbctl"
  BY <1>2 DEF RestartFails, Goto
<1>4. Found(u)'
  BY <1>1, <1>2, <1>3 DEF Held, Found, Untouched
<1>5. HasCopy(u)'
  BY <1>1, <1>2, <1>3, CopyKept DEF Held, Copied, Restoring
<1>6. \A s \in Binaries \ DOMAIN job[u].new : running'[s] = running[s]
  BY <1>1, HalfRestartedOutcomes DEF Restarted
<1>7. StillRuns(u)'
  <2>1. ~suspect => Healthy(job[u].before) /\ RunsOn(job[u].before, Binaries \ DOMAIN job[u].new)
    BY <1>2 DEF Held, StillRuns
  <2>2. pc'[u] \notin Unasked \cup Undoing
    BY <1>3 DEF Unasked, Undoing
  <2> QED BY <1>1, <1>6, <2>1, <2>2 DEF StillRuns, Healthy, RunsOn
<1> QED BY <1>1, <1>2, <1>4, <1>5, <1>7, Remains DEF Held

LEMMA SameDisk ==
  ASSUME NEW d \in Disks, NEW e \in Disks,
         d.sbctl = e.sbctl, d.singBox = e.singBox, d.config = e.config
  PROVE  d = e
<1>1. /\ d = [sbctl |-> d.sbctl, singBox |-> d.singBox, config |-> d.config]
      /\ e = [sbctl |-> e.sbctl, singBox |-> e.singBox, config |-> e.config]
  BY DEF Disks
<1> QED BY <1>1

(* One entry is put back. *)
LEMMA EntryFound ==
  ASSUME IInv, NEW u \in Updaters, Entry(u), job'[u] = job[u], pc'[u] = After[pc[u]][2]
  PROVE  /\ Found(u)' /\ pc'[u] \in Copied
         /\ pc'[u] \in Undoing <=> pc[u] \in Undoing
         /\ pc'[u] \in Unasked => pc[u] \in Unasked
         /\ disk.singBox = job[u].before.singBox => disk'.singBox = job[u].before.singBox
<1> USE DEF After
<1>1. pc[u] \in DOMAIN After /\ pc[u] \notin Over
  BY DEF Entry, Over
<1>2. Found(u) /\ HasCopy(u) /\ disk \in Disks /\ job[u].before \in Disks
  BY <1>1, HeldFacts DEF Held
<1>3. job[u].saved.disk = job[u].before
  BY <1>1, <1>2 DEF HasCopy, Copied, Undoing, Restoring
<1>4. disk' = [disk EXCEPT ![After[pc[u]][1]] = job[u].before[After[pc[u]][1]]]
  BY <1>3 DEF Entry
<1>5. CASE pc[u] \in {"undo sbctl", "restore sbctl"}
  <2>1. /\ disk'.sbctl = job[u].before.sbctl /\ disk'.singBox = disk.singBox
        /\ disk'.config = disk.config
        /\ pc'[u] = IF pc[u] = "undo sbctl" THEN "undo singBox" ELSE "restore singBox"
    BY <1>2, <1>4, <1>5 DEF Disks
  <2>2. \A b \in Binaries \ DOMAIN job[u].new : disk'[b] = job[u].before[b]
    BY <1>2, <2>1 DEF Found, Binaries
  <2> QED BY <1>2, <1>5, <2>1, <2>2 DEF Found, Untouched, Copied, Undoing, Restoring, Unasked
<1>6. CASE pc[u] \in {"undo singBox", "restore singBox"}
  <2>1. /\ disk'.singBox = job[u].before.singBox /\ disk'.sbctl = disk.sbctl
        /\ disk'.config = disk.config /\ disk' \in Disks
        /\ pc'[u] = IF pc[u] = "undo singBox" THEN "undo config" ELSE "restore config"
    BY <1>2, <1>4, <1>6 DEF Disks
  <2>2. disk' = job[u].before
    <3>1. disk.sbctl = job[u].before.sbctl /\ disk.config = job[u].before.config
      BY <1>2, <1>6 DEF Found
    <3> QED BY <1>2, <2>1, <3>1, SameDisk
  <2> QED BY <1>2, <1>6, <2>1, <2>2 DEF Found, Untouched, Copied, Undoing, Restoring, Unasked
<1>7. CASE pc[u] \in {"undo config", "restore config"}
  <2>1. disk = job[u].before
    BY <1>2, <1>7 DEF Found, Untouched
  <2>2. disk' = job[u].before
    BY <1>2, <1>4, <1>7, <2>1 DEF Disks
  <2>3. pc'[u] = IF pc[u] = "undo config" THEN "undo pair" ELSE "restore pair"
    BY <1>7
  <2> QED BY <1>2, <1>7, <2>1, <2>2, <2>3
          DEF Found, Untouched, Copied, Undoing, Restoring, Unasked
<1> QED BY <1>1, <1>5, <1>6, <1>7

LEMMA EntryAccepts ==
  ASSUME IInv, NEW u \in Updaters, Entry(u)
  PROVE  Checked(disk.singBox, disk.config)'
<1> USE DEF After
<1>1. pc[u] \in DOMAIN After /\ pc[u] \notin Over
  BY DEF Entry, Over
<1>2. Found(u) /\ HasCopy(u) /\ disk \in Disks /\ job[u].before \in Disks
  BY <1>1, HeldFacts DEF Held
<1>3. job[u].saved.disk = job[u].before
  BY <1>1, <1>2 DEF HasCopy, Copied, Undoing, Restoring
<1>4. /\ disk'.config = job[u].before.config
      /\ disk'.singBox \in {disk.singBox, job[u].before.singBox}
  BY <1>1, <1>2, <1>3 DEF Entry, Found, Disks
<1> QED BY <1>2, <1>4 DEF Found

LEMMA RestoreEntryInside ==
  ASSUME IInv, NEW u \in Updaters, RestoreEntry(u) PROVE Inside' /\ Free'
<1>1. /\ pc[u] \in DOMAIN After /\ pc[u] \notin Over /\ Entry(u)
      /\ UNCHANGED <<running, points, lock, job, suspect>>
  BY DEF RestoreEntry, Entry, Over, After
<1>2. Held(u) /\ pc \in [Updaters -> Phases]
  BY <1>1, HeldFacts
<1>3. pc'[u] = After[pc[u]][2]
  BY <1>2 DEF RestoreEntry, Goto
<1>4. /\ Found(u)' /\ pc'[u] \in Copied
      /\ pc'[u] \in Undoing <=> pc[u] \in Undoing
      /\ pc'[u] \in Unasked => pc[u] \in Unasked
      /\ disk.singBox = job[u].before.singBox => disk'.singBox = job[u].before.singBox
  BY <1>1, <1>3, EntryFound
<1>5. HasCopy(u)'
  <2>1. pc[u] \in Copied
    BY <1>1 DEF After, Copied, Undoing, Restoring
  <2> QED BY <1>1, <1>2, <1>4, <2>1, CopyKept DEF Held
<1>6. StillRuns(u)'
  BY <1>1, <1>2, <1>4 DEF Held, StillRuns, Healthy, RunsOn
<1> QED BY <1>1, <1>2, <1>4, <1>5, <1>6, Remains DEF Held

LEMMA RestorePairInside ==
  ASSUME IInv, NEW u \in Updaters, RestorePair(u) PROVE Inside' /\ Free'
<1>1. /\ pc[u] \in {"undo pair", "restore pair"} /\ pc[u] \notin Over
      /\ UNCHANGED <<disk, running, points, suspect>>
  BY DEF RestorePair, Pair, Over
<1>2. Held(u) /\ pc \in [Updaters -> Phases] /\ disk = job[u].before
  BY <1>1, HeldFacts DEF Held, Found, Untouched
<1>3. CASE pc[u] = "undo pair"
  <2>1. lock' = None
    BY <1>3 DEF RestorePair, Finish
  <2>2. Checked(disk.singBox, disk.config)'
    BY <1>1, <1>2, FoundAccepts DEF Held
  <2>3. ~suspect' => Healthy(disk)' /\ RunsOn(disk, Binaries)'
    BY <1>1, <1>2, <1>3 DEF Held, StillRuns, Unasked, Undoing, Healthy, RunsOn
  <2> QED BY <2>1, <2>2, <2>3, EndsWell
<1>4. CASE pc[u] = "restore pair"
  <2>1. pc'[u] = "restart" /\ lock' = u /\ job' = job
    BY <1>2, <1>4 DEF RestorePair, Goto, Held
  <2>2. Found(u)'
    BY <1>1, <1>2, <2>1 DEF Held, Found, Untouched
  <2>3. HasCopy(u)'
    BY <1>1, <1>2, <1>4, <2>1, CopyKept DEF Held, Copied, Restoring
  <2>4. StillRuns(u)'
    BY <1>1, <1>2, <2>1 DEF Held, StillRuns, Unasked, Undoing, Healthy, RunsOn
  <2> QED BY <2>1, <2>2, <2>3, <2>4, Remains DEF Held
<1> QED BY <1>1, <1>3, <1>4

LEMMA RestoreFailsInside ==
  ASSUME IInv, NEW u \in Updaters, RestoreFails(u) PROVE Inside' /\ Free'
<1>1. /\ pc[u] \notin Over /\ lock' = None /\ suspect' = TRUE
      /\ disk' = disk \/ Entry(u)
  BY DEF RestoreFails, Finish, Over, After
<1>2. Checked(disk.singBox, disk.config)'
  BY <1>1, HeldFacts, FoundAccepts, EntryAccepts DEF Held
<1> QED BY <1>1, <1>2, EndsWell

LEMMA RestartBackInside ==
  ASSUME IInv, NEW u \in Updaters, RestartBack(u) \/ RestartBackFails(u)
  PROVE  Inside' /\ Free'
<1>1. /\ pc[u] = "restart" /\ pc[u] \notin Over /\ lock' = None /\ disk' = disk
  BY DEF RestartBack, RestartBackFails, Finish, Over
<1>2. Held(u) /\ disk = job[u].before
  BY <1>1, HeldFacts DEF Held, Found, Untouched
<1>3. Checked(disk.singBox, disk.config)'
  BY <1>1, <1>2, FoundAccepts DEF Held
<1>4. CASE RestartBackFails(u)
  BY <1>1, <1>3, <1>4, EndsWell DEF RestartBackFails
<1>5. CASE RestartBack(u)
  <2>1. ASSUME ~suspect PROVE Healthy(disk)' /\ RunsOn(disk, Binaries)'
    <3>1. RunsOn(disk, Binaries)'
      BY <1>1, <1>2, <1>5, <2>1, RestartedRunsOn DEF RestartBack
    <3>2. Healthy(disk)'
      BY <1>1, <1>2, <2>1 DEF Held, StillRuns, Healthy
    <3> QED BY <3>1, <3>2
  <2> QED BY <1>1, <1>3, <1>5, <2>1, EndsWell DEF RestartBack
<1> QED BY <1>4, <1>5

LEMMA CrashInside ==
  ASSUME IInv, NEW u \in Updaters, Crash(u) PROVE Inside' /\ Free'
<1>1. lock = u /\ lock' = None /\ suspect' = TRUE /\ disk' = disk
  BY DEF Crash, Finish
<1>2. Checked(disk.singBox, disk.config)'
  BY <1>1, FoundAccepts DEF IInv, Inside
<1> QED BY <1>1, <1>2, EndsWell

-----------------------------------------------------------------------------
(***************************************************************************)
(* What happens beside the commands                                        *)
(***************************************************************************)
LEMMA RetryInside ==
  ASSUME IInv, NEW b \in Binaries, ServiceRetries(b) PROVE Inside' /\ Free'
<1>1. /\ running[b] = Down
      /\ running' = [running EXCEPT ![b] = Started(disk, pinned, b)]
      /\ UNCHANGED <<disk, points, lock, pc, job, suspect>>
  BY DEF ServiceRetries, update
<1>2. ASSUME NEW d, NEW bs \in SUBSET Binaries, RunsOn(d, bs)
      PROVE  \A s \in bs : /\ running'[s] # Down
                           /\ running'[s].version = d[s] /\ running'[s].config = d.config
  <2>1. b \notin bs
    BY <1>1, <1>2 DEF RunsOn
  <2>2. \A s \in bs : running'[s] = running[s]
    BY <1>1, <2>1 DEF IInv, Types, TypeOK
  <2> QED BY <1>2, <2>2 DEF RunsOn
<1>3. Free'
  <2>1. ASSUME lock = None, ~suspect PROVE Healthy(disk)' /\ RunsOn(disk, Binaries)'
    <3>1. Healthy(disk) /\ RunsOn(disk, Binaries)
      BY <2>1 DEF IInv, Free
    <3>2. \A s \in Binaries : /\ running'[s] # Down /\ running'[s].version = disk[s]
                              /\ running'[s].config = disk.config
      BY <1>2, <3>1
    <3> QED BY <1>1, <3>1, <3>2 DEF Healthy, RunsOn
  <2> QED BY <1>1, <2>1 DEF IInv, Free
<1>4. ASSUME NEW u \in Updaters, lock = u PROVE Held(u)'
  <2>1. Found(u) /\ HasCopy(u) /\ StillRuns(u)
    BY <1>4 DEF IInv, Inside
  <2>2. Found(u)' /\ HasCopy(u)'
    BY <1>1, <2>1 DEF Found, HasCopy
  <2>3. ~suspect => /\ Healthy(job[u].before)
                    /\ RunsOn(job[u].before, Binaries \ DOMAIN job[u].new)
                    /\ pc[u] \in Unasked => RunsOn(job[u].before, Binaries)
                    /\ pc[u] \in Undoing => disk.singBox = job[u].before.singBox
    BY <2>1 DEF StillRuns
  <2>4. ~suspect => /\ RunsOn(job[u].before, Binaries \ DOMAIN job[u].new)'
                    /\ pc[u] \in Unasked => RunsOn(job[u].before, Binaries)'
    <3>1. RunsOn(job[u].before, Binaries \ DOMAIN job[u].new) =>
            \A s \in Binaries \ DOMAIN job[u].new :
               /\ running'[s] # Down /\ running'[s].version = job[u].before[s]
               /\ running'[s].config = job[u].before.config
      BY <1>2
    <3>2. RunsOn(job[u].before, Binaries) =>
            \A s \in Binaries :
               /\ running'[s] # Down /\ running'[s].version = job[u].before[s]
               /\ running'[s].config = job[u].before.config
      BY <1>2
    <3> QED BY <1>1, <2>3, <3>1, <3>2 DEF RunsOn
  <2>5. StillRuns(u)'
    BY <1>1, <2>3, <2>4 DEF StillRuns, Healthy
  <2> QED BY <1>1, <1>4, <2>2, <2>5 DEF Held
<1>5. Inside'
  BY <1>1, <1>4 DEF Inside, Held
<1> QED BY <1>3, <1>5

LEMMA ConfigureInside ==
  ASSUME IInv, NEW c \in Configs, Configure(c) PROVE Inside' /\ Free'
<1>1. /\ lock' = None /\ Checked(disk.singBox, c) /\ ComesUp(disk, Binaries)
      /\ disk' = [disk EXCEPT !.config = c]
      /\ running' = [s \in Binaries |-> Started(disk', pinned, s)]
  BY DEF Configure, update
<1>2. disk \in Disks /\ disk' \in Disks /\ pinned \in Pairs
  BY <1>1 DEF IInv, Types, TypeOK, Disks
<1>3. disk'.config = c /\ \A b \in Binaries : disk'[b] = disk[b]
  BY <1>1, <1>2 DEF Disks, Binaries
<1>4. disk'.singBox = disk.singBox
  BY <1>1, <1>2 DEF Disks
<1>5. Checked(disk.singBox, disk.config)' /\ Healthy(disk)'
  BY <1>1, <1>3, <1>4 DEF Healthy, ComesUp
<1>6. ASSUME NEW s \in Binaries
      PROVE  /\ running'[s] # Down
             /\ running'[s].version = disk'[s] /\ running'[s].config = disk'.config
  <2>1. running'[s] = Started(disk', pinned, s)
    BY <1>1
  <2> QED BY <1>2, <2>1, StartedType
<1> QED BY <1>1, <1>5, <1>6, EndsWell DEF RunsOn

(* The hook restarts sing-box alone, and on what is installed: while the   *)
(* services should run as the command found them, that is what it found.   *)
LEMMA PublishInside ==
  ASSUME IInv, Publish PROVE Inside' /\ Free'
<1>1. /\ UNCHANGED <<disk, points, lock, pc, job, suspect>>
      /\ pinned' \in Pairs /\ disk \in Disks
      /\ running \in [Binaries -> Daemons \cup {Down}]
      /\ running' = [running EXCEPT !["singBox"] =
           IF @ = Down \/ disk["singBox"] \in Unhealthy THEN Down
           ELSE Started(disk, pinned', "singBox")]
  BY DEF Publish, update, Pairs, IInv, Types, TypeOK
<1>2. ASSUME NEW d \in Disks, NEW bs \in SUBSET Binaries, RunsOn(d, bs),
             "singBox" \in bs =>
               /\ disk["singBox"] \notin Unhealthy
               /\ disk["singBox"] = d["singBox"] /\ disk.config = d.config
      PROVE  \A s \in bs : /\ running'[s] # Down
                           /\ running'[s].version = d[s] /\ running'[s].config = d.config
  <2>1. SUFFICES ASSUME NEW s \in bs
                 PROVE  /\ running'[s] # Down
                        /\ running'[s].version = d[s] /\ running'[s].config = d.config
    OBVIOUS
  <2>2. CASE s = "singBox"
    <3>1. running["singBox"] # Down
      BY <1>2, <2>2 DEF RunsOn
    <3>2. running'["singBox"] = Started(disk, pinned', "singBox")
      BY <1>1, <1>2, <2>2, <3>1 DEF Binaries
    <3> QED BY <1>1, <1>2, <2>2, <3>2, StartedType DEF Binaries
  <2>3. CASE s # "singBox"
    BY <1>1, <1>2, <2>3 DEF RunsOn
  <2> QED BY <2>2, <2>3
<1>3. Free'
  <2>1. ASSUME lock = None, ~suspect PROVE Healthy(disk)' /\ RunsOn(disk, Binaries)'
    <3>1. Healthy(disk) /\ RunsOn(disk, Binaries)
      BY <2>1 DEF IInv, Free
    <3>2. disk["singBox"] \notin Unhealthy
      BY <3>1 DEF Healthy, Binaries
    <3>3. \A s \in Binaries : /\ running'[s] # Down /\ running'[s].version = disk[s]
                              /\ running'[s].config = disk.config
      BY <1>1, <1>2, <3>1, <3>2
    <3> QED BY <1>1, <3>1, <3>3 DEF Healthy, RunsOn
  <2> QED BY <1>1, <2>1 DEF IInv, Free
<1>4. ASSUME NEW u \in Updaters, lock = u PROVE Held(u)'
  <2>1. Found(u) /\ HasCopy(u) /\ StillRuns(u) /\ job[u] \in Jobs
    BY <1>4 DEF IInv, Inside, Found
  <2>2. Found(u)' /\ HasCopy(u)'
    BY <1>1, <2>1 DEF Found, HasCopy
  <2>3. job[u].before \in Disks /\ "singBox" \in DOMAIN job[u].new
    BY <2>1, JobFacts
  <2>4. ASSUME ~suspect
        PROVE  \A s \in Binaries \ DOMAIN job[u].new :
                  /\ running'[s] # Down /\ running'[s].version = job[u].before[s]
                  /\ running'[s].config = job[u].before.config
    BY <1>2, <2>1, <2>3, <2>4 DEF StillRuns
  <2>5. ASSUME ~suspect, pc[u] \in Unasked
        PROVE  \A s \in Binaries :
                  /\ running'[s] # Down /\ running'[s].version = job[u].before[s]
                  /\ running'[s].config = job[u].before.config
    <3>1. disk.singBox = job[u].before.singBox /\ disk.config = job[u].before.config
      BY <2>1, <2>5 DEF Found, StillRuns, Untouched, Unasked
    <3>2. Healthy(job[u].before) /\ RunsOn(job[u].before, Binaries)
      BY <2>1, <2>5 DEF StillRuns
    <3>3. disk["singBox"] \notin Unhealthy
      BY <3>1, <3>2 DEF Healthy, Binaries
    <3> QED BY <1>2, <2>3, <3>1, <3>2, <3>3
  <2>6. StillRuns(u)'
    BY <1>1, <2>1, <2>4, <2>5 DEF StillRuns, Healthy, RunsOn
  <2> QED BY <1>1, <1>4, <2>2, <2>6 DEF Held
<1>5. Inside'
  BY <1>1, <1>4 DEF Inside, Held
<1> QED BY <1>3, <1>5

LEMMA InitInv == Init => IInv
<1> SUFFICES ASSUME Init PROVE IInv
  OBVIOUS
<1>1. Types /\ disk \in Disks /\ pinned \in Pairs
  BY InitTypes DEF Types, TypeOK
<1>2. \A s \in Binaries : /\ running[s] # Down
                          /\ running[s].version = disk[s] /\ running[s].config = disk.config
                          /\ running[s].pair = pinned
  BY <1>1, StartedType DEF Init
<1>3. PairsStayWhole
  BY <1>2 DEF Init, PairsStayWhole
<1>4. Free
  BY <1>2 DEF Init, Free, Healthy, RunsOn, ComesUp
<1>5. Inside
  BY Constants DEF Init, Inside
<1> QED BY <1>1, <1>3, <1>4, <1>5 DEF IInv

LEMMA NextInv == IInv /\ [Next]_vars => IInv'
<1> SUFFICES ASSUME IInv, [Next]_vars PROVE IInv'
  OBVIOUS
<1>1. Types' /\ PairsStayWhole'
  BY TypeStep, PairsStep
<1>2. Inside' /\ Free'
  <2>1. ASSUME NEW u \in Updaters, Step(u) PROVE Inside' /\ Free'
    BY <2>1, AcquireInside, BackupInside, BackupFailsInside, WriteInside, WriteFailsInside,
       ChmodFailsInside, RestartOkInside, RestartFailsInside, RestoreEntryInside,
       RestorePairInside, RestoreFailsInside, RestartBackInside, CrashInside DEF Step
  <2>2. CASE Renew \/ UNCHANGED vars
    <3>1. UNCHANGED <<disk, running, points, lock, pc, job, suspect>>
      BY <2>2 DEF Renew, update, vars
    <3>2. Free'
      BY <3>1 DEF IInv, Free, Healthy, RunsOn
    <3>3. ASSUME NEW u \in Updaters, lock = u
          PROVE  Found(u)' /\ HasCopy(u)' /\ StillRuns(u)'
      <4>1. Found(u) /\ HasCopy(u) /\ StillRuns(u)
        BY <3>3 DEF IInv, Inside
      <4>2. Found(u)' /\ HasCopy(u)'
        BY <3>1, <4>1 DEF Found, HasCopy
      <4>3. StillRuns(u)'
        BY <3>1, <4>1 DEF StillRuns, Healthy, RunsOn
      <4> QED BY <4>2, <4>3
    <3>4. Inside'
      BY <3>1, <3>3 DEF Inside
    <3> QED BY <3>2, <3>4
  <2> QED BY <2>1, <2>2, RetryInside, ConfigureInside, PublishInside DEF Next
<1> QED BY <1>1, <1>2 DEF IInv

LEMMA Inductive == Spec => []IInv
<1>1. Init => IInv
  BY InitInv
<1>2. IInv /\ [Next]_vars => IInv'
  BY NextInv
<1> QED BY <1>1, <1>2, PTL DEF Spec

-----------------------------------------------------------------------------
(* Disk, published pair, services, rollback points, lock and phases keep   *)
(* their types, for any commands, versions, configurations and bounds, and *)
(* a command is inside exactly while it holds the lock.                    *)
THEOREM TypeCorrect == Spec => []TypeOK
<1>1. IInv => TypeOK
  BY DEF IInv, Types
<1> QED BY <1>1, Inductive, PTL

(* Once no command is under way, and none died or failed to finish its     *)
(* rollback, the services run what is installed (update, restore).         *)
THEOREM QuietHostIsConsistent == Spec => []QuietHostRunsWhatIsInstalled
<1>1. IInv => QuietHostRunsWhatIsInstalled
  BY DEF IInv, Free, RunsOn, QuietHostRunsWhatIsInstalled
<1> QED BY <1>1, Inductive, PTL

(* At every moment the installed sing-box accepts what is active: what a   *)
(* command checked under the lock cannot change before it is done.         *)
THEOREM ActiveIsAccepted == Spec => []InstalledAcceptsActive
<1>1. IInv => InstalledAcceptsActive
  <2> SUFFICES ASSUME IInv PROVE InstalledAcceptsActive
    OBVIOUS
  <2>1. CASE lock = None
    BY <2>1 DEF IInv, Free, InstalledAcceptsActive
  <2>2. CASE lock # None
    <3>1. lock \in Updaters
      BY <2>2 DEF IInv, Types, TypeOK
    <3>2. Found(lock)
      BY <3>1 DEF IInv, Inside
    <3> QED BY <3>1, <3>2, FoundAccepts DEF InstalledAcceptsActive
  <2> QED BY <2>1, <2>2
<1> QED BY <1>1, Inductive, PTL

(* Chain and key of one certificate stay together in the published         *)
(* directory, the services and the rollback points, whatever Certbot's     *)
(* hook publishes while a command copies or restores them.                 *)
THEOREM PairsAreWhole == Spec => []PairsStayWhole
<1>1. IInv => PairsStayWhole
  BY DEF IInv
<1> QED BY <1>1, Inductive, PTL

LEMMA FailedRestoresStep ==
  ASSUME IInv, Next, NEW u \in Updaters, lock = u, pc'[u] = "failed"
  PROVE  disk' = job[u].before
<1>1. pc[u] \notin Over /\ pc \in [Updaters -> Phases] /\ Found(u)
  BY DEF IInv, Types, TypeOK, Inside
<1>2. pc[u] # "failed" /\ lock # None
  BY <1>1, Constants DEF Over
<1>3. PICK v \in Updaters : Step(v)
  BY <1>2 DEF Next, ServiceRetries, Configure, Renew, Publish, update
<1>4. v = u
  <2>1. CASE pc[v] \notin Over
    BY <2>1, Holder DEF IInv
  <2>2. CASE pc[v] \in Over
    BY <1>2, <1>3, <2>2 DEF Step, Acquire, MakePoint, OpenPair, Backup, BackupFails, WriteBinary,
       WriteFails, ChmodFails, RestartOk, RestartFails, RestoreEntry, Entry, RestorePair, Pair,
       RestoreFails, RestartBack, RestartBackFails, Crash, Over, After
  <2> QED BY <2>1, <2>2
<1>5. CASE BackupFails(u)
  BY <1>1, <1>5 DEF BackupFails, Found, Untouched
<1>6. CASE WriteFails(u)
  BY <1>1, <1>6 DEF WriteFails, Goto, Found, Untouched
<1>7. CASE RestorePair(u)
  BY <1>1, <1>7 DEF RestorePair, Pair, Found, Untouched
<1>8. CASE RestartBack(u) \/ RestartBackFails(u)
  BY <1>1, <1>8 DEF RestartBack, RestartBackFails, Found, Untouched
<1>9. CASE RestoreEntry(u)
  BY <1>1, <1>9 DEF RestoreEntry, Entry, Goto, After
<1>10. CASE ChmodFails(u)
  BY <1>1, <1>10 DEF ChmodFails, Finish, Goto
<1>11. CASE WriteBinary(u)
  BY <1>1, <1>11 DEF WriteBinary, Goto
<1>12. CASE \/ MakePoint(u) \/ OpenPair(u) \/ Backup(u) \/ RestartOk(u) \/ RestartFails(u)
            \/ RestoreFails(u) \/ Crash(u)
  BY <1>1, <1>12 DEF MakePoint, OpenPair, Backup, RestartOk, RestartFails, RestoreFails, Crash,
     Finish, Goto
<1> QED BY <1>2, <1>3, <1>4, <1>5, <1>6, <1>7, <1>8, <1>9, <1>10, <1>11, <1>12 DEF Step, Acquire

(* A command that reports a failure, and nothing worse, has left both      *)
(* binaries, the configuration and everything else as it found them.       *)
THEOREM FailureRestores == Spec => FailedUpdateRestores
<1>1. IInv /\ [Next]_vars =>
        [\A u \in Updaters : lock = u /\ pc'[u] = "failed" => disk' = job[u].before]_vars
  BY FailedRestoresStep
<1> QED BY <1>1, Inductive, PTL DEF Spec, FailedUpdateRestores

(* The deployment a finished command found is the newest of the rollback   *)
(* points, and there are no more of them than are kept.                    *)
THEOREM PointIsKept == Spec => UpdateKeepsItsPoint
<1>1. ASSUME IInv, NEW u \in Updaters, lock = u, job[u].saved # None
      PROVE  Len(points) \in 1..Kept /\ Last(points) # None /\ Last(points).disk = job[u].before
  BY <1>1, Constants DEF IInv, Inside, HasCopy, Copied, Undoing, Restoring, Last
<1>2. IInv /\ [Next]_vars =>
        [\A u \in Updaters :
           lock = u /\ pc'[u] \in Over \ {"idle"} /\ job[u].saved # None
             => /\ Len(points) \in 1..Kept
                /\ Last(points) # None /\ Last(points).disk = job[u].before]_vars
  BY <1>1
<1> QED BY <1>2, Inductive, PTL DEF Spec, UpdateKeepsItsPoint
=============================================================================
