---------------------- MODULE ConfigurationEdits_proofs ----------------------
(***************************************************************************)
(* An edit changes what was answered and nothing else, and whatever        *)
(* succeeded, was undone or restarted on its own, packets reach their      *)
(* node.                                                                   *)
(*                                                                         *)
(* The first is a fact about the dialogues, and most of all about lists    *)
(* that are merged.  The second needs to know where a command stands: what *)
(* is on disk at each of its steps, and that no step leaves a redirect     *)
(* table behind that no unit, written or loaded, would remove.             *)
(***************************************************************************)
EXTENDS ConfigurationEdits, SequenceTheorems, FiniteSetTheorems, WellFoundedInduction, TLAPS

(* A configuration that may be on disk. *)
Good(c) == Readable(c) /\ Valid(c)

Stages ==
  {"idle", "confirmed", "config", "reconcile", "reload", "restart",
   "undo", "undo config", "restore"}

JobFields == {"dialogue", "answered", "new", "config", "active", "unit", "undo"}

Held ==
  /\ Good(config)
  /\ pc = "idle" => job = None
  /\ pc # "idle" =>
       /\ DOMAIN job = JobFields /\ job.undo \in BOOLEAN /\ job.unit \in BOOLEAN
       /\ Good(job.config) /\ Good(job.new)
       /\ ChangesOnly(job.config, job.new, job.answered, job.dialogue)

(* The files at each step of a command. *)
OnDisk ==
  pc # "idle" =>
    /\ pc \in {"confirmed", "config"} => ~job.undo /\ config = job.config
    /\ pc = "confirmed" => active = job.active
    /\ pc = "config" => active = Server(job.new)
    /\ pc = "undo config" => active = job.active
    /\ pc \in {"undo", "undo config", "restore"} => job.undo
    /\ pc \in {"reconcile", "reload", "restart"} =>
         IF job.undo THEN config = job.config /\ active = job.active
         ELSE config = job.new /\ active = Server(job.new)
    /\ settled => job.active = Server(job.config)

(* The hooks are those of the configuration once they are written. *)
Hooked ==
  /\ pc \in {"reload", "restart"} => unit = Hops
  /\ pc = "reload" /\ ~Hops => table = None

(* Some unit, the one on disk or the one loaded, removes the table; and it *)
(* still will after a snapshot was restored.                               *)
NoOrphan ==
  /\ table # None => unit \/ loaded
  /\ /\ pc # "idle" /\ job.dialogue = "switch-mode" /\ (pc = "restore" \/ ~job.undo)
     /\ table # None
     => job.unit \/ loaded
  /\ pc = "restore" => job.dialogue = "switch-mode"

(* With nothing left half done. *)
Quiet ==
  pc \in {"idle", "confirmed"} /\ settled =>
    /\ active = Server(config) /\ unit = Hops
    /\ running # None =>
         /\ running = Services(config, active)
         /\ loaded => table = TableOf(config)

Inv ==
  /\ session \in DOMAIN Sessions /\ pc \in Stages
  /\ unit \in BOOLEAN /\ loaded \in BOOLEAN /\ settled \in BOOLEAN
  /\ Held /\ OnDisk /\ Hooked /\ NoOrphan /\ Quiet
  /\ running # None => ComesUp(running)

-----------------------------------------------------------------------------
(* Induction, over a set instead of a predicate.                           *)
LEMMA LeastExists ==
  ASSUME NEW A \in SUBSET Nat, A # {}
  PROVE  \E m \in A : \A x \in A : m <= x
<1> DEFINE R == StrictSubsetOrdering(Nat)
           F == FiniteSubsetsOf(Nat)
           T == {1..x : x \in A}
<1>1. T \subseteq F /\ T # {}
  <2>1. \A x \in A : IsFiniteSet(1..x) /\ 1..x \in SUBSET Nat
    BY FS_Interval
  <2> QED BY <2>1 DEF FiniteSubsetsOf
<1>2. IsWellFoundedOn(R, F)
  BY FS_StrictSubsetOrderingWellFounded
<1>3. \E b \in T : \A a \in T : ~(<<a, b>> \in R)
  <2> HIDE DEF R, F, T
  <2> QED BY <1>1, <1>2, WFMin
<1>4. PICK m \in A : \A x \in A : ~(<<1..x, 1..m>> \in R)
  BY <1>3
<1>5. ASSUME NEW x \in A, x < m PROVE FALSE
  <2>1. 1..x \subseteq 1..m /\ m \in 1..m /\ m \notin 1..x
    BY <1>5
  <2>2. <<1..x, 1..m>> \in R
    BY <2>1 DEF StrictSubsetOrdering
  <2> QED BY <1>4, <2>2
<1> QED BY <1>5

LEMMA NumberInduction ==
  ASSUME NEW P \in SUBSET Nat, 0 \in P, \A n \in P : n + 1 \in P
  PROVE  P = Nat
<1> SUFFICES ASSUME Nat \ P # {} PROVE FALSE
  OBVIOUS
<1>1. PICK m \in Nat \ P : \A x \in Nat \ P : m <= x
  BY LeastExists
<1>2. m - 1 \in P
  BY <1>1
<1> QED BY <1>1, <1>2

LEMMA ListInduction ==
  ASSUME NEW X, NEW P \in SUBSET Seq(X), <<>> \in P, \A s \in P, e \in X : Append(s, e) \in P
  PROVE  P = Seq(X)
<1> DEFINE N == {n \in Nat : \A s \in Seq(X) : Len(s) = n => s \in P}
<1>1. 0 \in N
  BY EmptySeq
<1>2. ASSUME NEW n \in N PROVE n + 1 \in N
  <2> SUFFICES ASSUME NEW s \in Seq(X), Len(s) = n + 1 PROVE s \in P
    OBVIOUS
  <2>0. s # <<>>
    BY EmptySeq
  <2>1. PICK t \in Seq(X), e \in X : s = Append(t, e)
    BY <2>0, SequenceEmptyOrAppend
  <2>2. Len(t) = n
    BY <2>1, AppendProperties, LenProperties
  <2> QED BY <2>1, <2>2
<1>3. \A n \in N : n + 1 \in N
  BY <1>2
<1>4. N = Nat
  <2> HIDE DEF N
  <2>1. N \in SUBSET Nat
    BY DEF N
  <2> QED BY <1>1, <1>3, <2>1, NumberInduction
<1> QED BY <1>4, LenProperties

-----------------------------------------------------------------------------
(* Picked is what its definition says, list by list.                       *)
PicksUpTo(f, s, S) ==
  f = [i \in 0..Len(s) |->
         IF i = 0 THEN <<>>
         ELSE IF s[i] \in S THEN Append(f[i - 1], s[i]) ELSE f[i - 1]]

LEMMA PickedExists ==
  ASSUME NEW X, NEW s \in Seq(X), NEW S
  PROVE  \E f : PicksUpTo(f, s, S) /\ Picked(s, S) = f[Len(s)]
<1> DEFINE Link(f, i) ==
             IF i = 0 THEN <<>>
             ELSE IF s[i] \in S THEN Append(f[i - 1], s[i]) ELSE f[i - 1]
           Begun(n) == \E f : f = [i \in 0..n |-> Link(f, i)]
           N == {n \in Nat : Begun(n)}
<1>1. 0 \in N
  <2> DEFINE f == [i \in 0..0 |-> <<>>]
  <2>1. f = [i \in 0..0 |-> Link(f, i)]
    OBVIOUS
  <2> QED BY <2>1
<1>2. ASSUME NEW n \in N PROVE n + 1 \in N
  <2>1. PICK f : f = [i \in 0..n |-> Link(f, i)]
    OBVIOUS
  <2> DEFINE last == IF s[n + 1] \in S THEN Append(f[n], s[n + 1]) ELSE f[n]
             g == [i \in 0..(n + 1) |-> IF i = n + 1 THEN last ELSE f[i]]
  <2>2. \A i \in 0..n : g[i] = f[i]
    OBVIOUS
  <2>3. g[n + 1] = last
    OBVIOUS
  <2> HIDE DEF last
  <2>4. \A i \in 0..(n + 1) : g[i] = Link(g, i)
    <3>1. ASSUME NEW i \in 0..n PROVE g[i] = Link(g, i)
      <4>1. f[i] = Link(f, i)
        BY <2>1
      <4>2. i # 0 => i - 1 \in 0..n
        OBVIOUS
      <4>3. Link(f, i) = Link(g, i)
        BY <2>2, <4>2
      <4> QED BY <2>2, <4>1, <4>3
    <3>2. g[n + 1] = Link(g, n + 1)
      <4>1. n + 1 # 0 /\ (n + 1) - 1 = n /\ g[n] = f[n]
        BY <2>2
      <4> QED BY <2>3, <4>1 DEF last
    <3>3. \A i \in 0..(n + 1) : i \in 0..n \/ i = n + 1
      OBVIOUS
    <3> HIDE DEF g, Link
    <3> QED BY <3>1, <3>2, <3>3
  <2>5. g = [i \in 0..(n + 1) |-> g[i]]
    OBVIOUS
  <2> HIDE DEF g
  <2>6. g = [i \in 0..(n + 1) |-> Link(g, i)]
    <3> HIDE DEF Link
    <3> QED BY <2>4, <2>5
  <2>7. Begun(n + 1)
    <3> HIDE DEF Link
    <3> QED BY <2>6
  <2> HIDE DEF Begun
  <2> QED BY <2>7
<1>3. Len(s) \in N
  BY <1>1, <1>2, NumberInduction, LenProperties
<1>4. \E f : PicksUpTo(f, s, S)
  BY <1>3 DEF PicksUpTo
<1> QED BY <1>4 DEF Picked, PicksUpTo

LEMMA PickedEmpty == ASSUME NEW S PROVE Picked(<<>>, S) = <<>>
<1>1. <<>> \in Seq({}) /\ Len(<<>>) = 0
  BY EmptySeq
<1>2. PICK f : PicksUpTo(f, <<>>, S) /\ Picked(<<>>, S) = f[Len(<<>>)]
  BY <1>1, PickedExists
<1> QED BY <1>1, <1>2 DEF PicksUpTo

LEMMA PickedAppend ==
  ASSUME NEW X, NEW s \in Seq(X), NEW e \in X, NEW S
  PROVE  Picked(Append(s, e), S) = IF e \in S THEN Append(Picked(s, S), e) ELSE Picked(s, S)
<1> DEFINE t == Append(s, e)
<1>1. /\ t \in Seq(X) /\ Len(s) \in Nat /\ Len(t) = Len(s) + 1
      /\ \A i \in 1..Len(s) : t[i] = s[i] /\ t[Len(s) + 1] = e
  BY AppendProperties, LenProperties
<1>0. t[Len(s) + 1] = e
  BY AppendProperties
<1> HIDE DEF t
<1>2. PICK f : PicksUpTo(f, s, S) /\ Picked(s, S) = f[Len(s)]
  BY PickedExists
<1>3. PICK g : PicksUpTo(g, t, S) /\ Picked(t, S) = g[Len(t)]
  BY <1>1, PickedExists
<1> DEFINE N == {i \in Nat : i <= Len(s) => g[i] = f[i]}
<1>4. 0 \in N
  BY <1>1, <1>2, <1>3 DEF PicksUpTo
<1>5. ASSUME NEW i \in N PROVE i + 1 \in N
  <2> SUFFICES ASSUME i + 1 <= Len(s) PROVE g[i + 1] = f[i + 1]
    OBVIOUS
  <2>1. i + 1 \in 0..Len(s) /\ i + 1 \in 0..Len(t) /\ (i + 1) - 1 = i /\ i + 1 # 0
    BY <1>1
  <2>2. f[i + 1] = IF s[i + 1] \in S THEN Append(f[i], s[i + 1]) ELSE f[i]
    BY <1>2, <2>1 DEF PicksUpTo
  <2>3. g[i + 1] = IF t[i + 1] \in S THEN Append(g[i], t[i + 1]) ELSE g[i]
    BY <1>3, <2>1 DEF PicksUpTo
  <2>4. g[i] = f[i] /\ t[i + 1] = s[i + 1]
    BY <1>1
  <2> QED BY <2>2, <2>3, <2>4
<1>6. g[Len(s)] = f[Len(s)]
  <2>1. N = Nat
    BY <1>4, <1>5, NumberInduction
  <2> QED BY <1>1, <2>1
<1>7. g[Len(t)] = IF e \in S THEN Append(g[Len(s)], e) ELSE g[Len(s)]
  <2>1. Len(t) \in 0..Len(t) /\ Len(t) # 0 /\ Len(t) - 1 = Len(s)
    BY <1>1
  <2> QED BY <1>0, <1>1, <1>3, <2>1 DEF PicksUpTo
<1> QED BY <1>2, <1>3, <1>6, <1>7 DEF t

LEMMA AppendMembers ==
  ASSUME NEW X, NEW s \in Seq(X), NEW e \in X
  PROVE  /\ Append(s, e) \in Seq(X) /\ ToSet(Append(s, e)) = ToSet(s) \cup {e}
         /\ ToSet(s) \subseteq X
<1>1. /\ Append(s, e) \in Seq(X) /\ Len(s) \in Nat /\ Len(Append(s, e)) = Len(s) + 1
      /\ DOMAIN s = 1..Len(s) /\ DOMAIN Append(s, e) = 1..(Len(s) + 1)
      /\ Append(s, e)[Len(s) + 1] = e
      /\ \A i \in 1..Len(s) : Append(s, e)[i] = s[i] /\ s[i] \in X
  BY AppendProperties, LenProperties, ElementOfSeq
<1> QED BY <1>1 DEF ToSet

LEMMA NoMembers == ToSet(<<>>) = {} /\ \A X : <<>> \in Seq(X)
  BY EmptySeq, LenProperties DEF ToSet

(* The members of s that are in S, and no others. *)
LEMMA PickedMembers ==
  ASSUME NEW X, NEW s \in Seq(X), NEW S
  PROVE  Picked(s, S) \in Seq(X) /\ ToSet(Picked(s, S)) = ToSet(s) \cap S
<1> DEFINE P == {t \in Seq(X) : Picked(t, S) \in Seq(X) /\ ToSet(Picked(t, S)) = ToSet(t) \cap S}
<1>1. <<>> \in P
  BY PickedEmpty, NoMembers
<1>2. ASSUME NEW t \in P, NEW e \in X PROVE Append(t, e) \in P
  <2>1. Append(t, e) \in Seq(X) /\ ToSet(Append(t, e)) = ToSet(t) \cup {e}
    BY AppendMembers
  <2>2. Picked(Append(t, e), S) = IF e \in S THEN Append(Picked(t, S), e) ELSE Picked(t, S)
    BY PickedAppend
  <2>3. /\ Append(Picked(t, S), e) \in Seq(X)
        /\ ToSet(Append(Picked(t, S), e)) = ToSet(Picked(t, S)) \cup {e}
    BY AppendMembers
  <2> QED BY <2>1, <2>2, <2>3
<1>3. P = Seq(X)
  <2> HIDE DEF P
  <2>1. P \subseteq Seq(X)
    BY DEF P
  <2> QED BY <1>1, <1>2, <2>1, ListInduction
<1> QED BY <1>3

LEMMA PickedTwice ==
  ASSUME NEW X, NEW s \in Seq(X), NEW S, NEW T
  PROVE  Picked(Picked(s, S), T) = Picked(s, S \cap T)
<1> DEFINE P == {t \in Seq(X) : Picked(Picked(t, S), T) = Picked(t, S \cap T)}
<1>1. <<>> \in P
  BY PickedEmpty, NoMembers
<1>2. ASSUME NEW t \in P, NEW e \in X PROVE Append(t, e) \in P
  <2>1. Append(t, e) \in Seq(X) /\ Picked(t, S) \in Seq(X)
    BY AppendMembers, PickedMembers
  <2>2. /\ Picked(Append(t, e), S) = IF e \in S THEN Append(Picked(t, S), e) ELSE Picked(t, S)
        /\ Picked(Append(t, e), S \cap T) =
             IF e \in S \cap T THEN Append(Picked(t, S \cap T), e) ELSE Picked(t, S \cap T)
    BY PickedAppend
  <2>3. Picked(Append(Picked(t, S), e), T) =
          IF e \in T THEN Append(Picked(Picked(t, S), T), e) ELSE Picked(Picked(t, S), T)
    BY ZenonT(40), <2>1, PickedAppend
  <2>4. CASE e \in S /\ e \in T
    BY <2>1, <2>2, <2>3, <2>4
  <2>5. CASE e \in S /\ e \notin T
    BY <2>1, <2>2, <2>3, <2>5
  <2>6. CASE e \notin S
    BY <2>1, <2>2, <2>6
  <2> QED BY <2>4, <2>5, <2>6
<1>3. P = Seq(X)
  <2> HIDE DEF P
  <2>1. P \subseteq Seq(X)
    BY DEF P
  <2> QED BY <1>1, <1>2, <2>1, ListInduction
<1> QED BY <1>3

LEMMA PickedConcat ==
  ASSUME NEW X, NEW s \in Seq(X), NEW u \in Seq(X), NEW S
  PROVE  Picked(s \o u, S) = Picked(s, S) \o Picked(u, S)
<1> DEFINE P == {t \in Seq(X) : Picked(s \o t, S) = Picked(s, S) \o Picked(t, S)}
<1>0. Picked(s, S) \in Seq(X)
  BY PickedMembers
<1>1. <<>> \in P
  <2>1. s \o <<>> = s /\ Picked(s, S) \o <<>> = Picked(s, S)
    BY <1>0, ConcatEmptySeq
  <2> QED BY <2>1, PickedEmpty, NoMembers
<1>2. ASSUME NEW t \in P, NEW e \in X PROVE Append(t, e) \in P
  <2>1. ASSUME NEW a \in Seq(X), NEW b \in Seq(X)
        PROVE  a \o Append(b, e) = Append(a \o b, e) /\ a \o b \in Seq(X)
    <3>1. a \o b \in Seq(X) /\ <<e>> \in Seq(X)
      BY ConcatProperties
    <3>2. Append(b, e) = b \o <<e>> /\ Append(a \o b, e) = (a \o b) \o <<e>>
      BY <3>1, AppendIsConcat
    <3> QED BY SMTT(20), <3>1, <3>2, ConcatAssociative
  <2>2. Append(t, e) \in Seq(X) /\ Picked(t, S) \in Seq(X)
    BY AppendMembers, PickedMembers
  <2>3. /\ s \o Append(t, e) = Append(s \o t, e) /\ s \o t \in Seq(X)
        /\ Picked(s, S) \o Append(Picked(t, S), e) = Append(Picked(s, S) \o Picked(t, S), e)
    BY <1>0, <2>1, <2>2
  <2>4. ASSUME NEW w \in Seq(X)
        PROVE  Picked(Append(w, e), S) = IF e \in S THEN Append(Picked(w, S), e) ELSE Picked(w, S)
    BY PickedAppend
  <2>5. CASE e \in S
    BY <2>2, <2>3, <2>4, <2>5
  <2>6. CASE e \notin S
    BY <2>2, <2>3, <2>4, <2>6
  <2> QED BY <2>5, <2>6
<1>3. P = Seq(X)
  <2> HIDE DEF P
  <2>1. P \subseteq Seq(X)
    BY DEF P
  <2> QED BY <1>1, <1>2, <2>1, ListInduction
<1> QED BY <1>3

LEMMA PickedNothing ==
  ASSUME NEW X, NEW s \in Seq(X), NEW S, ToSet(s) \cap S = {}
  PROVE  Picked(s, S) = <<>>
<1> DEFINE P == {t \in Seq(X) : ToSet(t) \cap S = {} => Picked(t, S) = <<>>}
<1>1. <<>> \in P
  BY PickedEmpty, NoMembers
<1>2. ASSUME NEW t \in P, NEW e \in X PROVE Append(t, e) \in P
  <2>1. Append(t, e) \in Seq(X) /\ ToSet(Append(t, e)) = ToSet(t) \cup {e}
    BY AppendMembers
  <2>2. Picked(Append(t, e), S) = IF e \in S THEN Append(Picked(t, S), e) ELSE Picked(t, S)
    BY PickedAppend
  <2> QED BY <2>1, <2>2
<1>3. P = Seq(X)
  <2> HIDE DEF P
  <2>1. P \subseteq Seq(X)
    BY DEF P
  <2> QED BY <1>1, <1>2, <2>1, ListInduction
<1> QED BY <1>3

(* Merging keeps what is selected, and the order of what stays. *)
LEMMA MergedFacts ==
  ASSUME NEW old \in Seq(Protocols), NEW selected \in SUBSET Protocols
  PROVE  LET new == MergedOrder(old, selected)
             staying == ToSet(old) \cap ToSet(new)
         IN  /\ new \in Seq(Protocols) /\ ToSet(new) = selected
             /\ Picked(old, staying) = Picked(new, staying)
<1> DEFINE added == selected \ ToSet(old)
           head == Picked(old, selected)
           tail == Picked(Canonical, added)
           new == head \o tail
           staying == ToSet(old) \cap ToSet(new)
<1>1. Canonical \in Seq(Protocols) /\ ToSet(Canonical) = Protocols
  BY DEF Canonical, Protocols, ToSet
<1>2. /\ head \in Seq(Protocols) /\ ToSet(head) = ToSet(old) \cap selected
      /\ tail \in Seq(Protocols) /\ ToSet(tail) = added
  <2>1. head \in Seq(Protocols) /\ ToSet(head) = ToSet(old) \cap selected
    BY PickedMembers
  <2>2. added \subseteq Protocols
    OBVIOUS
  <2> HIDE DEF added
  <2>3. tail \in Seq(Protocols) /\ ToSet(tail) = ToSet(Canonical) \cap added
    BY <1>1, PickedMembers
  <2> HIDE DEF head, tail
  <2> QED BY <1>1, <2>1, <2>2, <2>3
<1>3. new \in Seq(Protocols) /\ ToSet(new) = ToSet(head) \cup ToSet(tail)
  <2> HIDE DEF head, tail
  <2>1. /\ new \in Seq(Protocols) /\ Len(new) = Len(head) + Len(tail)
        /\ Len(head) \in Nat /\ Len(tail) \in Nat /\ DOMAIN new = 1..Len(new)
        /\ DOMAIN head = 1..Len(head) /\ DOMAIN tail = 1..Len(tail)
        /\ \A i \in 1..(Len(head) + Len(tail)) :
             new[i] = IF i <= Len(head) THEN head[i] ELSE tail[i - Len(head)]
    BY <1>2, ConcatProperties, LenProperties
  <2> HIDE DEF new
  <2>2. \A i \in 1..Len(head) : i \in DOMAIN new /\ new[i] = head[i]
    BY <2>1
  <2>3. \A i \in 1..Len(tail) :
          /\ Len(head) + i \in DOMAIN new /\ new[Len(head) + i] = tail[i]
    BY <2>1
  <2>4. \A i \in DOMAIN new : i \in DOMAIN head \/ i - Len(head) \in DOMAIN tail
    BY <2>1
  <2>5. /\ \A i \in DOMAIN head : head[i] \in ToSet(new)
        /\ \A i \in DOMAIN tail : tail[i] \in ToSet(new)
    <3>1. \A i \in DOMAIN new : new[i] \in ToSet(new)
      BY DEF ToSet
    <3>2. \A i \in DOMAIN head : head[i] \in ToSet(new)
      BY <2>1, <2>2, <3>1
    <3>3. ASSUME NEW i \in DOMAIN tail PROVE tail[i] \in ToSet(new)
      <4>1. Len(head) + i \in DOMAIN new /\ new[Len(head) + i] = tail[i]
        BY <2>1, <2>3
      <4> QED BY <3>1, <4>1
    <3> QED BY <3>2, <3>3
  <2>6. ASSUME NEW i \in DOMAIN new PROVE new[i] \in ToSet(head) \cup ToSet(tail)
    BY <2>1, <2>4 DEF ToSet
  <2>7. ToSet(new) \subseteq ToSet(head) \cup ToSet(tail)
    BY <2>6 DEF ToSet
  <2>8. ToSet(head) \subseteq ToSet(new) /\ ToSet(tail) \subseteq ToSet(new)
    BY <2>5 DEF ToSet
  <2> QED BY <2>1, <2>7, <2>8
<1>4. ToSet(new) = selected /\ staying = ToSet(old) \cap selected
  BY <1>2, <1>3
<1>5. Picked(new, staying) = Picked(head, staying) \o Picked(tail, staying)
  <2> HIDE DEF head, tail, staying
  <2> QED BY <1>2, PickedConcat
<1>6. Picked(head, staying) = Picked(old, staying)
  <2>1. selected \cap staying = staying
    BY <1>4
  <2> HIDE DEF staying
  <2> QED BY <2>1, PickedTwice
<1>7. Picked(tail, staying) = <<>>
  <2>1. ToSet(tail) \cap staying = {}
    BY <1>2, <1>4
  <2> HIDE DEF tail, staying
  <2> QED BY <1>2, <2>1, PickedNothing
<1>8. Picked(old, staying) \o <<>> = Picked(old, staying)
  <2> HIDE DEF staying
  <2>1. Picked(old, staying) \in Seq(Protocols)
    BY PickedMembers
  <2> QED BY <2>1, ConcatEmptySeq
<1> QED BY <1>3, <1>4, <1>5, <1>6, <1>7, <1>8 DEF MergedOrder

-----------------------------------------------------------------------------
(* What becomes of a configuration when fields are replaced.               *)
LEMMA FieldFacts ==
  ASSUME NEW c, Readable(c)
  PROVE  /\ DOMAIN c = Fields
         /\ \A h \in Ranges \cup {None} :
              LET d == [c EXCEPT !.hopping = h] IN
              /\ Readable(d) /\ d.hopping = h
              /\ \A f \in Fields \ {"hopping"} : d[f] = c[f]
         /\ \A t, v :
              LET d == [c EXCEPT !.template = t, !.client = v] IN
              /\ Readable(d) /\ \A f \in Fields \ {"template", "client"} : d[f] = c[f]
         /\ \A n :
              LET d == [c EXCEPT !.api = n] IN
              /\ Readable(d) /\ \A f \in Fields \ {"api"} : d[f] = c[f]
<1>1. DOMAIN c = Fields /\ c = [f \in Fields |-> c[f]]
  BY DEF Readable
<1>2. ASSUME NEW h \in Ranges \cup {None}
      PROVE  LET d == [c EXCEPT !.hopping = h] IN
             /\ Readable(d) /\ d.hopping = h
             /\ \A f \in Fields \ {"hopping"} : d[f] = c[f]
  BY <1>1 DEF Readable, Fields
<1>3. ASSUME NEW t, NEW v
      PROVE  LET d == [c EXCEPT !.template = t, !.client = v] IN
             /\ Readable(d) /\ \A f \in Fields \ {"template", "client"} : d[f] = c[f]
  BY <1>1 DEF Readable, Fields
<1>4. ASSUME NEW n
      PROVE  LET d == [c EXCEPT !.api = n] IN
             /\ Readable(d) /\ \A f \in Fields \ {"api"} : d[f] = c[f]
  BY <1>1 DEF Readable, Fields
<1> QED BY <1>1, <1>2, <1>3, <1>4

(* Validation does not look at the preferences of clients. *)
LEMMA PreferencesValid ==
  ASSUME NEW c, NEW d, Valid(c), \A f \in Fields \ {"template", "client"} : d[f] = c[f]
  PROVE  Valid(d)
<1>1. /\ d.mode = c.mode /\ d.host = c.host /\ d.httpPort = c.httpPort
      /\ d.listenPort = c.listenPort /\ d.certificate = c.certificate /\ d.enabled = c.enabled
      /\ d.realitySni = c.realitySni /\ d.sni = c.sni /\ d.schedule = c.schedule
      /\ d.nodes = c.nodes /\ d.hopping = c.hopping /\ d.api = c.api
  BY DEF Fields
<1>2. Enabled(d) = Enabled(c) /\ NodePorts(d) = NodePorts(c) /\ ServerName(d) = ServerName(c)
  BY <1>1 DEF Enabled, NodePorts, ServerName
<1>3. HoppingValid(d) /\ ProtocolsValid(d)
  BY <1>1, <1>2 DEF Valid, HoppingValid, ProtocolsValid
<1>4. AccountingValid(d) /\ ModeValid(d)
  BY <1>1, <1>2 DEF Valid, AccountingValid, ModeValid
<1> QED BY <1>3, <1>4 DEF Valid

-----------------------------------------------------------------------------
(* The answers to a topic, against the configuration it was asked about.   *)
OptionFields ==
  {"mode", "host", "proxyHost", "email", "httpPort", "listenPort", "certificate", "interface",
   "enabled", "realitySni", "sni", "schedule", "ports"}

Answered(a, subject) == About(subject) \in DOMAIN a

SubscriptionFollows(c, o, a) ==
  /\ o.mode \in Modes
  /\ o.mode = c.mode \/ Answered(a, "mode")
  /\ o.host = c.host \/ Answered(a, "host")
  /\ o.proxyHost = c.proxyHost \/ Answered(a, "proxyHost")
  /\ o.email = c.email \/ Answered(a, "email") \/ (o.email = None /\ o.mode # "direct")
  /\ o.httpPort = c.httpPort \/ Answered(a, "httpPort") \/ Answered(a, "mode")
  /\ o.listenPort = c.listenPort \/ Answered(a, "listenPort") \/ Answered(a, "mode")

ProtocolsFollow(c, o, a) ==
  /\ o.enabled \in Seq(Protocols)
  /\ \A p \in Protocols :
       (p \in Enabled(c)) = (p \in ToSet(o.enabled)) \/ EnableQuestion(p) \in DOMAIN a
  /\ Picked(c.enabled, Stayed(c.enabled, o.enabled)) =
       Picked(o.enabled, Stayed(c.enabled, o.enabled))
  /\ \A p \in ToSet(o.enabled) : o.ports[p] = PortOf(c, p) \/ PortQuestion(p) \in DOMAIN a
  /\ o.certificate \in {"domain", "self-signed"}
  /\ o.certificate = c.certificate \/ Answered(a, "certificate")
  /\ o.realitySni = c.realitySni \/ Answered(a, "realitySni") \/ "vless-reality" \notin ToSet(o.enabled)
  /\ o.sni = c.sni \/ Answered(a, "sni") \/ ToSet(o.enabled) \cap OverTls = {}

ScheduleFollows(c, o, a) ==
  /\ o.interface \in Interfaces /\ (o.interface = c.interface \/ Answered(a, "interface"))
  /\ o.schedule \in [policy : Policies, zone : Zones, anchor : Anchors \cup {None}]
  /\ \/ o.schedule = c.schedule
     \/ Answered(a, "policy") \/ Answered(a, "zone") \/ Answered(a, "anchor")

LEMMA CarriedFollows ==
  ASSUME NEW c, Good(c), NEW a
  PROVE  LET o == Carried(c) IN
         /\ DOMAIN o = OptionFields
         /\ SubscriptionFollows(c, o, a) /\ ProtocolsFollow(c, o, a) /\ ScheduleFollows(c, o, a)
<1> DEFINE o == Carried(c)
<1>1. /\ DOMAIN o = OptionFields
      /\ o.mode = c.mode /\ o.host = c.host /\ o.proxyHost = c.proxyHost /\ o.email = c.email
      /\ o.httpPort = c.httpPort /\ o.listenPort = c.listenPort
      /\ o.certificate = c.certificate /\ o.interface = c.interface /\ o.enabled = c.enabled
      /\ o.realitySni = c.realitySni /\ o.sni = c.sni /\ o.schedule = c.schedule
      /\ o.ports = [p \in Protocols |-> PortOf(c, p)]
  BY DEF Carried, OptionFields
<1> HIDE DEF o
<1>2. SubscriptionFollows(c, o, a) /\ ScheduleFollows(c, o, a)
  BY <1>1 DEF Good, Readable, SubscriptionFollows, ScheduleFollows
<1>3. \A p \in Enabled(c) : p \in Protocols
  BY DEF Good, Valid, ProtocolsValid
<1>4. ProtocolsFollow(c, o, a)
  BY <1>1, <1>3 DEF Good, Readable, ProtocolsFollow, Enabled
<1> QED BY <1>1, <1>2, <1>4 DEF o

LEMMA SubscriptionAsked ==
  ASSUME NEW c, Good(c), NEW a, Understood(a), NEW o, DOMAIN o = OptionFields, NEW suggested,
         o = [f \in OptionFields |-> o[f]]
  PROVE  LET n == AskSubscription(c, o, a, suggested) IN
         /\ DOMAIN n = OptionFields /\ n = [f \in OptionFields |-> n[f]]
         /\ SubscriptionFollows(c, n, a)
         /\ \A f \in OptionFields \ {"mode", "host", "proxyHost", "email", "httpPort", "listenPort"} :
              n[f] = o[f]
<1> DEFINE n == AskSubscription(c, o, a, suggested)
           mode == Ask(a, About("mode"), c.mode)
<1>1. /\ DOMAIN n = OptionFields /\ n = [f \in OptionFields |-> n[f]]
      /\ n.mode = mode
      /\ n.host = Ask(a, About("host"), c.host)
      /\ n.proxyHost = Ask(a, About("proxyHost"), c.proxyHost)
      /\ n.email = AskIf(mode = "direct", a, About("email"), c.email)
      /\ n.httpPort = AskIf(mode = "ip-fallback", a, About("httpPort"), Or(c.httpPort, suggested))
      /\ n.listenPort = AskIf(mode = "external-proxy", a, About("listenPort"),
                              Or(c.listenPort, suggested))
      /\ \A f \in OptionFields \ {"mode", "host", "proxyHost", "email", "httpPort", "listenPort"} :
           n[f] = o[f]
  BY DEF AskSubscription, OptionFields
<1> HIDE DEF n
<1>2. mode \in Modes /\ c.mode \in Modes /\ (mode = c.mode \/ Answered(a, "mode"))
  BY DEF Good, Readable, Understood, Ask, Answered
<1>3. /\ c.mode = "ip-fallback" => c.httpPort # None /\ c.listenPort = None
      /\ c.mode = "external-proxy" => c.listenPort # None /\ c.httpPort = None
      /\ c.mode = "direct" => c.httpPort = None /\ c.listenPort = None
  BY DEF Good, Valid, ModeValid
<1> HIDE DEF mode
<1>4. n.httpPort = c.httpPort \/ Answered(a, "httpPort") \/ Answered(a, "mode")
  BY <1>1, <1>2, <1>3 DEF AskIf, Ask, Or, Answered, Modes
<1>5. n.listenPort = c.listenPort \/ Answered(a, "listenPort") \/ Answered(a, "mode")
  BY <1>1, <1>2, <1>3 DEF AskIf, Ask, Or, Answered, Modes
<1>6. n.email = c.email \/ Answered(a, "email") \/ (n.email = None /\ n.mode # "direct")
  BY <1>1 DEF AskIf, Ask, Answered
<1>7. SubscriptionFollows(c, n, a)
  BY <1>1, <1>2, <1>4, <1>5, <1>6 DEF SubscriptionFollows, Ask, Answered
<1> QED BY <1>1, <1>7 DEF n

LEMMA ProtocolsAsked ==
  ASSUME NEW c, Good(c), NEW a, Understood(a), NEW o, DOMAIN o = OptionFields,
         o = [f \in OptionFields |-> o[f]]
  PROVE  LET n == AskProtocols(c, o, a) IN
         /\ DOMAIN n = OptionFields /\ n = [f \in OptionFields |-> n[f]]
         /\ ProtocolsFollow(c, n, a)
         /\ \A f \in OptionFields \ {"enabled", "certificate", "ports", "realitySni", "sni"} :
              n[f] = o[f]
<1> DEFINE n == AskProtocols(c, o, a)
           selected == {p \in Protocols : Ask(a, EnableQuestion(p), p \in Enabled(c))}
<1>1. /\ DOMAIN n = OptionFields /\ n = [f \in OptionFields |-> n[f]]
      /\ n.enabled = MergedOrder(c.enabled, selected)
      /\ n.certificate = Ask(a, About("certificate"), c.certificate)
      /\ n.ports = [p \in Protocols |-> AskIf(p \in selected, a, PortQuestion(p), PortOf(c, p))]
      /\ n.realitySni = AskIf("vless-reality" \in selected, a, About("realitySni"), c.realitySni)
      /\ n.sni = AskIf(selected \cap OverTls # {}, a, About("sni"), c.sni)
      /\ \A f \in OptionFields \ {"enabled", "certificate", "ports", "realitySni", "sni"} :
           n[f] = o[f]
  <2> HIDE DEF selected
  <2>1. n = [o EXCEPT
               !.enabled = MergedOrder(c.enabled, selected),
               !.certificate = Ask(a, About("certificate"), c.certificate),
               !.ports = [p \in Protocols |->
                            AskIf(p \in selected, a, PortQuestion(p), PortOf(c, p))],
               !.realitySni = AskIf("vless-reality" \in selected, a, About("realitySni"), c.realitySni),
               !.sni = AskIf(selected \cap OverTls # {}, a, About("sni"), c.sni)]
    BY DEF AskProtocols, selected
  <2> HIDE DEF n
  <2> QED BY <2>1 DEF OptionFields
<1> HIDE DEF n
<1>2. selected \in SUBSET Protocols /\ c.enabled \in Seq(Protocols)
  BY DEF Good, Readable
<1>3. \A p \in Protocols : (p \in Enabled(c)) = (p \in selected) \/ EnableQuestion(p) \in DOMAIN a
  BY DEF Ask
<1> HIDE DEF selected
<1>4. /\ n.enabled \in Seq(Protocols) /\ ToSet(n.enabled) = selected
      /\ Picked(c.enabled, Stayed(c.enabled, n.enabled)) =
           Picked(n.enabled, Stayed(c.enabled, n.enabled))
  <2> DEFINE old == c.enabled
             new == MergedOrder(old, selected)
  <2>1. /\ new \in Seq(Protocols) /\ ToSet(new) = selected
        /\ Picked(old, ToSet(old) \cap ToSet(new)) = Picked(new, ToSet(old) \cap ToSet(new))
    BY <1>2, MergedFacts
  <2>2. n.enabled = new
    BY <1>1
  <2> HIDE DEF new
  <2> QED BY <2>1, <2>2 DEF Stayed
<1>5. \A p \in selected : n.ports[p] = PortOf(c, p) \/ PortQuestion(p) \in DOMAIN a
  BY <1>1, <1>2 DEF AskIf, Ask
<1>6. /\ n.certificate \in {"domain", "self-signed"}
      /\ n.certificate = c.certificate \/ Answered(a, "certificate")
      /\ n.realitySni = c.realitySni \/ Answered(a, "realitySni") \/ "vless-reality" \notin selected
      /\ n.sni = c.sni \/ Answered(a, "sni") \/ selected \cap OverTls = {}
  BY <1>1 DEF AskIf, Ask, Answered, Good, Readable, Understood
<1>7. ProtocolsFollow(c, n, a)
  BY <1>3, <1>4, <1>5, <1>6 DEF ProtocolsFollow
<1> QED BY <1>1, <1>7 DEF n

LEMMA ScheduleAsked ==
  ASSUME NEW c, Good(c), NEW a, Understood(a), NEW o, DOMAIN o = OptionFields,
         o = [f \in OptionFields |-> o[f]]
  PROVE  LET n == AskSchedule(c, o, a) IN
         /\ DOMAIN n = OptionFields /\ n = [f \in OptionFields |-> n[f]]
         /\ ScheduleFollows(c, n, a)
         /\ \A f \in OptionFields \ {"interface", "schedule"} : n[f] = o[f]
<1> DEFINE n == AskSchedule(c, o, a)
           policy == Ask(a, About("policy"), c.schedule.policy)
           zone == Ask(a, About("zone"), c.schedule.zone)
           anchor == AskIf(policy = "anchored-month", a, About("anchor"), c.schedule.anchor)
<1>1. /\ DOMAIN n = OptionFields /\ n = [f \in OptionFields |-> n[f]]
      /\ n.interface = Ask(a, About("interface"), c.interface)
      /\ n.schedule = [policy |-> policy, zone |-> zone, anchor |-> anchor]
      /\ \A f \in OptionFields \ {"interface", "schedule"} : n[f] = o[f]
  <2> HIDE DEF zone, anchor
  <2>1. n = [o EXCEPT !.interface = Ask(a, About("interface"), c.interface),
                      !.schedule = [policy |-> policy, zone |-> zone, anchor |-> anchor]]
    BY DEF AskSchedule, zone, anchor
  <2> HIDE DEF n
  <2> QED BY <2>1 DEF OptionFields
<1> HIDE DEF n
<1>2. /\ c.schedule \in [policy : Policies, zone : Zones, anchor : Anchors \cup {None}]
      /\ (c.schedule.anchor = None) = (c.schedule.policy = "natural-month")
  BY DEF Good, Readable, Valid, AccountingValid
<1>3. /\ policy \in Policies /\ zone \in Zones /\ anchor \in Anchors \cup {None}
      /\ n.interface \in Interfaces /\ (n.interface = c.interface \/ Answered(a, "interface"))
  BY <1>1, <1>2 DEF Good, Readable, Understood, Ask, AskIf, Answered
<1>4. \/ policy = c.schedule.policy /\ zone = c.schedule.zone /\ anchor = c.schedule.anchor
      \/ Answered(a, "policy") \/ Answered(a, "zone") \/ Answered(a, "anchor")
  BY <1>2 DEF Ask, AskIf, Answered, Policies
<1> HIDE DEF policy, zone, anchor
<1>5. ScheduleFollows(c, n, a)
  BY <1>1, <1>2, <1>3, <1>4 DEF ScheduleFollows
<1> QED BY <1>1, <1>5 DEF n

Follows(c, o, a) ==
  SubscriptionFollows(c, o, a) /\ ProtocolsFollow(c, o, a) /\ ScheduleFollows(c, o, a)

(* The three parts look at fields of their own. *)
LEMMA PartsApart ==
  ASSUME NEW c, NEW a, NEW o, NEW n
  PROVE  /\ SubscriptionFollows(c, o, a)
              /\ (\A f \in {"mode", "host", "proxyHost", "email", "httpPort", "listenPort"} : n[f] = o[f])
            => SubscriptionFollows(c, n, a)
         /\ ProtocolsFollow(c, o, a)
              /\ (\A f \in {"enabled", "certificate", "ports", "realitySni", "sni"} : n[f] = o[f])
            => ProtocolsFollow(c, n, a)
         /\ ScheduleFollows(c, o, a) /\ (\A f \in {"interface", "schedule"} : n[f] = o[f])
            => ScheduleFollows(c, n, a)
<1>1. ASSUME SubscriptionFollows(c, o, a),
             \A f \in {"mode", "host", "proxyHost", "email", "httpPort", "listenPort"} : n[f] = o[f]
      PROVE  SubscriptionFollows(c, n, a)
  <2>1. /\ n.mode = o.mode /\ n.host = o.host /\ n.proxyHost = o.proxyHost /\ n.email = o.email
        /\ n.httpPort = o.httpPort /\ n.listenPort = o.listenPort
    BY <1>1
  <2> QED BY <1>1, <2>1 DEF SubscriptionFollows
<1>2. ASSUME ProtocolsFollow(c, o, a),
             \A f \in {"enabled", "certificate", "ports", "realitySni", "sni"} : n[f] = o[f]
      PROVE  ProtocolsFollow(c, n, a)
  <2>1. /\ n.enabled = o.enabled /\ n.certificate = o.certificate /\ n.ports = o.ports
        /\ n.realitySni = o.realitySni /\ n.sni = o.sni
    BY <1>2
  <2> QED BY <1>2, <2>1 DEF ProtocolsFollow
<1>3. ASSUME ScheduleFollows(c, o, a), \A f \in {"interface", "schedule"} : n[f] = o[f]
      PROVE  ScheduleFollows(c, n, a)
  <2>1. n.interface = o.interface /\ n.schedule = o.schedule
    BY <1>3
  <2> QED BY <1>3, <2>1 DEF ScheduleFollows
<1> QED BY <1>1, <1>2, <1>3

LEMMA OptionsFollow ==
  ASSUME NEW c, Good(c), NEW a, Understood(a), NEW topic \in Topics
  PROVE  Follows(c, Options(topic, c, a), a)
<1> DEFINE o == Carried(c)
           S == {"mode", "host", "proxyHost", "email", "httpPort", "listenPort"}
           P == {"enabled", "certificate", "ports", "realitySni", "sni"}
           T == {"interface", "schedule"}
<1>1. /\ DOMAIN o = OptionFields /\ o = [f \in OptionFields |-> o[f]]
      /\ Follows(c, o, a)
  <2>1. o = [f \in OptionFields |-> o[f]]
    BY DEF Carried, OptionFields
  <2> QED BY <2>1, CarriedFollows DEF Follows
<1> HIDE DEF o
<1>2. /\ OptionFields = S \cup P \cup T
      /\ OptionFields \ S = P \cup T /\ OptionFields \ P = S \cup T /\ OptionFields \ T = S \cup P
  BY DEF OptionFields
<1>3. CASE topic = "subscription"
  <2> DEFINE n == AskSubscription(c, o, a, DefaultPort)
  <2>1. SubscriptionFollows(c, n, a) /\ \A f \in P \cup T : n[f] = o[f]
    <3> HIDE DEF S, P, T
    <3> QED BY <1>1, <1>2, SubscriptionAsked DEF S
  <2> HIDE DEF n
  <2>2. Follows(c, n, a)
    BY <1>1, <2>1, PartsApart DEF Follows
  <2> QED BY <1>3, <2>2 DEF Options, n, o
<1>4. CASE topic = "protocols"
  <2> DEFINE n == AskProtocols(c, o, a)
  <2>1. ProtocolsFollow(c, n, a) /\ \A f \in S \cup T : n[f] = o[f]
    <3> HIDE DEF S, P, T
    <3> QED BY <1>1, <1>2, ProtocolsAsked DEF P
  <2> HIDE DEF n
  <2>2. Follows(c, n, a)
    BY <1>1, <2>1, PartsApart DEF Follows
  <2> QED BY <1>4, <2>2 DEF Options, n, o
<1>5. CASE topic = "traffic"
  <2> DEFINE n == AskSchedule(c, o, a)
  <2>1. ScheduleFollows(c, n, a) /\ \A f \in S \cup P : n[f] = o[f]
    <3> HIDE DEF S, P, T
    <3> QED BY <1>1, <1>2, ScheduleAsked DEF T
  <2> HIDE DEF n
  <2>2. Follows(c, n, a)
    BY <1>1, <2>1, PartsApart DEF Follows
  <2> QED BY <1>5, <2>2 DEF Options, n, o
<1>6. CASE topic = "wizard"
  <2> DEFINE x == AskSubscription(c, o, a, None)
             y == AskProtocols(c, x, a)
             z == AskSchedule(c, y, a)
  <2>1. /\ DOMAIN x = OptionFields /\ x = [f \in OptionFields |-> x[f]]
        /\ SubscriptionFollows(c, x, a)
    BY <1>1, SubscriptionAsked
  <2> HIDE DEF x
  <2>2. /\ DOMAIN y = OptionFields /\ y = [f \in OptionFields |-> y[f]]
        /\ ProtocolsFollow(c, y, a) /\ \A f \in S \cup T : y[f] = x[f]
    <3> HIDE DEF S, P, T
    <3> QED BY <1>2, <2>1, ProtocolsAsked DEF P
  <2> HIDE DEF y
  <2>3. ScheduleFollows(c, z, a) /\ \A f \in S \cup P : z[f] = y[f]
    <3> HIDE DEF S, P, T
    <3> QED BY <1>2, <2>2, ScheduleAsked DEF T
  <2> HIDE DEF z
  <2>4. SubscriptionFollows(c, y, a)
    BY <2>1, <2>2, PartsApart
  <2>5. Follows(c, z, a)
    BY <2>2, <2>3, <2>4, PartsApart DEF Follows
  <2> QED BY <1>6, <2>5 DEF Options, x, y, z, o
<1> QED BY <1>3, <1>4, <1>5, <1>6 DEF Topics

(* What apply_options builds changes no more than the answers did. *)
LEMMA RebuiltFollows ==
  ASSUME NEW c, Good(c), NEW a, NEW o, Follows(c, o, a), NEW taken, NEW secret, NEW dialogue,
         NEW new \in Rebuilt(c, o, taken, secret)
  PROVE  Good(new) /\ ChangesOnly(c, new, DOMAIN a, dialogue)
<1> DEFINE asked == [p \in ToSet(o.enabled) |-> Or(o.ports[p], PortOf(c, p))]
<1>1. PICK f \in Assignments(c, o, taken) : new = WithPorts(c, o, f, secret)
  BY DEF Rebuilt
<1>2. Valid(new)
  BY DEF Rebuilt
<1>3. DOMAIN f = ToSet(o.enabled) /\ \A p \in DOMAIN f : asked[p] # None => f[p] = asked[p]
  BY <1>1 DEF Assignments
<1>4. /\ new.mode = o.mode /\ new.host = o.host /\ new.proxyHost = o.proxyHost
      /\ new.email = o.email /\ new.httpPort = o.httpPort /\ new.listenPort = o.listenPort
      /\ new.certificate = o.certificate /\ new.interface = o.interface
      /\ new.enabled = o.enabled /\ new.realitySni = o.realitySni /\ new.sni = o.sni
      /\ new.schedule = o.schedule
  BY <1>1 DEF WithPorts
<1>5. /\ new.hopping = IF "hysteria2" \in DOMAIN f THEN c.hopping ELSE None
      /\ new.api = c.api /\ new.template = c.template /\ new.client = c.client
      /\ new = [x \in Fields |-> new[x]]
  BY <1>1 DEF WithPorts, Fields
<1>6. new.nodes = [p \in Protocols |->
                     IF p \in DOMAIN f
                     THEN [port |-> f[p], secret |-> Credential(c, p, secret)] ELSE None]
  BY <1>1 DEF WithPorts
<1>7. Good(new)
  BY <1>2, <1>4, <1>5
     DEF Good, Readable, Follows, SubscriptionFollows, ProtocolsFollow, ScheduleFollows
<1>8. ASSUME NEW p \in Stayed(c.enabled, new.enabled)
      PROVE  /\ new.nodes[p].secret = c.nodes[p].secret
             /\ PortOf(new, p) = PortOf(c, p) \/ PortQuestion(p) \in DOMAIN a
  <2>1. p \in Enabled(c) /\ p \in DOMAIN f
    BY <1>3, <1>4 DEF Stayed, Enabled
  <2>2. p \in Protocols /\ c.nodes[p] # None /\ c.nodes[p].port \in Ports
    BY <2>1 DEF Good, Valid, ProtocolsValid, NodePorts
  <2>3. new.nodes[p] = [port |-> f[p], secret |-> c.nodes[p].secret]
    BY <1>6, <2>1, <2>2 DEF Credential
  <2>4. PortOf(c, p) = c.nodes[p].port /\ PortOf(c, p) # None
    BY <2>2, OptionsAssumption DEF PortOf
  <2>5. new.nodes[p] # None
    BY <1>2, <1>3, <1>4, <2>1 DEF Valid, ProtocolsValid, Enabled
  <2>6. PortOf(new, p) = f[p]
    BY <2>3, <2>5 DEF PortOf
  <2>7. o.ports[p] = PortOf(c, p) => f[p] = PortOf(c, p)
    BY <1>3, <2>1, <2>4 DEF Or
  <2>8. o.ports[p] = PortOf(c, p) \/ PortQuestion(p) \in DOMAIN a
    BY <1>3, <2>1 DEF Follows, ProtocolsFollow
  <2> QED BY <2>3, <2>6, <2>7, <2>8
<1>9. /\ Enabled(new) = ToSet(o.enabled)
      /\ \A p \in Protocols :
           (p \in Enabled(c)) = (p \in Enabled(new)) \/ EnableQuestion(p) \in DOMAIN a
      /\ Picked(c.enabled, Stayed(c.enabled, new.enabled)) =
           Picked(new.enabled, Stayed(c.enabled, new.enabled))
  BY <1>4 DEF Enabled, Follows, ProtocolsFollow
<1>10. new.hopping = c.hopping \/ "hysteria2" \notin Enabled(new)
  BY <1>3, <1>5, <1>9
<1>11. /\ new.mode = c.mode \/ About("mode") \in DOMAIN a
       /\ new.host = c.host \/ About("host") \in DOMAIN a
       /\ new.proxyHost = c.proxyHost \/ About("proxyHost") \in DOMAIN a
       /\ new.interface = c.interface \/ About("interface") \in DOMAIN a
       /\ new.template = c.template /\ new.client = c.client
       /\ new.certificate = c.certificate \/ About("certificate") \in DOMAIN a
       /\ new.email = c.email \/ About("email") \in DOMAIN a
            \/ (new.email = None /\ new.mode # "direct")
       /\ new.httpPort = c.httpPort \/ About("httpPort") \in DOMAIN a \/ About("mode") \in DOMAIN a
       /\ new.listenPort = c.listenPort \/ About("listenPort") \in DOMAIN a
            \/ About("mode") \in DOMAIN a
       /\ new.schedule = c.schedule
            \/ {About("policy"), About("zone"), About("anchor")} \cap DOMAIN a # {}
       /\ new.realitySni = c.realitySni \/ About("realitySni") \in DOMAIN a
            \/ "vless-reality" \notin Enabled(new)
       /\ new.sni = c.sni \/ About("sni") \in DOMAIN a \/ Enabled(new) \cap OverTls = {}
  BY <1>4, <1>5, <1>9
     DEF Follows, SubscriptionFollows, ProtocolsFollow, ScheduleFollows, Answered
<1> QED BY <1>5, <1>7, <1>8, <1>9, <1>10, <1>11 DEF ChangesOnly

(* An edit in place leaves every node alone. *)
LEMMA HoppedFollows ==
  ASSUME NEW c, Good(c), NEW a, Understood(a), NEW dialogue, NEW new \in Hopped(c, a)
  PROVE  Good(new) /\ ChangesOnly(c, new, DOMAIN a, dialogue)
<1> DEFINE h == Ask(a, About("hopping"), c.hopping)
<1>1. new = [c EXCEPT !.hopping = h] /\ Valid(new)
  BY DEF Hopped
<1>2. h \in Ranges \cup {None} /\ (h = c.hopping \/ About("hopping") \in DOMAIN a)
  BY DEF Ask, Understood, Good, Readable
<1> HIDE DEF h
<1>3. Readable(new) /\ new.hopping = h /\ \A f \in Fields \ {"hopping"} : new[f] = c[f]
  BY <1>1, <1>2, FieldFacts DEF Good
<1>4. /\ \A field \in {"mode", "host", "proxyHost", "interface", "template", "client", "certificate",
                       "email", "httpPort", "listenPort", "schedule", "realitySni", "sni", "api"} :
           new[field] = c[field]
      /\ new.enabled = c.enabled /\ new.nodes = c.nodes
  BY <1>3 DEF Fields
<1> QED BY <1>1, <1>2, <1>3, <1>4 DEF Good, ChangesOnly, Enabled, PortOf

LEMMA PreferredFollows ==
  ASSUME NEW c, Good(c), NEW a, Understood(a), NEW dialogue, NEW new \in Preferred(c, a)
  PROVE  Good(new) /\ ChangesOnly(c, new, DOMAIN a, dialogue)
<1> DEFINE t == Ask(a, About("template"), c.template)
           v == Ask(a, About("client"), c.client)
<1>1. new = [c EXCEPT !.template = t, !.client = v]
  BY DEF Preferred
<1>2. (t = c.template \/ About("template") \in DOMAIN a) /\ (v = c.client \/ About("client") \in DOMAIN a)
  BY DEF Ask
<1> HIDE DEF t, v
<1>3. Readable(new) /\ \A f \in Fields \ {"template", "client"} : new[f] = c[f]
  BY <1>1, FieldFacts DEF Good
<1>4. Valid(new)
  BY <1>3, PreferencesValid DEF Good
<1>5. new.template = t /\ new.client = v
  BY <1>1 DEF Good, Readable, Fields
<1>6. /\ \A field \in {"mode", "host", "proxyHost", "interface", "hopping", "certificate",
                       "email", "httpPort", "listenPort", "schedule", "realitySni", "sni", "api"} :
           new[field] = c[field]
      /\ new.enabled = c.enabled /\ new.nodes = c.nodes
  BY <1>3 DEF Fields
<1> QED BY <1>2, <1>3, <1>4, <1>5, <1>6 DEF Good, ChangesOnly, Enabled, PortOf

LEMMA ObservedFollows ==
  ASSUME NEW c, Good(c), NEW a, NEW new \in Observed(c, a)
  PROVE  Good(new) /\ ChangesOnly(c, new, DOMAIN a, "api")
<1>1. PICK n : new = [c EXCEPT !.api = n]
  BY DEF Observed
<1>2. Valid(new)
  BY DEF Observed
<1>3. Readable(new) /\ \A f \in Fields \ {"api"} : new[f] = c[f]
  BY <1>1, FieldFacts DEF Good
<1>4. /\ \A field \in {"mode", "host", "proxyHost", "interface", "hopping", "template", "client",
                       "certificate", "email", "httpPort", "listenPort", "schedule", "realitySni",
                       "sni"} :
           new[field] = c[field]
      /\ new.enabled = c.enabled /\ new.nodes = c.nodes
  BY <1>3 DEF Fields
<1> QED BY <1>2, <1>3, <1>4 DEF Good, ChangesOnly, Enabled, PortOf

LEMMA DesiredFollows ==
  ASSUME NEW c, Good(c), NEW a, Understood(a), NEW dialogue, NEW new \in Desired(c, a)
  PROVE  Good(new) /\ ChangesOnly(c, new, DOMAIN a, dialogue)
<1> DEFINE mode == Ask(a, About("mode"), c.mode)
           to == Ask(a, About("host"), c.host)
           certificate == IF mode = "ip-fallback" THEN "self-signed"
                          ELSE Ask(a, About("certificate"), c.certificate)
           sni == Ask(a, About("sni"), c.sni)
           email == Ask(a, About("email"), c.email)
           httpPort == AskIf(mode = "ip-fallback", a, About("httpPort"),
                             IF c.mode = mode THEN c.httpPort ELSE None)
           listenPort == AskIf(mode = "external-proxy", a, About("listenPort"),
                               IF c.mode = mode THEN c.listenPort ELSE None)
           other == Fields \ {"mode", "host", "certificate", "sni", "email", "httpPort", "listenPort"}
<1>1. /\ new = [c EXCEPT !.mode = mode, !.host = to, !.certificate = certificate, !.sni = sni,
                         !.email = email, !.httpPort = httpPort, !.listenPort = listenPort]
      /\ Valid(new)
      /\ mode = "ip-fallback" /\ c.certificate = "domain" => About("certificate") \in DOMAIN a
  BY DEF Desired
<1>2. /\ mode \in Modes /\ (mode = c.mode \/ About("mode") \in DOMAIN a)
      /\ to = c.host \/ About("host") \in DOMAIN a
      /\ sni = c.sni \/ About("sni") \in DOMAIN a
      /\ email = c.email \/ About("email") \in DOMAIN a
  BY DEF Ask, Understood, Good, Readable
<1>3. /\ certificate \in {"domain", "self-signed"}
      /\ certificate = c.certificate \/ About("certificate") \in DOMAIN a
  BY <1>1 DEF Ask, Understood, Good, Readable
<1>4. /\ c.mode \in Modes
      /\ c.mode = "ip-fallback" => c.listenPort = None
      /\ c.mode = "external-proxy" => c.httpPort = None
      /\ c.mode = "direct" => c.httpPort = None /\ c.listenPort = None
  BY DEF Good, Readable, Valid, ModeValid
<1>5. httpPort = c.httpPort \/ About("httpPort") \in DOMAIN a \/ About("mode") \in DOMAIN a
  BY <1>2, <1>4 DEF AskIf, Ask, Modes
<1>6. listenPort = c.listenPort \/ About("listenPort") \in DOMAIN a \/ About("mode") \in DOMAIN a
  BY <1>2, <1>4 DEF AskIf, Ask, Modes
<1> HIDE DEF mode, to, certificate, sni, email, httpPort, listenPort
<1>7. /\ new = [f \in Fields |-> new[f]]
      /\ new.mode = mode /\ new.host = to /\ new.certificate = certificate /\ new.sni = sni
      /\ new.email = email /\ new.httpPort = httpPort /\ new.listenPort = listenPort
      /\ \A f \in other : new[f] = c[f]
  <2>1. DOMAIN c = Fields
    BY FieldFacts DEF Good
  <2> QED BY <1>1, <2>1 DEF Fields
<1>8. /\ new.proxyHost = c.proxyHost /\ new.interface = c.interface /\ new.template = c.template
      /\ new.client = c.client /\ new.schedule = c.schedule /\ new.realitySni = c.realitySni
      /\ new.hopping = c.hopping /\ new.api = c.api
      /\ new.enabled = c.enabled /\ new.nodes = c.nodes
  BY <1>7 DEF Fields
<1>9. Good(new)
  BY <1>1, <1>2, <1>3, <1>7, <1>8 DEF Good, Readable
<1> HIDE DEF other
<1> QED BY <1>2, <1>3, <1>5, <1>6, <1>7, <1>8, <1>9 DEF ChangesOnly, Enabled, PortOf

LEMMA OutcomesFollow ==
  ASSUME NEW dialogue \in Dialogues, NEW c, Good(c), NEW a, Understood(a), NEW taken, NEW secret,
         NEW new \in Outcomes(dialogue, c, a, taken, secret)
  PROVE  Good(new) /\ ChangesOnly(c, new, DOMAIN a, dialogue)
<1>1. CASE dialogue = "hopping"
  BY <1>1, HoppedFollows DEF Outcomes
<1>2. CASE dialogue = "client"
  BY <1>2, PreferredFollows DEF Outcomes
<1>3. CASE dialogue = "api"
  BY <1>3, ObservedFollows DEF Outcomes
<1>4. CASE dialogue = "switch-mode"
  BY <1>4, DesiredFollows DEF Outcomes
<1>5. CASE dialogue \in Topics
  <2>1. new \in Rebuilt(c, Options(dialogue, c, a), taken, secret)
    BY <1>5 DEF Outcomes, Topics
  <2> QED BY <1>5, <2>1, OptionsFollow, RebuiltFollows
<1> QED BY <1>1, <1>2, <1>3, <1>4, <1>5 DEF Dialogues

-----------------------------------------------------------------------------
(* Where a host and a command stand.                                       *)
LEMMA InitInv == Init => Inv
<1> SUFFICES ASSUME Init PROVE Inv
  OBVIOUS
<1>1. /\ session \in DOMAIN Sessions /\ config \in Sessions[session].configs
      /\ active = Server(config) /\ unit = (config.hopping # None) /\ loaded = unit
      /\ table = TableOf(config) /\ running = Services(config, active)
      /\ pc = "idle" /\ job = None /\ settled = TRUE
  BY DEF Init
<1>2. Good(config) /\ ComesUp(running)
  BY <1>1, SessionsAssumption DEF Good
<1>3. table # None => unit
  BY <1>1 DEF TableOf
<1>4. Held /\ OnDisk /\ Hooked /\ NoOrphan
  BY <1>1, <1>2, <1>3 DEF Held, OnDisk, Hooked, NoOrphan
<1>5. Quiet
  BY <1>1 DEF Quiet, Hops
<1> QED BY <1>1, <1>2, <1>4, <1>5 DEF Inv, Stages

LEMMA ConfirmInv ==
  ASSUME Inv, NEW d \in Sessions[session].dialogues, Confirm(d.name, d.answers)
  PROVE  Inv'
<1>1. d.name \in Dialogues /\ Understood(d.answers)
  BY SessionsAssumption DEF Inv
<1>2. PICK new \in Outcomes(d.name, config, d.answers, Taken, edits + 1) :
        job' = [dialogue |-> d.name, answered |-> DOMAIN d.answers, new |-> new,
                config |-> config, active |-> active, unit |-> unit, undo |-> FALSE]
  BY DEF Confirm
<1>3. Good(new) /\ ChangesOnly(config, new, DOMAIN d.answers, d.name)
  BY <1>1, <1>2, OutcomesFollow DEF Inv, Held
<1>4. /\ pc = "idle" /\ pc' = "confirmed"
      /\ UNCHANGED <<session, config, active, unit, loaded, table, running, settled>>
  BY DEF Confirm, files, host
<1>5. /\ job'.dialogue = d.name /\ job'.answered = DOMAIN d.answers /\ job'.new = new
      /\ job'.config = config /\ job'.active = active /\ job'.unit = unit /\ job'.undo = FALSE
      /\ DOMAIN job' = JobFields
  BY <1>2 DEF JobFields
<1>6. Held'
  BY <1>3, <1>4, <1>5 DEF Inv, Held
<1>7. OnDisk' /\ Hooked' /\ NoOrphan'
  BY <1>4, <1>5 DEF Inv, OnDisk, Hooked, NoOrphan, Quiet
<1>8. Quiet'
  BY <1>4 DEF Inv, Quiet, Hops
<1> QED BY <1>4, <1>6, <1>7, <1>8 DEF Inv, Stages

(* A template is no part of what the services are started with. *)
LEMMA TemplateFacts ==
  ASSUME NEW c, NEW new, Readable(c), TemplateOnly(c, new)
  PROVE  /\ Server(new) = Server(c) /\ TableOf(new) = TableOf(c) /\ new.hopping = c.hopping
         /\ \A s : Services(new, s) = Services(c, s)
<1>1. new = [c EXCEPT !.template = new.template] /\ DOMAIN c = Fields
  BY FieldFacts DEF TemplateOnly
<1>2. \A f \in Fields \ {"template"} : new[f] = c[f]
  BY <1>1
<1>3. /\ new.nodes = c.nodes /\ new.realitySni = c.realitySni /\ new.sni = c.sni /\ new.host = c.host
      /\ new.api = c.api /\ new.mode = c.mode /\ new.httpPort = c.httpPort
      /\ new.listenPort = c.listenPort /\ new.hopping = c.hopping /\ new.interface = c.interface
  BY <1>2 DEF Fields
<1> QED BY <1>3 DEF Server, ServerName, TableOf, Services, DaemonPort

LEMMA TemplateInv ==
  ASSUME Inv, PublishTemplate
  PROVE  Inv'
<1>1. /\ pc = "confirmed" /\ TemplateOnly(config, job.new) /\ config' = job.new
      /\ pc' = "idle" /\ job' = None
      /\ UNCHANGED <<session, active, unit, loaded, table, running, settled>>
  BY DEF PublishTemplate, Finish, host
<1>2. /\ Server(config') = Server(config) /\ TableOf(config') = TableOf(config)
      /\ config'.hopping = config.hopping /\ \A s : Services(config', s) = Services(config, s)
  BY <1>1, TemplateFacts DEF Inv, Held, Good
<1>3. Held' /\ OnDisk' /\ Hooked' /\ NoOrphan'
  BY <1>1 DEF Inv, Held, OnDisk, Hooked, NoOrphan
<1>4. Quiet'
  BY <1>1, <1>2 DEF Inv, Quiet, Hops
<1> QED BY <1>1, <1>3, <1>4 DEF Inv, Stages

LEMMA PublishInv ==
  ASSUME Inv, PublishServer \/ PublishConfig \/ RestoreServer \/ RestoreConfig
  PROVE  Inv'
<1>1. /\ UNCHANGED <<session, unit, loaded, table, running, job, settled>>
      /\ pc' # "idle" /\ pc' # "confirmed" /\ pc # "idle" /\ pc' \in Stages
      /\ pc' \notin {"reload", "restart", "restore"} /\ pc # "restore"
  BY DEF PublishServer, PublishConfig, RestoreServer, RestoreConfig, host, Stages
<1>2. Held'
  BY <1>1 DEF Inv, Held, OnDisk, PublishServer, PublishConfig, RestoreServer, RestoreConfig
<1>3. OnDisk'
  BY DEF Inv, Held, OnDisk, PublishServer, PublishConfig, RestoreServer, RestoreConfig
<1>4. Hooked' /\ NoOrphan' /\ Quiet'
  BY <1>1 DEF Inv, Hooked, NoOrphan, Quiet
<1> QED BY <1>1, <1>2, <1>3, <1>4 DEF Inv

LEMMA HooksInv ==
  ASSUME Inv, RemoveTable \/ WriteUnit \/ Reload
  PROVE  Inv'
<1>1. /\ UNCHANGED <<session, config, active, running, job, settled>> /\ pc' \in Stages
      /\ pc \in {"reconcile", "reload"} /\ pc' \in {"reconcile", "reload", "restart"}
  BY DEF RemoveTable, WriteUnit, Reload, files, Stages
<1>2. unit' \in BOOLEAN /\ loaded' \in BOOLEAN
  BY DEF Inv, RemoveTable, WriteUnit, Reload, Hops
<1>3. Held' /\ OnDisk' /\ Quiet'
  BY <1>1 DEF Inv, Held, OnDisk, Quiet
<1>4. Hooked'
  BY <1>1 DEF Inv, Hooked, RemoveTable, WriteUnit, Reload, Hops
<1>5. NoOrphan'
  BY <1>1 DEF Inv, Hooked, NoOrphan, RemoveTable, WriteUnit, Reload, Hops
<1> QED BY <1>1, <1>2, <1>3, <1>4, <1>5 DEF Inv

LEMMA RestartInv ==
  ASSUME Inv, Restart
  PROVE  Inv'
<1>1. /\ pc = "restart" /\ pc' = "idle" /\ job' = None
      /\ UNCHANGED <<session, config, active, unit, loaded>>
      /\ settled' = (job.undo => settled)
      /\ running' = Services(config, active) /\ ComesUp(running')
      /\ table' = IF loaded THEN TableOf(config) ELSE table
  BY DEF Restart, Start, Finish, files
<1>2. settled' \in BOOLEAN
  BY <1>1
<1>3. Held' /\ OnDisk' /\ Hooked'
  BY <1>1 DEF Inv, Held, OnDisk, Hooked
<1>4. NoOrphan'
  BY <1>1 DEF Inv, NoOrphan
<1>5. settled' => active = Server(config)
  BY <1>1 DEF Inv, Held, OnDisk
<1>6. Quiet'
  BY <1>1, <1>5 DEF Inv, Quiet, Hooked, Hops
<1> QED BY <1>1, <1>2, <1>3, <1>4, <1>6 DEF Inv, Stages

(* A failed command turns to undoing; one that was undoing has failed.     *)
LEMMA FailsInv ==
  ASSUME Inv, StepFails \/ RestartFails
  PROVE  Inv'
<1>1. /\ UNCHANGED <<session, config, active, unit, loaded>>
      /\ pc \in {"reconcile", "reload", "restart"}
      /\ running' \in {running, None}
      /\ table' = table \/ (loaded /\ table' \in {None, TableOf(config)})
      /\ GivesUp
  BY DEF StepFails, RestartFails, files, host
<1>2. ComesUp(running)' \/ running' = None
  BY <1>1 DEF Inv
<1>3. CASE job.undo
  <2>1. pc' = "idle" /\ job' = None /\ settled' = FALSE
    BY <1>1, <1>3 DEF GivesUp, Finish
  <2>2. Held' /\ OnDisk' /\ Hooked' /\ Quiet'
    BY <1>1, <2>1 DEF Inv, Held, OnDisk, Hooked, Quiet
  <2>3. NoOrphan'
    BY <1>1, <2>1 DEF Inv, NoOrphan
  <2> QED BY <1>1, <1>2, <2>1, <2>2, <2>3 DEF Inv, Stages
<1>4. CASE ~job.undo
  <2>1. /\ pc' = IF job.dialogue = "switch-mode" THEN "restore" ELSE "undo"
        /\ job' = [job EXCEPT !.undo = TRUE] /\ settled' = settled
    BY <1>1, <1>4 DEF GivesUp
  <2>2. /\ DOMAIN job' = JobFields /\ job'.undo = TRUE /\ job'.unit = job.unit
        /\ job'.config = job.config /\ job'.new = job.new /\ job'.active = job.active
        /\ job'.answered = job.answered /\ job'.dialogue = job.dialogue
    BY <1>1, <2>1 DEF Inv, Held, JobFields
  <2>3. pc' \in {"restore", "undo"}
    BY <2>1
  <2>4. Held'
    BY <1>1, <2>2, <2>3 DEF Inv, Held
  <2>5. OnDisk' /\ Hooked' /\ Quiet'
    BY <1>1, <2>1, <2>2, <2>3 DEF Inv, OnDisk, Hooked, Quiet
  <2>6. NoOrphan'
    BY <1>1, <1>4, <2>1, <2>2, <2>3 DEF Inv, NoOrphan
  <2> QED BY <1>1, <1>2, <2>1, <2>3, <2>4, <2>5, <2>6 DEF Inv, Stages
<1> QED BY <1>1, <1>3, <1>4 DEF Inv, Held

LEMMA SnapshotInv ==
  ASSUME Inv, RestoreSnapshot
  PROVE  Inv'
<1>1. /\ pc = "restore" /\ pc' = "reconcile" /\ UNCHANGED <<session, job, settled>>
      /\ active' = job.active /\ config' = job.config /\ running' = None
      /\ unit' = job.unit /\ loaded' = job.unit
      /\ table' = IF loaded THEN None ELSE table
  BY DEF RestoreSnapshot
<1>2. Held' /\ OnDisk' /\ Hooked' /\ Quiet'
  BY <1>1 DEF Inv, Held, OnDisk, Hooked, Quiet
<1>3. NoOrphan'
  BY <1>1 DEF Inv, OnDisk, NoOrphan
<1> QED BY <1>1, <1>2, <1>3 DEF Inv, Held, Stages

LEMMA DiesInv ==
  ASSUME Inv, Dies
  PROVE  Inv'
<1>1. /\ pc' = "idle" /\ job' = None /\ settled' = (pc = "confirmed" /\ settled)
      /\ UNCHANGED <<session, config, active, unit, loaded, table, running>>
  BY DEF Dies, Finish, files, host
<1>2. settled' \in BOOLEAN
  BY <1>1
<1>3. Held' /\ OnDisk' /\ Hooked' /\ NoOrphan'
  BY <1>1 DEF Inv, Held, OnDisk, Hooked, NoOrphan
<1>4. Quiet'
  BY <1>1 DEF Inv, Quiet, Hops
<1> QED BY <1>1, <1>2, <1>3, <1>4 DEF Inv, Stages

LEMMA ServiceInv ==
  ASSUME Inv, ServiceRestarts
  PROVE  Inv'
<1> DEFINE s == [Services(config, active) EXCEPT
                   !.daemon = IF running = None THEN @ ELSE running.daemon]
<1>1. /\ ComesUp(s) /\ running' = s /\ table' = IF loaded THEN TableOf(config) ELSE table
      /\ UNCHANGED <<session, config, active, unit, loaded, pc, job, settled>>
  BY DEF ServiceRestarts, files
<1>2. running = None \/ running = Services(config, active) => s = Services(config, active)
  BY DEF Services
<1> HIDE DEF s
<1>3. Held' /\ OnDisk'
  BY <1>1 DEF Inv, Held, OnDisk
<1>4. Hooked' /\ NoOrphan'
  BY <1>1 DEF Inv, Hooked, NoOrphan, Hops, TableOf
<1>5. Quiet'
  BY <1>1, <1>2 DEF Inv, Quiet, Hops
<1> QED BY <1>1, <1>3, <1>4, <1>5 DEF Inv

LEMMA RebootInv ==
  ASSUME Inv, Reboot
  PROVE  Inv'
<1>1. /\ pc' = "idle" /\ job' = None /\ UNCHANGED <<session, config, active, unit>>
      /\ settled' = (pc \in {"idle", "confirmed"} /\ settled) /\ loaded' = unit
      /\ table' = IF unit THEN TableOf(config) ELSE None
      /\ running' = IF ComesUp(Services(config, active)) THEN Services(config, active) ELSE None
  BY DEF Reboot, Finish, files
<1>2. settled' \in BOOLEAN
  BY <1>1
<1>3. Held' /\ OnDisk' /\ Hooked' /\ NoOrphan'
  BY <1>1 DEF Inv, Held, OnDisk, Hooked, NoOrphan
<1>4. Quiet'
  BY <1>1 DEF Inv, Quiet, Hops
<1>5. running' # None => ComesUp(running')
  BY <1>1
<1> QED BY <1>1, <1>2, <1>3, <1>4, <1>5 DEF Inv, Stages

LEMMA StepInv == Inv /\ [Next]_vars => Inv'
<1> SUFFICES ASSUME Inv, [Next]_vars PROVE Inv'
  OBVIOUS
<1>1. CASE \E d \in Sessions[session].dialogues : Confirm(d.name, d.answers)
  BY <1>1, ConfirmInv
<1>2. CASE UNCHANGED vars
  <2>1. UNCHANGED <<session, config, active, unit, loaded, table, running, pc, job, settled>>
    BY <1>2 DEF vars, files, host
  <2>2. Held'
    BY <2>1 DEF Inv, Held
  <2>3. OnDisk'
    BY <2>1 DEF Inv, OnDisk
  <2>4. Hooked' /\ NoOrphan'
    BY <2>1 DEF Inv, Hooked, NoOrphan, Hops
  <2>5. Quiet'
    BY <2>1 DEF Inv, Quiet, Hops
  <2> QED BY <2>1, <2>2, <2>3, <2>4, <2>5 DEF Inv
<1> QED BY <1>1, <1>2, TemplateInv, PublishInv, HooksInv, RestartInv, FailsInv, SnapshotInv,
           DiesInv, ServiceInv, RebootInv DEF Next

LEMMA Invariance == Spec => []Inv
  BY InitInv, StepInv, PTL DEF Spec

-----------------------------------------------------------------------------
(* A confirmed dialogue changes what was answered and what the answers     *)
(* force, and nothing else, whatever the configuration and the answers     *)
(* (run_topic, desired, configure, apply_options, merge_protocol_order).   *)
THEOREM EditsKeepTheRest == Spec => []OnlyAnswersChange
<1>1. Inv => OnlyAnswersChange
  BY DEF Inv, Held, OnlyAnswersChange
<1> QED BY <1>1, Invariance, PTL

(* What listens on a port of a host that came up is alone there.           *)
LEMMA AloneOnItsPort ==
  ASSUME NEW s, ComesUp(s), NEW p \in Protocols, PortOf(s.server, p) # None
  PROVE  {l[1] : l \in {l \in Listeners(s) :
                          Transport(l[1]) = Transport(p) /\ l[2] = PortOf(s.server, p)}} = {p}
<1> DEFINE k == <<p, PortOf(s.server, p)>>
<1>1. k \in Listeners(s) /\ k[1] = p /\ k[2] = PortOf(s.server, p)
  BY DEF Listeners
<1>2. \A l \in Listeners(s) : l[2] = k[2] /\ Transport(l[1]) = Transport(k[1]) => l = k
  BY <1>1 DEF ComesUp
<1> HIDE DEF k
<1> QED BY <1>1, <1>2

LEMMA InvPackets == Inv => PacketsReachTheirNode
<1> SUFFICES ASSUME Inv, pc = "idle", settled, loaded = unit, running # None
             PROVE  /\ running = Services(config, Server(config))
                    /\ \A p \in Enabled(config) :
                         Receives(config.interface, Transport(p), config.nodes[p].port) = {p}
                    /\ config.hopping # None =>
                         \A n \in config.hopping.low..config.hopping.high :
                           Receives(config.interface, "udp", n) = {"hysteria2"}
                    /\ config.hopping = None => table = None
  BY DEF PacketsReachTheirNode
<1>1. /\ running = Services(config, Server(config)) /\ ComesUp(running) /\ unit = Hops
      /\ loaded => table = TableOf(config)
  BY DEF Inv, Quiet
<1>2. config.hopping = None => table = None
  BY <1>1 DEF Inv, NoOrphan, Hops
<1>3. ASSUME NEW p \in Enabled(config)
      PROVE  /\ p \in Protocols /\ PortOf(running.server, p) = config.nodes[p].port
             /\ config.nodes[p].port \in Ports /\ PortOf(running.server, p) # None
  <2>1. p \in Protocols /\ config.nodes[p] # None /\ config.nodes[p].port \in Ports
    BY DEF Inv, Held, Good, Valid, ProtocolsValid, NodePorts
  <2>2. running.server.nodes = config.nodes
    BY <1>1 DEF Services, Server
  <2> QED BY <2>1, <2>2, OptionsAssumption DEF PortOf
<1>4. ASSUME config.hopping # None
      PROVE  /\ table.interface = config.interface /\ table.range = config.hopping
             /\ table.to = config.nodes["hysteria2"].port /\ table # None
             /\ "hysteria2" \in Enabled(config) /\ Transport("hysteria2") = "udp"
             /\ \A p \in Enabled(config) \ {"hysteria2"} : ~InRange(config.nodes[p].port, config.hopping)
  <2>1. table = [interface |-> config.interface, range |-> config.hopping,
                 to |-> config.nodes["hysteria2"].port]
    BY <1>1, <1>4 DEF TableOf, Hops
  <2>2. /\ "hysteria2" \in Enabled(config)
        /\ \A p \in Enabled(config) \ {"hysteria2"} : ~InRange(config.nodes[p].port, config.hopping)
    BY <1>4 DEF Inv, Held, Good, Valid, HoppingValid
  <2>3. table \in [interface : Interfaces, range : Ranges, to : Ports]
    BY <1>3, <1>4, <2>1, <2>2 DEF Inv, Held, Good, Readable
  <2> QED BY <2>1, <2>2, <2>3, OptionsAssumption DEF Transport
<1>5. ASSUME NEW p \in Enabled(config), NEW n,
             LET hops == /\ Transport(p) = "udp" /\ table # None
                         /\ table.interface = config.interface /\ InRange(n, table.range)
             IN  config.nodes[p].port = IF hops THEN table.to ELSE n
      PROVE  Receives(config.interface, Transport(p), n) = {p}
  <2>1. {l[1] : l \in {l \in Listeners(running) :
                         Transport(l[1]) = Transport(p) /\ l[2] = config.nodes[p].port}} = {p}
    BY <1>1, <1>3, AloneOnItsPort
  <2> QED BY <1>5, <2>1 DEF Receives
<1>6. ASSUME NEW p \in Enabled(config)
      PROVE  Receives(config.interface, Transport(p), config.nodes[p].port) = {p}
  <2>1. CASE config.hopping = None
    BY <1>2, <1>5, <2>1
  <2>2. CASE config.hopping # None /\ p = "hysteria2"
    BY <1>4, <1>5, <2>2
  <2>3. CASE config.hopping # None /\ p # "hysteria2"
    <3>1. table.range = config.hopping /\ ~InRange(config.nodes[p].port, config.hopping)
      BY <1>4, <2>3
    <3> QED BY <1>5, <3>1
  <2> QED BY <2>1, <2>2, <2>3
<1>7. ASSUME config.hopping # None, NEW n \in config.hopping.low..config.hopping.high
      PROVE  Receives(config.interface, "udp", n) = {"hysteria2"}
  <2>1. InRange(n, table.range)
    BY <1>4, <1>7 DEF InRange
  <2> QED BY <1>4, <1>5, <1>7, <2>1
<1> QED BY <1>1, <1>2, <1>6, <1>7

(* After every command that succeeded or was undone, and whatever service  *)
(* restart or reboot came after: every node gets what is sent to its port, *)
(* Hysteria2 the whole range it hops over, and nothing is redirected once  *)
(* hopping is off, for any configurations, ports and ranges                *)
(* (reconcile_sing_box_unit, restart_services, the hooks of the unit).     *)
THEOREM PacketsArrive == Spec => []PacketsReachTheirNode
<1> QED BY InvPackets, Invariance, PTL
=============================================================================
