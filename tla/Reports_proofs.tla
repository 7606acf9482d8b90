---------------------------- MODULE Reports_proofs ----------------------------
(***************************************************************************)
(* Accounting and its reports, for any interfaces, schedules, zones,       *)
(* administrators, traffic, reboots and deaths, and any u64::MAX.          *)
(*                                                                         *)
(* The argument about the figures: a state file and the audit of what it   *)
(* stands for are sound together (Sound), whether they are on disk or      *)
(* still in the hands of the command that worked them out, and neither     *)
(* traffic nor a reset of the counters in between makes them unsound.  It  *)
(* needs nothing of the calendar: a key is whatever names the period.      *)
(*                                                                         *)
(* The argument about the letters: an occasion has one free copy, and      *)
(* every further one is paid for by a fault (MailInv).  It needs days and  *)
(* periods not to move back (ForwardAssumption).                           *)
(***************************************************************************)
EXTENDS Reports, FiniteSetTheorems, WellFoundedInduction, TLAPS

(* A state file with these figures, of any period. *)
IsState(s) ==
  s \in [key : {s.key}, interface : Interfaces, base : [Dirs -> Nat],
         acc : Counts, boot : Nat, adjustment : Int]

IsAudit(a) ==
  /\ a \in [mark : [Dirs -> Int], gen : Nat, fix : {a.fix}]
  /\ a.fix # None =>
       a.fix \in [kind : {"total", "directions"}, mark : Int, gen : Nat]

(* What the interfaces carried, and when each counter was last 0.  *)
Wires(w, z) ==
  /\ w \in [Interfaces -> [Dirs -> Nat]] /\ z \in [Interfaces -> [Dirs -> Nat]]
  /\ \A i \in Interfaces, d \in Dirs : z[i][d] <= w[i][d]

(* The figures never stand for more than was carried: up to the last write *)
(* (its counter plus the zero point it was taken from, or a later one) and *)
(* up to now.                                                              *)
Bounded(s, a, w, z) ==
  LET i == s.interface IN
  \A d \in Dirs : /\ s.acc[d] + a.mark[d] <= z[i][d] + s.base[d]
                  /\ s.acc[d] + a.mark[d] <= w[i][d]

(* Until the next reset they stand for exactly what was carried up to the  *)
(* last write.                                                             *)
Exact(s, a, w, z, b, r) ==
  LET i == s.interface IN
  a.gen = r =>
    /\ s.boot = b
    /\ \A d \in Dirs : /\ z[i][d] + s.base[d] <= w[i][d]
                       /\ s.acc[d] = Capped(z[i][d] + s.base[d] - a.mark[d])

(* The adjustment makes the carried traffic the corrected total.           *)
Adjusted(s, a, w, r) ==
  LET i == s.interface IN
  /\ a.fix # None /\ a.fix.kind = "total" /\ a.fix.gen = r /\ a.gen = r
  /\ \A d \in Dirs : w[i][d] - a.mark[d] <= Top
  => /\ s.adjustment = a.mark["rx"] + a.mark["tx"] - a.fix.mark
     /\ a.fix.mark <= w[i]["rx"] + w[i]["tx"]

Sound(s, a, w, z, b, r) ==
  /\ IsState(s) /\ IsAudit(a)
  /\ s.boot <= b /\ a.gen <= r /\ (a.fix # None => a.fix.gen <= r)
  /\ Bounded(s, a, w, z) /\ Exact(s, a, w, z, b, r) /\ Adjusted(s, a, w, r)

SoundNow(s, a) == Sound(s, a, wire, zero, boot, resets)

Host == Wires(wire, zero) /\ boot \in Nat /\ resets \in Nat

LEMMA CappedFacts ==
  ASSUME NEW n \in Int
  PROVE  /\ Capped(n) <= n /\ Capped(n) <= Top /\ Capped(n) \in Int
         /\ n >= 0 => Capped(n) \in 0..Top
         /\ n <= Top => Capped(n) = n
         /\ \A m \in Nat : Capped(Capped(n) + m) = Capped(n + m)
         /\ Top \in Nat
  BY AccountingAssumption DEF Capped

LEMMA CounterFacts ==
  ASSUME Host, NEW i \in Interfaces
  PROVE  /\ Counter(i) \in [Dirs -> Nat]
         /\ \A d \in Dirs : /\ Counter(i)[d] = wire[i][d] - zero[i][d]
                            /\ wire[i][d] \in Nat /\ zero[i][d] \in Nat
                            /\ zero[i][d] <= wire[i][d]
<1>1. \A d \in Dirs : /\ wire[i][d] \in Nat /\ zero[i][d] \in Nat
                      /\ zero[i][d] <= wire[i][d] /\ wire[i][d] - zero[i][d] \in Nat
  BY DEF Host, Wires
<1> QED
  BY <1>1 DEF Counter

(* What a direction reports: never more than was carried since the mark,   *)
(* and exactly that until the next reset.                                  *)
LEMMA ReportedFacts ==
  ASSUME Host, NEW s, NEW a, SoundNow(s, a), NEW d \in Dirs
  PROVE  /\ Reported(s)[d] \in 0..Top
         /\ Reported(s)[d] + a.mark[d] <= wire[s.interface][d]
         /\ a.gen = resets =>
              Reported(s)[d] = Capped(wire[s.interface][d] - a.mark[d])
<1> DEFINE i == s.interface
           m == Counter(i)[d]
           w == wire[i][d]
           z == zero[i][d]
           k == a.mark[d]
<1>1. /\ i \in Interfaces /\ s.base[d] \in Nat /\ s.acc[d] \in 0..Top /\ k \in Int
      /\ Top \in Nat
  BY AccountingAssumption DEF SoundNow, Sound, IsState, IsAudit, Counts
<1>2. m = w - z /\ w \in Nat /\ z \in Nat /\ z <= w
  BY <1>1, CounterFacts
<1>3. /\ s.acc[d] + k <= z + s.base[d] /\ s.acc[d] + k <= w
  BY DEF SoundNow, Sound, Bounded
<1>4. a.gen = resets => /\ s.boot = boot /\ z + s.base[d] <= w
                        /\ s.acc[d] = Capped(z + s.base[d] - k)
  BY DEF SoundNow, Sound, Exact
<1>5. Delta(s, d) = IF s.boot = boot /\ m >= s.base[d] THEN m - s.base[d] ELSE 0
  BY DEF Delta
<1>6. Reported(s)[d] = Capped(s.acc[d] + Delta(s, d))
  BY DEF Reported
<1> HIDE DEF m, w, z, k, i
<1>7. Delta(s, d) \in Nat /\ s.acc[d] + Delta(s, d) + k <= w
  BY <1>1, <1>2, <1>3, <1>5
<1>8. Reported(s)[d] \in 0..Top /\ Reported(s)[d] + k <= w
  <2> DEFINE n == s.acc[d] + Delta(s, d)
  <2>1. n \in Nat /\ n + k <= w /\ Reported(s)[d] = Capped(n)
    BY <1>1, <1>6, <1>7
  <2> HIDE DEF n
  <2>2. Capped(n) <= n /\ Capped(n) \in 0..Top
    BY <2>1, CappedFacts
  <2> QED
    BY <1>1, <1>2, <2>1, <2>2
<1>9. ASSUME a.gen = resets PROVE Reported(s)[d] = Capped(w - k)
  <2> DEFINE x == z + s.base[d] - k
             y == w - z - s.base[d]
  <2>1. x \in Int /\ y \in Nat /\ Delta(s, d) = y /\ s.acc[d] = Capped(x) /\ x + y = w - k
    BY <1>1, <1>2, <1>4, <1>5, <1>9
  <2> HIDE DEF x, y
  <2> QED
    <3>1. Capped(Capped(x) + y) = Capped(x + y)
      BY <2>1, CappedFacts
    <3> QED
      BY <1>6, <2>1, <3>1
<1> QED
  BY <1>8, <1>9 DEF w, k, i

LEMMA ReportedCounts ==
  ASSUME Host, NEW s, NEW a, SoundNow(s, a)
  PROVE  Reported(s) \in Counts
<1>1. \A d \in Dirs : Reported(s)[d] \in 0..Top
  BY ReportedFacts
<1> QED
  BY <1>1 DEF Reported, Counts

(* A new baseline. *)
LEMMA FreshSound ==
  ASSUME Host, NEW key, NEW i \in Interfaces
  PROVE  SoundNow(Fresh(key, i), FreshAudit(i))
<1> DEFINE s == Fresh(key, i)
           a == FreshAudit(i)
<1>1. Counter(i) \in [Dirs -> Nat]
  BY CounterFacts
<1>2. /\ s.key = key /\ s.interface = i /\ s.base = Counter(i) /\ s.boot = boot
      /\ s.acc = [d \in Dirs |-> 0] /\ s.adjustment = 0
  BY DEF Fresh
<1>3. s \in [key : {key}, interface : Interfaces, base : [Dirs -> Nat],
             acc : Counts, boot : Nat, adjustment : Int]
  BY <1>1, AccountingAssumption DEF Fresh, Counts, Host
<1>4. a.mark = wire[i] /\ a.gen = resets /\ a.fix = None /\ wire[i] \in [Dirs -> Nat]
  BY DEF FreshAudit, Host, Wires
<1>5. a \in [mark : [Dirs -> Int], gen : Nat, fix : {None}]
  BY <1>4 DEF FreshAudit, Host
<1> HIDE DEF s, a
<1>6. \A d \in Dirs : /\ s.acc[d] = 0 /\ a.mark[d] = wire[i][d]
                      /\ zero[i][d] + s.base[d] = wire[i][d]
                      /\ wire[i][d] \in Nat /\ zero[i][d] \in Nat
                      /\ s.base[d] \in Nat /\ a.mark[d] \in Nat
  BY <1>1, <1>2, <1>4, CounterFacts
<1>7. Capped(0) = 0
  BY AccountingAssumption DEF Capped
<1>8. IsState(s) /\ IsAudit(a)
  BY <1>2, <1>3, <1>4, <1>5 DEF IsState, IsAudit
<1>9. Bounded(s, a, wire, zero)
  BY <1>2, <1>6 DEF Bounded
<1>10. Exact(s, a, wire, zero, boot, resets)
  <2>1. \A d \in Dirs : zero[i][d] + s.base[d] - a.mark[d] = 0
    BY <1>6
  <2> QED
    BY <1>2, <1>6, <1>7, <2>1 DEF Exact
<1>11. Adjusted(s, a, wire, resets)
  BY <1>4 DEF Adjusted
<1>12. SoundNow(s, a)
  BY <1>2, <1>4, <1>8, <1>9, <1>10, <1>11 DEF SoundNow, Sound, Host
<1> QED
  BY <1>12 DEF s, a

(* The timer's write. *)
LEMMA AccumulateSound ==
  ASSUME Host, NEW s, NEW a, SoundNow(s, a)
  PROVE  SoundNow(Accumulate(s), a)
<1> DEFINE n == Accumulate(s)
           i == s.interface
<1>1. /\ i \in Interfaces /\ IsState(s) /\ IsAudit(a) /\ a.gen <= resets
      /\ (a.fix # None => a.fix.gen <= resets)
      /\ \A d \in Dirs : a.mark[d] \in Int
  BY DEF SoundNow, Sound, IsState, IsAudit
<1>2. Reported(s) \in Counts /\ Counter(i) \in [Dirs -> Nat] /\ boot \in Nat
  BY <1>1, ReportedCounts, CounterFacts DEF Host
<1>3. /\ n.key = s.key /\ n.interface = i /\ n.base = Counter(i) /\ n.boot = boot
      /\ n.acc = Reported(s) /\ n.adjustment = s.adjustment /\ IsState(n)
  BY <1>1, <1>2 DEF Accumulate, IsState
<1> HIDE DEF n
<1>4. \A d \in Dirs : /\ zero[i][d] + n.base[d] = wire[i][d]
                      /\ zero[i][d] \in Nat /\ n.base[d] \in Nat /\ wire[i][d] \in Nat
                      /\ n.acc[d] + a.mark[d] <= wire[i][d]
                      /\ a.gen = resets => n.acc[d] = Capped(wire[i][d] - a.mark[d])
  <2> SUFFICES ASSUME NEW d \in Dirs
               PROVE  /\ zero[i][d] + n.base[d] = wire[i][d]
                      /\ zero[i][d] \in Nat /\ n.base[d] \in Nat /\ wire[i][d] \in Nat
                      /\ n.acc[d] + a.mark[d] <= wire[i][d]
                      /\ a.gen = resets => n.acc[d] = Capped(wire[i][d] - a.mark[d])
    OBVIOUS
  <2>1. /\ Reported(s)[d] + a.mark[d] <= wire[i][d]
        /\ a.gen = resets => Reported(s)[d] = Capped(wire[i][d] - a.mark[d])
    BY ReportedFacts
  <2>2. /\ Counter(i)[d] = wire[i][d] - zero[i][d] /\ Counter(i)[d] \in Nat
        /\ wire[i][d] \in Nat /\ zero[i][d] \in Nat
    BY <1>1, CounterFacts
  <2> QED
    BY <1>3, <2>1, <2>2
<1>5. Bounded(n, a, wire, zero)
  BY <1>3, <1>4 DEF Bounded
<1>6. Exact(n, a, wire, zero, boot, resets)
  <2>1. \A d \in Dirs : /\ zero[i][d] + n.base[d] - a.mark[d] = wire[i][d] - a.mark[d]
                        /\ zero[i][d] + n.base[d] <= wire[i][d]
    BY <1>1, <1>4
  <2> QED
    BY <1>3, <1>4, <2>1 DEF Exact
<1>7. Adjusted(n, a, wire, resets)
  BY <1>3 DEF SoundNow, Sound, Adjusted
<1>8. SoundNow(n, a)
  BY <1>1, <1>2, <1>3, <1>5, <1>6, <1>7 DEF SoundNow, Sound
<1> QED
  BY <1>8 DEF n

LEMMA ReconciledSound ==
  ASSUME Host, NEW s, NEW a, s # None => SoundNow(s, a), NEW key, NEW c \in Configs
  PROVE  SoundNow(Reconciled(s, key, c),
                  IF Describes(s, key, c) THEN a ELSE FreshAudit(c.interface))
<1>1. c.interface \in Interfaces
  BY DEF Configs
<1>2. CASE Describes(s, key, c)
  <2>1. SoundNow(s, a)
    BY <1>2 DEF Describes
  <2> QED
    BY <1>2, <2>1, AccumulateSound DEF Reconciled
<1>3. CASE ~Describes(s, key, c)
  BY <1>1, <1>3, FreshSound DEF Reconciled
<1> QED
  BY <1>2, <1>3

(* What a sound state file reports in all. *)
LEMMA TotalFacts ==
  ASSUME NEW s, Reported(s) \in Counts, s.adjustment \in Int
  PROVE  /\ Total(s) \in 0..Top
         /\ LET n == Reported(s)["rx"] + Reported(s)["tx"] + s.adjustment
            IN  n \in Int /\ Total(s) = Capped(IF n < 0 THEN 0 ELSE n)
<1> DEFINE n == Reported(s)["rx"] + Reported(s)["tx"] + s.adjustment
           m == IF n < 0 THEN 0 ELSE n
<1>1. n \in Int /\ Total(s) = Capped(m)
  BY DEF Total, CorrectedTotal, Counts, Dirs
<1>2. m \in Nat
  BY <1>1
<1> HIDE DEF m
<1>3. Capped(m) \in 0..Top
  BY <1>2, AccountingAssumption DEF Capped
<1> QED
  BY <1>1, <1>3 DEF m

LEMMA TargetTypes ==
  ASSUME NEW target \in Targets
  PROVE  /\ target.kind \in {"total", "directions"}
         /\ target.kind = "total" => target.value \in 0..Top /\ target.value \in Int
         /\ target.kind # "total" => target.value \in Counts
<1>1. TotalTargets \subseteq 0..Top /\ DirectionTargets \subseteq Counts /\ Top \in Nat
  BY AccountingAssumption
<1>2. CASE target \in [kind : {"total"}, value : TotalTargets]
  <2>1. target.kind = "total" /\ target.value \in TotalTargets
    BY <1>2
  <2>2. target.value \in 0..Top
    BY <1>1, <2>1, Zenon
  <2>3. target.value \in Int
    BY <1>1, <2>2
  <2> QED
    BY <2>1, <2>2, <2>3
<1>3. CASE target \in [kind : {"directions"}, value : DirectionTargets]
  BY <1>1, <1>3
<1> QED
  BY <1>2, <1>3 DEF Targets

(* A total-only correction: directions and mark stay, the adjustment makes *)
(* up the difference.                                                      *)
LEMMA TotalCorrectedSound ==
  ASSUME Host, SoundNow(state, audit), NEW target \in Targets, target.kind = "total"
  PROVE  SoundNow(Corrected(state, target), CorrectedAudit(state, target))
<1> DEFINE n == Corrected(state, target)
           a == CorrectedAudit(state, target)
           i == state.interface
           t == target.value
           R == Reported(state)
<1>1. /\ i \in Interfaces /\ IsState(state) /\ IsAudit(audit) /\ audit.gen <= resets
      /\ state.adjustment \in Int /\ resets \in Nat
  BY DEF SoundNow, Sound, IsState, Host
<1>2. t \in 0..Top /\ t \in Int /\ R \in Counts /\ R["rx"] \in Nat /\ R["tx"] \in Nat
  BY TargetTypes, ReportedCounts, AccountingAssumption DEF Counts, Dirs
<1>3. /\ n = [state EXCEPT !.adjustment = t - R["rx"] - R["tx"]]
      /\ n.adjustment = t - R["rx"] - R["tx"] /\ n.adjustment \in Int
  BY <1>1, <1>2 DEF Corrected, CorrectTotal, IsState
<1>4. /\ n.key = state.key /\ n.interface = i /\ n.base = state.base
      /\ n.boot = state.boot /\ n.acc = state.acc /\ IsState(n)
  BY <1>1, <1>3 DEF IsState
<1> HIDE DEF n
<1>5. Reported(n) = R
  BY <1>4 DEF Reported, Delta
<1>6. Total(n) = t
  <2>1. LET m == R["rx"] + R["tx"] + n.adjustment
        IN  m \in Int /\ Total(n) = Capped(IF m < 0 THEN 0 ELSE m)
    BY <1>2, <1>3, <1>5, TotalFacts
  <2>2. R["rx"] + R["tx"] + n.adjustment = t
    BY <1>2, <1>3
  <2> QED
    BY <1>2, <2>1, <2>2, AccountingAssumption DEF Capped
<1>7. wire[i]["rx"] \in Nat /\ wire[i]["tx"] \in Nat
  BY <1>1, CounterFacts DEF Dirs
<1>8. /\ a.mark = audit.mark /\ a.gen = audit.gen
      /\ a.fix = [kind |-> "total", mark |-> wire[i]["rx"] + wire[i]["tx"] - t,
                  gen |-> resets]
      /\ a = [audit EXCEPT !.fix = a.fix]
  <2> DEFINE fix == [kind |-> "total", mark |-> wire[i]["rx"] + wire[i]["tx"] - t,
                     gen |-> resets]
  <2>1. Fix(n, i, "total") = fix
    <3>1. Carried(i) - Total(n) = wire[i]["rx"] + wire[i]["tx"] - t
      BY <1>2, <1>6, <1>7 DEF Carried
    <3> QED
      BY <3>1 DEF Fix
  <2>2. a = [audit EXCEPT !.fix = Fix(n, i, "total")]
    BY DEF CorrectedAudit, n
  <2>3. a = [audit EXCEPT !.fix = fix]
    BY <2>1, <2>2
  <2> HIDE DEF a, fix
  <2>4. a.mark = audit.mark /\ a.gen = audit.gen /\ a.fix = fix
    BY <1>1, <2>3 DEF IsAudit
  <2> QED
    BY <2>3, <2>4 DEF fix
<1>9. IsAudit(a)
  <2>1. a.fix \in [kind : {"total", "directions"}, mark : Int, gen : Nat]
    BY <1>1, <1>2, <1>7, <1>8
  <2>2. a \in [mark : [Dirs -> Int], gen : Nat, fix : {a.fix}]
    BY <1>1, <1>8 DEF IsAudit
  <2> QED
    BY <2>1, <2>2 DEF IsAudit
<1> HIDE DEF a
<1>10. Bounded(n, a, wire, zero) /\ Exact(n, a, wire, zero, boot, resets)
  BY <1>4, <1>8 DEF SoundNow, Sound, Bounded, Exact
<1>11. Adjusted(n, a, wire, resets)
  <2> SUFFICES ASSUME a.gen = resets, \A d \in Dirs : wire[i][d] - a.mark[d] <= Top
               PROVE  /\ n.adjustment = a.mark["rx"] + a.mark["tx"] - a.fix.mark
                      /\ a.fix.mark <= wire[i]["rx"] + wire[i]["tx"]
    BY <1>4 DEF Adjusted
  <2>1. \A d \in Dirs : R[d] = wire[i][d] - a.mark[d] /\ a.mark[d] \in Int
    <3> SUFFICES ASSUME NEW d \in Dirs
                 PROVE  R[d] = wire[i][d] - a.mark[d] /\ a.mark[d] \in Int
      OBVIOUS
    <3>1. R[d] = Capped(wire[i][d] - a.mark[d])
      BY <1>8, ReportedFacts
    <3>2. wire[i][d] \in Nat /\ a.mark[d] \in Int
      BY <1>1, <1>8, CounterFacts DEF IsAudit
    <3>3. wire[i][d] - a.mark[d] \in Int /\ wire[i][d] - a.mark[d] <= Top
      BY <3>2
    <3> QED
      BY <3>1, <3>2, <3>3, AccountingAssumption DEF Capped
  <2>2. /\ R["rx"] = wire[i]["rx"] - a.mark["rx"] /\ a.mark["rx"] \in Int
        /\ R["tx"] = wire[i]["tx"] - a.mark["tx"] /\ a.mark["tx"] \in Int
    BY <2>1 DEF Dirs
  <2>3. a.fix.mark = wire[i]["rx"] + wire[i]["tx"] - t
    BY <1>8
  <2> QED
    BY <1>2, <1>3, <1>7, <2>2, <2>3
<1>12. SoundNow(n, a)
  BY <1>1, <1>4, <1>8, <1>9, <1>10, <1>11 DEF SoundNow, Sound
<1> QED
  BY <1>12 DEF n, a

(* A direction-aware one: both directions start over at what was asked.    *)
LEMMA DirectionsCorrectedSound ==
  ASSUME Host, SoundNow(state, audit), NEW target \in Targets, target.kind # "total"
  PROVE  SoundNow(Corrected(state, target), CorrectedAudit(state, target))
<1> DEFINE n == Corrected(state, target)
           a == CorrectedAudit(state, target)
           i == state.interface
           v == target.value
<1>1. i \in Interfaces /\ IsState(state) /\ IsAudit(audit) /\ boot \in Nat /\ resets \in Nat
  BY DEF SoundNow, Sound, IsState, Host
<1>2. /\ v \in Counts /\ target.kind = "directions" /\ Top \in Nat
      /\ \A d \in Dirs : v[d] \in 0..Top /\ v[d] \in Nat /\ Capped(v[d]) = v[d]
  <2>1. v \in Counts /\ target.kind = "directions" /\ Top \in Nat
    BY TargetTypes, AccountingAssumption
  <2>2. \A d \in Dirs : v[d] \in 0..Top /\ v[d] \in Nat
    BY <2>1 DEF Counts
  <2> QED
    BY <2>1, <2>2 DEF Capped
<1>3. Counter(i) \in [Dirs -> Nat]
  BY <1>1, CounterFacts
<1>4. n = [state EXCEPT !.acc = v, !.base = Counter(i), !.boot = boot]
  BY <1>2 DEF Corrected, CorrectDirections
<1>5. /\ n.key = state.key /\ n.interface = i /\ n.base = Counter(i) /\ n.boot = boot
      /\ n.acc = v /\ n.adjustment \in Int /\ IsState(n)
  BY <1>1, <1>2, <1>3, <1>4 DEF IsState
<1>6. /\ a.mark = [d \in Dirs |-> wire[i][d] - v[d]] /\ a.gen = resets
      /\ a.fix = [kind |-> "directions", mark |-> Carried(i) - Total(n), gen |-> resets]
      /\ a = [mark |-> a.mark, gen |-> a.gen, fix |-> a.fix]
  BY <1>2 DEF CorrectedAudit, Since, Fix, n
<1> HIDE DEF n, a
<1>7. \A d \in Dirs : /\ n.acc[d] = v[d] /\ n.acc[d] \in Nat
                      /\ a.mark[d] = wire[i][d] - v[d] /\ a.mark[d] \in Int
                      /\ wire[i][d] \in Nat /\ zero[i][d] \in Nat
                      /\ n.base[d] \in Nat /\ zero[i][d] + n.base[d] = wire[i][d]
  <2>1. \A d \in Dirs : /\ wire[i][d] \in Nat /\ zero[i][d] \in Nat
                        /\ Counter(i)[d] = wire[i][d] - zero[i][d]
    BY <1>1, CounterFacts
  <2> QED
    BY <1>2, <1>3, <1>5, <1>6, <2>1
<1>8. Total(n) \in Int /\ Carried(i) \in Nat
  <2>1. Reported(n) \in Counts
    <3>1. \A d \in Dirs : Reported(n)[d] \in 0..Top
      <4> SUFFICES ASSUME NEW d \in Dirs PROVE Reported(n)[d] \in 0..Top
        OBVIOUS
      <4>1. Reported(n)[d] = Capped(n.acc[d] + Delta(n, d))
        BY DEF Reported
      <4>2. Delta(n, d) \in Nat
        BY <1>3, <1>5 DEF Delta
      <4> QED
        BY <1>2, <1>7, <4>1, <4>2 DEF Capped
    <3> QED
      BY <3>1 DEF Reported, Counts
  <2>2. Total(n) \in 0..Top
    BY <1>5, <2>1, TotalFacts
  <2> QED
    BY <1>2, <1>7, <2>2 DEF Carried, Dirs
<1>9. IsAudit(a)
  <2>1. a.fix \in [kind : {"total", "directions"}, mark : Int, gen : Nat]
    BY <1>1, <1>6, <1>8
  <2>2. a.mark \in [Dirs -> Int]
    BY <1>6, <1>7
  <2> QED
    BY <1>1, <1>6, <2>1, <2>2 DEF IsAudit
<1>10. Bounded(n, a, wire, zero)
  BY <1>5, <1>7 DEF Bounded
<1>11. Exact(n, a, wire, zero, boot, resets)
  <2>1. \A d \in Dirs : /\ zero[i][d] + n.base[d] <= wire[i][d]
                        /\ zero[i][d] + n.base[d] - a.mark[d] = v[d]
    BY <1>2, <1>7
  <2> QED
    BY <1>2, <1>5, <1>7, <2>1 DEF Exact
<1>12. Adjusted(n, a, wire, resets)
  BY <1>6 DEF Adjusted
<1>13. SoundNow(n, a)
  BY <1>1, <1>5, <1>6, <1>9, <1>10, <1>11, <1>12 DEF SoundNow, Sound
<1> QED
  BY <1>13 DEF n, a

(* Traffic does not make sound figures unsound ...                         *)
LEMMA CarriedSound ==
  ASSUME NEW s, NEW a, NEW w, NEW z, NEW b \in Nat, NEW r \in Nat,
         Wires(w, z), Sound(s, a, w, z, b, r), NEW i \in Interfaces, NEW d \in Dirs
  PROVE  LET more == [w EXCEPT ![i][d] = @ + 1]
         IN  Wires(more, z) /\ Sound(s, a, more, z, b, r)
<1> DEFINE more == [w EXCEPT ![i][d] = @ + 1]
<1>1. /\ more \in [Interfaces -> [Dirs -> Nat]]
      /\ \A j \in Interfaces, e \in Dirs :
           /\ w[j][e] \in Nat /\ z[j][e] \in Nat /\ z[j][e] <= w[j][e]
           /\ more[j][e] \in Nat /\ w[j][e] <= more[j][e]
  BY DEF Wires
<1> HIDE DEF more
<1>2. Wires(more, z)
  <2>1. \A j \in Interfaces, e \in Dirs : z[j][e] <= more[j][e]
    BY <1>1
  <2> QED
    BY <1>1, <2>1 DEF Wires
<1> DEFINE k == s.interface
<1>3. /\ k \in Interfaces /\ IsState(s) /\ IsAudit(a)
      /\ \A e \in Dirs : s.acc[e] \in Int /\ a.mark[e] \in Int /\ s.base[e] \in Int
      /\ Top \in Int
  BY AccountingAssumption DEF Sound, IsState, IsAudit, Counts
<1>4. Bounded(s, a, more, z)
  <2>1. \A e \in Dirs : s.acc[e] + a.mark[e] <= more[k][e]
    BY <1>1, <1>3 DEF Sound, Bounded
  <2> QED
    BY <2>1 DEF Sound, Bounded
<1>5. Exact(s, a, more, z, b, r)
  <2>1. a.gen = r => \A e \in Dirs : z[k][e] + s.base[e] <= more[k][e]
    BY <1>1, <1>3 DEF Sound, Exact
  <2> QED
    BY <2>1 DEF Sound, Exact
<1>6. Adjusted(s, a, more, r)
  <2> SUFFICES ASSUME a.fix # None, a.fix.kind = "total", a.fix.gen = r, a.gen = r,
                      \A e \in Dirs : more[k][e] - a.mark[e] <= Top
               PROVE  /\ s.adjustment = a.mark["rx"] + a.mark["tx"] - a.fix.mark
                      /\ a.fix.mark <= more[k]["rx"] + more[k]["tx"]
    BY DEF Adjusted
  <2>1. \A e \in Dirs : w[k][e] - a.mark[e] <= Top
    BY <1>1, <1>3
  <2>2. /\ s.adjustment = a.mark["rx"] + a.mark["tx"] - a.fix.mark
        /\ a.fix.mark <= w[k]["rx"] + w[k]["tx"]
    BY <2>1 DEF Sound, Adjusted
  <2>3. a.fix.mark \in Int
    BY <1>3 DEF IsAudit
  <2>4. /\ w[k]["rx"] \in Nat /\ w[k]["tx"] \in Nat
        /\ more[k]["rx"] \in Nat /\ more[k]["tx"] \in Nat
        /\ w[k]["rx"] <= more[k]["rx"] /\ w[k]["tx"] <= more[k]["tx"]
    BY <1>1, <1>3 DEF Dirs
  <2> QED
    BY <2>2, <2>3, <2>4
<1>7. Sound(s, a, more, z, b, r)
  BY <1>4, <1>5, <1>6 DEF Sound
<1> QED
  BY <1>2, <1>7 DEF more

(* ... and a reset leaves a bound: whatever the counters start from.       *)
LEMMA ResetSound ==
  ASSUME NEW s, NEW a, NEW w, NEW z, NEW b \in Nat, NEW r \in Nat,
         Wires(w, z), Sound(s, a, w, z, b, r),
         NEW y, Wires(w, y), \A i \in Interfaces, d \in Dirs : z[i][d] <= y[i][d],
         NEW c \in {b, b + 1}
  PROVE  Sound(s, a, w, y, c, r + 1)
<1> DEFINE k == s.interface
<1>1. /\ k \in Interfaces /\ IsState(s) /\ IsAudit(a) /\ s.boot \in Nat /\ a.gen \in Nat
      /\ \A e \in Dirs : s.acc[e] \in Int /\ a.mark[e] \in Int /\ s.base[e] \in Int
  BY AccountingAssumption DEF Sound, IsState, IsAudit, Counts
<1>2. \A e \in Dirs : z[k][e] \in Nat /\ y[k][e] \in Nat /\ z[k][e] <= y[k][e]
  BY <1>1 DEF Wires
<1>3. Bounded(s, a, w, y)
  <2>1. \A e \in Dirs : s.acc[e] + a.mark[e] <= y[k][e] + s.base[e]
    BY <1>1, <1>2 DEF Sound, Bounded
  <2> QED
    BY <2>1 DEF Sound, Bounded
<1>4. a.gen # r + 1 /\ a.gen <= r + 1 /\ s.boot <= c
  BY <1>1 DEF Sound
<1>5. a.fix # None => a.fix.gen \in Nat
  BY <1>1 DEF IsAudit
<1>6. a.fix # None => a.fix.gen <= r + 1
  BY <1>5 DEF Sound
<1> QED
  BY <1>1, <1>3, <1>4, <1>6 DEF Sound, Exact, Adjusted

-----------------------------------------------------------------------------
(* The invariant.                                                          *)

IsJob(j) ==
  /\ j \in [op : {"reset", "correct", "commit"}, cfg : Configs,
            want : {j.want}, key : {j.key}, plan : {j.plan}]
  /\ j.op = "correct" => j.want \in Targets
  /\ j.op = "commit" => j.want \in Configs

Jobs ==
  /\ job = [p \in Procs |-> job[p]]
  /\ \A p \in Procs : pc[p] # "idle" => IsJob(job[p])
  /\ \A p \in Procs : pc[p] = "tentative" => job[p].op = "commit"

Figures ==
  /\ state # None => SoundNow(state, audit)
  /\ \A p \in Procs : pc[p] = "planned" =>
       SoundNow(job[p].plan.state, job[p].plan.audit)

AccountInv ==
  /\ Host /\ config \in Configs
  /\ pc \in [Procs -> {"idle", "loaded", "locked", "planned", "tentative"}]
  /\ Jobs /\ Figures

LEMMA AccountInit == Init => AccountInv
<1> SUFFICES ASSUME Init PROVE AccountInv
  OBVIOUS
<1>1. Host
  <2>1. wire \in [Interfaces -> [Dirs -> Nat]] /\ zero = wire
    BY DEF Init
  <2> QED
    BY <2>1 DEF Init, Host, Wires
<1>2. /\ config \in Configs /\ config.interface \in Interfaces
      /\ pc = [p \in Procs |-> "idle"] /\ job = [p \in Procs |-> None]
  BY DEF Init, Configs
<1>3. Jobs
  BY <1>2 DEF Jobs
<1>4. state # None => SoundNow(state, audit)
  BY <1>1, <1>2, FreshSound DEF Init
<1>5. Figures
  BY <1>2, <1>4 DEF Figures
<1> QED
  BY <1>1, <1>2, <1>3, <1>5 DEF AccountInv

(* A step of p that leaves the host and the files alone and gives p a job  *)
(* that is fit for where it goes.                                          *)
LEMMA OwnStep ==
  ASSUME AccountInv, NEW p \in Procs, NEW where, Goto(p, where),
         where \in {"idle", "loaded", "locked", "planned", "tentative"},
         NEW j, job' = [job EXCEPT ![p] = j],
         where # "idle" => IsJob(j), where = "tentative" => j.op = "commit",
         where = "planned" => SoundNow(j.plan.state, j.plan.audit),
         UNCHANGED <<state, audit, boot, wire, zero, resets>>, config' \in Configs
  PROVE  AccountInv'
<1>1. pc' = [pc EXCEPT ![p] = where] /\ pc \in [Procs -> {"idle", "loaded", "locked", "planned", "tentative"}]
  BY DEF Goto, AccountInv
<1>2. pc' \in [Procs -> {"idle", "loaded", "locked", "planned", "tentative"}]
  BY <1>1
<1>3. \A q \in Procs : \/ q = p /\ pc'[q] = where /\ job'[q] = j
                       \/ pc'[q] = pc[q] /\ job'[q] = job[q]
  BY <1>1 DEF AccountInv, Jobs
<1>4. Jobs'
  <2>1. job' = [q \in Procs |-> job'[q]]
    BY DEF AccountInv, Jobs
  <2> QED
    BY <1>3, <2>1 DEF AccountInv, Jobs
<1>5. Host'
  BY DEF AccountInv, Host
<1>6. Figures'
  BY <1>3 DEF AccountInv, Figures, SoundNow
<1> QED
  BY <1>2, <1>4, <1>5, <1>6 DEF AccountInv

LEMMA Working ==
  ASSUME AccountInv, NEW p \in Procs, pc[p] # "idle"
  PROVE  /\ IsJob(job[p]) /\ job[p].cfg \in Configs
         /\ job[p].op = "correct" => job[p].want \in Targets
         /\ job[p].op = "commit" => job[p].want \in Configs
         /\ pc[p] = "tentative" => job[p].op = "commit"
         /\ job' = job => job' = [job EXCEPT ![p] = job[p]]
<1>1. IsJob(job[p])
  BY DEF AccountInv, Jobs
<1>2. job = [q \in Procs |-> job[q]]
  BY DEF AccountInv, Jobs
<1>3. job' = job => job' = [job EXCEPT ![p] = job[p]]
  BY <1>2
<1> QED
  BY <1>1, <1>3 DEF IsJob, AccountInv, Jobs

(* Leaving, with the configuration as it is or put back. *)
LEMMA LeaveStep ==
  ASSUME AccountInv, NEW p \in Procs, Leave(p),
         UNCHANGED <<state, audit, boot, wire, zero, resets>>, config' \in Configs
  PROVE  AccountInv'
BY OwnStep DEF Leave

LEMMA LoadStep ==
  ASSUME AccountInv, NEW p \in Procs, NEW op \in {"reset", "correct", "commit"}, NEW want,
         op = "correct" => want \in Targets, op = "commit" => want \in Configs,
         Load(p, op, want)
  PROVE  AccountInv'
<1> DEFINE j == [op |-> op, cfg |-> config, want |-> want, key |-> None, plan |-> None]
<1>1. job' = [job EXCEPT ![p] = j]
  BY DEF Load
<1>2. config \in Configs
  BY DEF AccountInv
<1>3. IsJob(j)
  BY <1>2 DEF IsJob
<1>4. UNCHANGED <<state, audit, boot, wire, zero, resets, config>> /\ Goto(p, "loaded")
  BY DEF Load, files, host
<1> DEFINE where == "loaded"
<1>5. /\ where \in {"idle", "loaded", "locked", "planned", "tentative"}
      /\ where # "tentative" /\ where # "planned" /\ Goto(p, where)
  BY <1>4
<1> HIDE DEF j, where
<1> QED
  BY <1>1, <1>2, <1>3, <1>4, <1>5, OwnStep

LEMMA AcquireStep ==
  ASSUME AccountInv, NEW p \in Procs, Acquire(p)
  PROVE  AccountInv'
<1> DEFINE j == [job[p] EXCEPT !.key = CycleKey(job[p].cfg, clock)]
<1>1. job' = [job EXCEPT ![p] = j]
  BY DEF Acquire
<1>2. IsJob(job[p])
  BY Working DEF Acquire
<1>3. IsJob(j)
  BY <1>2 DEF IsJob
<1>4. /\ UNCHANGED <<state, audit, boot, wire, zero, resets, config>>
      /\ Goto(p, "locked") /\ config \in Configs
  BY DEF Acquire, files, host, AccountInv
<1> DEFINE where == "locked"
<1>5. /\ where \in {"idle", "loaded", "locked", "planned", "tentative"}
      /\ where # "tentative" /\ where # "planned" /\ Goto(p, where)
  BY <1>4
<1> HIDE DEF j, where
<1> QED
  BY <1>1, <1>3, <1>4, <1>5, OwnStep

LEMMA PlanStep ==
  ASSUME AccountInv, NEW p \in Procs, Plan(p)
  PROVE  AccountInv'
<1>1. /\ UNCHANGED <<state, audit, boot, wire, zero, resets, config>>
      /\ Goto(p, "planned") /\ config \in Configs /\ Host
      /\ state # None => SoundNow(state, audit)
  BY DEF Plan, files, host, AccountInv, Figures
<1>2. /\ IsJob(job[p]) /\ job[p].cfg \in Configs
      /\ job[p].op = "correct" => job[p].want \in Targets
  BY Working DEF Plan
<1>3. ASSUME NEW plan, job' = [job EXCEPT ![p].plan = plan],
             SoundNow(plan.state, plan.audit)
      PROVE  AccountInv'
  <2> DEFINE j == [job[p] EXCEPT !.plan = plan]
  <2>1. job' = [job EXCEPT ![p] = j]
    BY <1>3
  <2>2. IsJob(j) /\ j.plan = plan
    BY <1>2 DEF IsJob
  <2> DEFINE where == "planned"
  <2>3. /\ where \in {"idle", "loaded", "locked", "planned", "tentative"}
        /\ where # "tentative" /\ Goto(p, where)
    BY <1>1
  <2> HIDE DEF j, where
  <2> QED
    BY <1>1, <1>3, <2>1, <2>2, <2>3, OwnStep
<1>4. CASE job[p].op = "reset"
  <2> DEFINE plan == [state |-> Reconciled(state, job[p].key, job[p].cfg),
                      audit |-> IF Describes(state, job[p].key, job[p].cfg)
                                THEN audit ELSE FreshAudit(job[p].cfg.interface)]
  <2>1. job' = [job EXCEPT ![p].plan = plan]
    BY <1>4 DEF Plan
  <2>2. SoundNow(plan.state, plan.audit)
    BY <1>1, <1>2, ReconciledSound
  <2> HIDE DEF plan
  <2> QED
    BY <1>3, <2>1, <2>2
<1>5. CASE job[p].op = "correct"
  <2> DEFINE plan == [state |-> Corrected(state, job[p].want),
                      audit |-> CorrectedAudit(state, job[p].want)]
  <2>1. job' = [job EXCEPT ![p].plan = plan] /\ state # None
    BY <1>5 DEF Plan, Describes
  <2>2. SoundNow(plan.state, plan.audit)
    BY <1>1, <1>2, <1>5, <2>1, TotalCorrectedSound, DirectionsCorrectedSound
  <2> HIDE DEF plan
  <2> QED
    BY <1>3, <2>1, <2>2
<1> QED
  BY <1>4, <1>5 DEF Plan

LEMMA WriteStateStep ==
  ASSUME AccountInv, NEW p \in Procs, WriteState(p)
  PROVE  AccountInv'
<1>1. /\ UNCHANGED <<boot, wire, zero, resets, config>> /\ Leave(p)
      /\ state' = job[p].plan.state /\ audit' = job[p].plan.audit
      /\ SoundNow(job[p].plan.state, job[p].plan.audit)
  BY DEF WriteState, host, AccountInv, Figures
<1>2. /\ pc' = [pc EXCEPT ![p] = "idle"] /\ job' = [job EXCEPT ![p] = None]
      /\ pc \in [Procs -> {"idle", "loaded", "locked", "planned", "tentative"}]
  BY <1>1 DEF Leave, Goto, AccountInv
<1>3. \A q \in Procs : \/ q = p /\ pc'[q] = "idle"
                       \/ pc'[q] = pc[q] /\ job'[q] = job[q]
  BY <1>2 DEF AccountInv, Jobs
<1>4. Jobs'
  <2>1. job' = [q \in Procs |-> job'[q]]
    BY <1>2 DEF AccountInv, Jobs
  <2> QED
    BY <1>3, <2>1 DEF AccountInv, Jobs
<1>5. Figures'
  <2>1. SoundNow(state, audit)'
    BY <1>1 DEF SoundNow
  <2>2. \A q \in Procs : pc'[q] = "planned" =>
          pc[q] = "planned" /\ job'[q] = job[q]
    BY <1>3
  <2> QED
    BY <1>1, <2>1, <2>2 DEF AccountInv, Figures, SoundNow
<1>6. Host' /\ config' \in Configs
  BY <1>1 DEF AccountInv, Host
<1> QED
  BY <1>2, <1>4, <1>5, <1>6 DEF AccountInv

LEMMA CommitSteps ==
  ASSUME AccountInv, NEW p \in Procs, WriteConfig(p) \/ Activated(p) \/ ActivationFails(p)
  PROVE  AccountInv'
<1>1. UNCHANGED <<state, audit, boot, wire, zero, resets>> /\ pc[p] # "idle"
  BY DEF WriteConfig, Activated, ActivationFails, files, host
<1>2. /\ IsJob(job[p]) /\ job[p].cfg \in Configs /\ config \in Configs
      /\ job[p].op = "commit" => job[p].want \in Configs
      /\ pc[p] = "tentative" => job[p].op = "commit"
      /\ job' = job => job' = [job EXCEPT ![p] = job[p]]
  BY <1>1, Working DEF AccountInv
<1>3. CASE WriteConfig(p)
  <2>1. /\ Goto(p, "tentative") /\ job' = [job EXCEPT ![p] = job[p]]
        /\ job[p].op = "commit" /\ config' \in Configs
    BY <1>2, <1>3 DEF WriteConfig
  <2> DEFINE where == "tentative"
  <2>2. /\ where \in {"idle", "loaded", "locked", "planned", "tentative"}
        /\ where # "planned" /\ Goto(p, where)
    BY <2>1
  <2> HIDE DEF where
  <2> QED
    BY <1>1, <1>2, <2>1, <2>2, OwnStep
<1>4. CASE Activated(p)
  <2>1. config' = config /\ job[p].op = "commit" /\ job[p].want \in Configs
    BY <1>2, <1>4 DEF Activated, files
  <2>2. CASE Leave(p)
    BY <1>1, <1>2, <2>1, <2>2, LeaveStep
  <2>3. CASE /\ job' = [job EXCEPT ![p].op = "reset", ![p].cfg = job[p].want,
                                   ![p].key = CycleKey(job[p].want, clock)]
             /\ Goto(p, "locked")
    <3> DEFINE j == [job[p] EXCEPT !.op = "reset", !.cfg = job[p].want,
                                   !.key = CycleKey(job[p].want, clock)]
    <3>1. job' = [job EXCEPT ![p] = j]
      <4>1. job = [q \in Procs |-> job[q]]
        BY DEF AccountInv, Jobs
      <4> QED
        BY <2>3, <4>1
    <3>2. IsJob(j)
      BY <1>2, <2>1 DEF IsJob
    <3> DEFINE where == "locked"
    <3>3. /\ where \in {"idle", "loaded", "locked", "planned", "tentative"}
          /\ where # "tentative" /\ where # "planned" /\ Goto(p, where)
      BY <2>3
    <3> HIDE DEF j, where
    <3> QED
      BY <1>1, <1>2, <2>1, <3>1, <3>2, <3>3, OwnStep
  <2> QED
    BY <1>4, <2>2, <2>3 DEF Activated
<1>5. CASE ActivationFails(p)
  BY <1>1, <1>2, <1>5, LeaveStep DEF ActivationFails
<1> QED
  BY <1>3, <1>4, <1>5

(* Steps of the host keep what is on disk and what commands work with.     *)
LEMMA HostStep ==
  ASSUME AccountInv, Host', UNCHANGED <<config, state, audit>>,
         \/ UNCHANGED <<pc, job>>
         \/ pc' = [p \in Procs |-> "idle"] /\ job' = [p \in Procs |-> None],
         state # None => SoundNow(state, audit)',
         \A p \in Procs : pc[p] = "planned" /\ UNCHANGED job =>
           SoundNow(job[p].plan.state, job[p].plan.audit)'
  PROVE  AccountInv'
<1>1. CASE UNCHANGED <<pc, job>>
  BY <1>1 DEF AccountInv, Jobs, Figures
<1>2. CASE pc' = [p \in Procs |-> "idle"] /\ job' = [p \in Procs |-> None]
  BY <1>2 DEF AccountInv, Jobs, Figures
<1> QED
  BY <1>1, <1>2

LEMMA CarryStep ==
  ASSUME AccountInv, NEW i \in Interfaces, NEW d \in Dirs, Carry(i, d)
  PROVE  AccountInv'
<1> DEFINE w == [wire EXCEPT ![i][d] = @ + 1]
<1>1. /\ wire' = w /\ UNCHANGED <<config, state, audit, pc, job, boot, zero, resets>>
      /\ boot \in Nat /\ resets \in Nat /\ Wires(wire, zero)
  BY DEF Carry, files, AccountInv, Host
<1>2. ASSUME NEW s, NEW a, Sound(s, a, wire, zero, boot, resets)
      PROVE  Sound(s, a, w, zero, boot, resets)
  BY <1>1, <1>2, CarriedSound
<1>3. Wires(w, zero)
  <2>1. /\ w \in [Interfaces -> [Dirs -> Nat]]
        /\ \A j \in Interfaces, e \in Dirs :
             /\ wire[j][e] \in Nat /\ zero[j][e] \in Nat /\ w[j][e] \in Nat
             /\ zero[j][e] <= wire[j][e] /\ wire[j][e] <= w[j][e]
    BY <1>1 DEF Wires
  <2> HIDE DEF w
  <2>2. \A j \in Interfaces, e \in Dirs : zero[j][e] <= w[j][e]
    BY <2>1
  <2> QED
    BY <1>1, <2>1, <2>2 DEF Wires
<1> HIDE DEF w
<1>4. Host'
  BY <1>1, <1>3 DEF Host
<1>5. state # None => SoundNow(state, audit)'
  BY <1>1, <1>2 DEF AccountInv, Figures, SoundNow
<1>6. \A p \in Procs : pc[p] = "planned" =>
        SoundNow(job[p].plan.state, job[p].plan.audit)'
  BY <1>1, <1>2 DEF AccountInv, Figures, SoundNow
<1> QED
  BY <1>1, <1>4, <1>5, <1>6, HostStep

LEMMA ResetStep ==
  ASSUME AccountInv, Reboot \/ \E i \in Interfaces : Rollback(i)
  PROVE  AccountInv'
<1>1. /\ UNCHANGED <<config, state, audit, wire>> /\ resets' = resets + 1
      /\ boot' \in {boot, boot + 1}
      /\ \/ UNCHANGED <<pc, job>>
         \/ pc' = [p \in Procs |-> "idle"] /\ job' = [p \in Procs |-> None]
  BY DEF Reboot, Rollback, files
<1>2. Wires(wire, zero) /\ boot \in Nat /\ resets \in Nat
  BY DEF AccountInv, Host
<1>3. Wires(wire, zero') /\ \A i \in Interfaces, d \in Dirs : zero[i][d] <= zero'[i][d]
  <2>1. CASE zero' = wire
    BY <1>2, <2>1 DEF Wires
  <2>2. ASSUME NEW i \in Interfaces, zero' = [zero EXCEPT ![i] = wire[i]]
        PROVE  /\ Wires(wire, zero')
               /\ \A j \in Interfaces, d \in Dirs : zero[j][d] <= zero'[j][d]
    BY <1>2, <2>2 DEF Wires
  <2> QED
    BY <2>1, <2>2 DEF Reboot, Rollback
<1>4. ASSUME NEW s, NEW a, Sound(s, a, wire, zero, boot, resets)
      PROVE  Sound(s, a, wire, zero', boot', resets + 1)
  BY <1>1, <1>2, <1>3, <1>4, ResetSound
<1>5. Host'
  BY <1>1, <1>2, <1>3 DEF Host
<1>6. state # None => SoundNow(state, audit)'
  BY <1>1, <1>4 DEF AccountInv, Figures, SoundNow
<1>7. \A p \in Procs : pc[p] = "planned" /\ UNCHANGED job =>
        SoundNow(job[p].plan.state, job[p].plan.audit)'
  BY <1>1, <1>4 DEF AccountInv, Figures, SoundNow
<1> QED
  BY <1>1, <1>5, <1>6, <1>7, HostStep

LEMMA AccountRunning == AccountInv /\ Running => AccountInv'
<1> SUFFICES ASSUME AccountInv, Running PROVE AccountInv'
  OBVIOUS
<1>1. CASE TimerFires
  BY <1>1, LoadStep DEF TimerFires, Procs
<1>2. ASSUME NEW p \in Admins, AdminStarts(p) PROVE AccountInv'
  <2>1. ASSUME NEW target \in Targets, Load(p, "correct", target) PROVE AccountInv'
    BY <2>1, LoadStep DEF Procs
  <2>2. ASSUME NEW new \in Configs, Load(p, "commit", new) PROVE AccountInv'
    BY <2>2, LoadStep DEF Procs
  <2> QED
    BY <1>2, <2>1, <2>2 DEF AdminStarts
<1>3. ASSUME NEW p \in Procs, Step(p) PROVE AccountInv'
  <2>1. CASE Refuse(p)
    BY <2>1, LeaveStep DEF Refuse, files, host, AccountInv
  <2> QED
    BY <1>3, <2>1, AcquireStep, PlanStep, WriteStateStep, CommitSteps DEF Step
<1>4. ASSUME NEW p \in Procs, Dies(p) PROVE AccountInv'
  BY <1>4, LeaveStep DEF Dies, files, host, AccountInv
<1>5. CASE Tick
  BY <1>5 DEF Tick, files, AccountInv, Host, Jobs, Figures, SoundNow
<1>6. ASSUME NEW i \in Interfaces, Rollback(i) \/ \E d \in Dirs : Carry(i, d)
      PROVE  AccountInv'
  BY <1>6, ResetStep, CarryStep
<1> QED
  BY <1>1, <1>2, <1>3, <1>4, <1>5, <1>6 DEF Running

LEMMA AccountNext == AccountInv /\ [Next]_vars => AccountInv'
<1>1. AccountInv /\ UNCHANGED vars => AccountInv'
  BY DEF vars, AccountInv, Host, Jobs, Figures, SoundNow
<1> QED
  BY <1>1, AccountRunning, ResetStep DEF Next

LEMMA AccountNextAll == AccountInv /\ [NextAll]_allVars => AccountInv'
<1> SUFFICES ASSUME AccountInv, [NextAll]_allVars PROVE AccountInv'
  OBVIOUS
<1>1. CASE Running \/ Reboot \/ UNCHANGED vars
  BY <1>1, AccountNext DEF Next
<1>2. ASSUME NEW m \in Mailers,
             Check(m) \/ Deliver(m) \/ DeliverFails(m) \/ Record(m) \/ MailerDies(m)
      PROVE  AccountInv'
  <2>1. UNCHANGED <<config, state, pc, job, boot, wire, zero, audit, resets>>
    BY <1>2 DEF Check, CheckFor, Deliver, DeliverFails, Record, MailerDies, Undisturbed
  <2> QED
    BY <2>1 DEF AccountInv, Host, Jobs, Figures, SoundNow
<1> QED
  BY <1>1, <1>2 DEF NextAll, RebootAll, allVars

LEMMA Counted == AccountInv => CountsWhatWasCarried
<1> SUFFICES ASSUME AccountInv, state # None, NEW d \in Dirs
             PROVE  LET carried == wire[state.interface][d] - audit.mark[d]
                    IN  /\ Reported(state)[d] <= carried
                        /\ audit.gen = resets => Reported(state)[d] = Capped(carried)
  BY DEF CountsWhatWasCarried
<1>1. Host /\ SoundNow(state, audit)
  BY DEF AccountInv, Figures
<1>2. /\ Reported(state)[d] \in 0..Top /\ Top \in Nat
      /\ Reported(state)[d] + audit.mark[d] <= wire[state.interface][d]
      /\ audit.gen = resets =>
           Reported(state)[d] = Capped(wire[state.interface][d] - audit.mark[d])
  BY <1>1, ReportedFacts, AccountingAssumption
<1>3. /\ state.interface \in Interfaces /\ audit.mark[d] \in Int
      /\ wire[state.interface][d] \in Nat
  BY <1>1, CounterFacts DEF SoundNow, Sound, IsState, IsAudit
<1> QED
  BY <1>2, <1>3

LEMMA OnTop == AccountInv => TotalOnTopOfCorrection
<1> DEFINE fix == audit.fix
           i   == state.interface
           R   == Reported(state)
<1> SUFFICES ASSUME AccountInv, state # None, fix # None,
                    fix.kind = "total", fix.gen = resets, audit.gen = resets,
                    \A d \in Dirs : wire[i][d] - audit.mark[d] <= Top
             PROVE  Total(state) = Capped(Carried(i) - fix.mark)
  BY DEF TotalOnTopOfCorrection
<1>1. Host /\ SoundNow(state, audit) /\ Top \in Nat
  BY AccountingAssumption DEF AccountInv, Figures
<1>2. /\ i \in Interfaces /\ state.adjustment \in Int
      /\ audit.mark["rx"] \in Int /\ audit.mark["tx"] \in Int /\ fix.mark \in Int
      /\ wire[i]["rx"] \in Nat /\ wire[i]["tx"] \in Nat
  BY <1>1, CounterFacts DEF SoundNow, Sound, IsState, IsAudit, Dirs
<1>3. /\ state.adjustment = audit.mark["rx"] + audit.mark["tx"] - fix.mark
      /\ fix.mark <= wire[i]["rx"] + wire[i]["tx"]
  BY <1>1 DEF SoundNow, Sound, Adjusted
<1>4. /\ R["rx"] = wire[i]["rx"] - audit.mark["rx"]
      /\ R["tx"] = wire[i]["tx"] - audit.mark["tx"]
  <2>1. \A d \in Dirs : R[d] = Capped(wire[i][d] - audit.mark[d])
    BY <1>1, ReportedFacts
  <2>2. /\ wire[i]["rx"] - audit.mark["rx"] <= Top /\ wire[i]["tx"] - audit.mark["tx"] <= Top
        /\ R["rx"] = Capped(wire[i]["rx"] - audit.mark["rx"])
        /\ R["tx"] = Capped(wire[i]["tx"] - audit.mark["tx"])
    BY <2>1 DEF Dirs
  <2> QED
    BY <1>1, <1>2, <2>2 DEF Capped
<1>5. Total(state) = LET n == R["rx"] + R["tx"] + state.adjustment
                     IN  Capped(IF n < 0 THEN 0 ELSE n)
  BY DEF Total, CorrectedTotal
<1>6. /\ R["rx"] + R["tx"] + state.adjustment = Carried(i) - fix.mark
      /\ Carried(i) - fix.mark \in Nat
  BY <1>2, <1>3, <1>4 DEF Carried
<1> DEFINE n == R["rx"] + R["tx"] + state.adjustment
<1>7. (IF n < 0 THEN 0 ELSE n) = n
  BY <1>6
<1> QED
  BY <1>5, <1>6, <1>7

(* No byte is counted twice and until the next counter reset none is lost, *)
(* for any interleaving of the timer, corrections and configuration        *)
(* changes with traffic, reboots and deaths (accumulate, live_reported,    *)
(* plan_correction).                                                       *)
THEOREM NoByteCountedTwice == Spec => []CountsWhatWasCarried
<1> QED
  BY AccountInit, AccountNext, Counted, PTL DEF Spec

(* The total after a total-only correction is the corrected one and what   *)
(* was carried since, whatever the timer writes and however often it is    *)
(* corrected again (plan_correction; ADR-0016).                            *)
THEOREM CorrectedTotalGrowsWithTraffic == Spec => []TotalOnTopOfCorrection
<1> QED
  BY AccountInit, AccountNext, OnTop, PTL DEF Spec

(* Both hold with the mailers among the commands.                          *)
THEOREM ReportsLeaveTheFigures ==
  SpecAll => [](CountsWhatWasCarried /\ TotalOnTopOfCorrection)
<1> QED
  BY AccountInit, AccountNextAll, Counted, OnTop, PTL DEF SpecAll

-----------------------------------------------------------------------------
(***************************************************************************)
(* The reports.  How often an occasion may have been mailed is paid for by *)
(* the faults, and for a reminder by the configurations that were          *)
(* written; one copy is free.  An occasion that could become due again     *)
(* before something is paid has not used its free one (Settled).           *)
(***************************************************************************)
Kinds == {"daily", "reminder"}

Occasion(kind, k) == [kind |-> kind, key |-> k]

Occasions == [kind : Kinds, key : Int]

(* The occasion of a kind that could be due at an instant. *)
KeyAt(kind, t) == IF kind = "daily" THEN DayOf[t] ELSE Period[config.schedule][t].next

Copies(o) == IF o \in DOMAIN inbox THEN inbox[o] ELSE 0

(* Commands that may still write a configuration. *)
Pending == {p \in Procs : pc[p] \in {"loaded", "locked"} /\ job[p].op = "commit"}

Spent == commands - Cardinality(Pending)

Slack(kind) == faults + IF kind = "daily" THEN 0 ELSE Spent

Paid(kind, k) == Copies(Occasion(kind, k)) <= Slack(kind)

(* From now on only later occasions of the kind come up, except perhaps    *)
(* this one while it is the recorded one.                                  *)
Behind(kind, k) ==
  \A t \in Moments : t >= clock =>
    /\ k <= KeyAt(kind, t)
    /\ delivery[kind] # k => k < KeyAt(kind, t)

MailTypes ==
  /\ delivery \in [Kinds -> Int \cup {None}]
  /\ inbox \in [DOMAIN inbox -> Nat] /\ DOMAIN inbox \subseteq Occasions
  /\ letter = [m \in Mailers |-> letter[m]]
  /\ clock \in Moments /\ faults \in Nat /\ commands \in Nat

Budget == IsFiniteSet(Pending) /\ Cardinality(Pending) <= commands

Inside ==
  /\ \A p \in Procs : pc[p] \in {"locked", "planned", "tentative"} => lock = p
  /\ \A m \in Mailers : letter[m] # None => lock = m

RecordedWasMailed ==
  \A kind \in Kinds : delivery[kind] # None =>
    Occasion(kind, delivery[kind]) \in DOMAIN inbox

Bound == \A kind \in Kinds, k \in Int : Copies(Occasion(kind, k)) <= 1 + Slack(kind)

(* The letter of m has a copy of the occasion out that is not recorded.    *)
Out(m, o) == letter[m] # None /\ letter[m].mailed /\ o \in letter[m].occasions

Settled ==
  \A kind \in Kinds, k \in Int :
    Behind(kind, k) \/ (\E m \in Mailers : Out(m, Occasion(kind, k))) \/ Paid(kind, k)

(* A letter was written at some instant, of what could be due then.        *)
LetterFits(m) ==
  LET l == letter[m] IN
  /\ l = [occasions |-> l.occasions, mailed |-> l.mailed] /\ l.mailed \in BOOLEAN
  /\ \E t \in Moments :
       /\ t <= clock
       /\ \A o \in l.occasions :
            /\ o.kind \in Kinds /\ o = Occasion(o.kind, KeyAt(o.kind, t))
            /\ \A k \in Int : k > o.key \/ (k = o.key /\ ~l.mailed) => Paid(o.kind, k)
  /\ l.mailed => l.occasions \subseteq DOMAIN inbox

Letters == \A m \in Mailers : letter[m] # None => LetterFits(m)

(* The configuration a command has written for now is paid for. *)
TentativeIsPaid ==
  \A p \in Procs : pc[p] = "tentative" => \A k \in Int : Paid("reminder", k)

MailInv ==
  /\ MailTypes /\ Budget /\ Inside /\ RecordedWasMailed /\ Bound /\ Settled
  /\ Letters /\ TentativeIsPaid

(* The clock stands at one of the instants. *)
LEMMA MinIsElement ==
  ASSUME NEW S \in SUBSET Nat, S # {}
  PROVE  Min(S) \in S /\ \A x \in S : Min(S) <= x
<1> DEFINE R == StrictSubsetOrdering(Nat)
           F == FiniteSubsetsOf(Nat)
           T == {1..x : x \in S}
<1>1. \A x \in S : IsFiniteSet(1..x)
  BY FS_Interval
<1>2. T \subseteq F /\ T # {}
  <2>1. \A x \in S : 1..x \in SUBSET Nat
    OBVIOUS
  <2>2. \A x \in S : 1..x \in F
    BY <1>1, <2>1 DEF FiniteSubsetsOf
  <2> QED
    BY <2>2
<1>3. IsWellFoundedOn(R, F)
  BY FS_StrictSubsetOrderingWellFounded
<1>4. \A a \in T, b \in T : a \subseteq b /\ a # b => <<a, b>> \in R
  BY DEF StrictSubsetOrdering
<1>5. \E b \in T : \A a \in T : ~(<<a, b>> \in R)
  <2> HIDE DEF R, F, T
  <2> QED
    BY <1>2, <1>3, WFMin
<1>6. PICK x \in S : \A y \in S : ~(<<1..y, 1..x>> \in R)
  BY <1>5
<1>7. ASSUME NEW y \in S, y < x  PROVE FALSE
  <2>1. 1..y \subseteq 1..x /\ x \in 1..x /\ x \notin 1..y
    BY <1>7
  <2> QED
    BY <2>1, <1>4, <1>6
<1>8. \E m \in S : \A y \in S : m <= y
  BY <1>7
<1> QED
  BY <1>8 DEF Min

LEMMA KeyFacts ==
  ASSUME config \in Configs, NEW kind \in Kinds, NEW t \in Moments
  PROVE  /\ KeyAt(kind, t) \in Int /\ t \in Nat
         /\ \A u \in Moments : t <= u => KeyAt(kind, t) <= KeyAt(kind, u)
BY ForwardAssumption, AccountingAssumption DEF KeyAt, Configs

(* What the commands of an administrator may cost.                         *)
LEMMA BudgetStarts ==
  ASSUME Budget, commands \in Nat, commands' = commands + 1, NEW p, Pending' \subseteq Pending \cup {p}
  PROVE  Budget' /\ Spent' >= Spent /\ Spent \in Nat
<1>1. /\ IsFiniteSet(Pending \cup {p}) /\ Cardinality(Pending) \in Nat
      /\ Cardinality(Pending \cup {p}) <= Cardinality(Pending) + 1
      /\ Cardinality(Pending \cup {p}) \in Nat
  BY FS_AddElement, FS_CardinalityType DEF Budget
<1>2. /\ IsFiniteSet(Pending') /\ Cardinality(Pending') <= Cardinality(Pending \cup {p})
      /\ Cardinality(Pending') \in Nat
  BY <1>1, FS_Subset, FS_CardinalityType
<1> QED
  BY <1>1, <1>2 DEF Budget, Spent

LEMMA BudgetKept ==
  ASSUME Budget, commands \in Nat, commands' = commands, Pending' \subseteq Pending
  PROVE  /\ Budget' /\ Spent' >= Spent /\ Spent \in Nat
         /\ \A p \in Pending : p \notin Pending' => Spent' >= Spent + 1
<1>1. Cardinality(Pending) \in Nat
  BY FS_CardinalityType DEF Budget
<1>2. /\ IsFiniteSet(Pending') /\ Cardinality(Pending') <= Cardinality(Pending)
      /\ Cardinality(Pending') \in Nat
      /\ Cardinality(Pending) = Cardinality(Pending') => Pending = Pending'
  BY FS_Subset, FS_CardinalityType DEF Budget
<1> QED
  BY <1>1, <1>2 DEF Budget, Spent

(* What is counted is a number.                                            *)
LEMMA Amounts ==
  MailTypes /\ Budget =>
    /\ Spent \in Nat /\ faults \in Nat /\ Spent <= commands
    /\ \A kind \in Kinds : Slack(kind) \in Nat
    /\ \A kind \in Kinds, k \in Int : Copies(Occasion(kind, k)) \in Nat
<1> SUFFICES ASSUME MailTypes, Budget
             PROVE  /\ Spent \in Nat /\ faults \in Nat /\ Spent <= commands
                    /\ \A kind \in Kinds : Slack(kind) \in Nat
                    /\ \A kind \in Kinds, k \in Int : Copies(Occasion(kind, k)) \in Nat
  OBVIOUS
<1>1. Cardinality(Pending) \in Nat
  BY FS_CardinalityType DEF Budget
<1>2. Spent \in Nat /\ faults \in Nat /\ Spent <= commands
  BY <1>1 DEF Budget, MailTypes, Spent
<1>3. \A o : Copies(o) \in Nat
  BY DEF Copies, MailTypes
<1> QED
  BY <1>2, <1>3 DEF Slack

LEMMA AmountsNext ==
  (MailTypes /\ Budget =>
    /\ Spent \in Nat /\ faults \in Nat /\ Spent <= commands
    /\ \A kind \in Kinds : Slack(kind) \in Nat
    /\ \A kind \in Kinds, k \in Int : Copies(Occasion(kind, k)) \in Nat)'
<1> QED
  BY Amounts, PTL

(* Whatever is paid for stays so, while nothing is mailed.                 *)
LEMMA PaidStays ==
  ASSUME MailTypes, Budget, MailTypes', Budget', inbox' = inbox,
         faults' >= faults, Spent' >= Spent
  PROVE  \A kind \in Kinds, k \in Int :
           /\ Paid(kind, k) => Paid(kind, k)'
           /\ Slack(kind)' >= Slack(kind)
           /\ Copies(Occasion(kind, k))' = Copies(Occasion(kind, k))
<1>1. \A kind \in Kinds : Slack(kind)' >= Slack(kind)
  BY Amounts, AmountsNext DEF Slack
<1>2. \A o : Copies(o)' = Copies(o)
  BY DEF Copies
<1>3. \A kind \in Kinds, k \in Int : Copies(Occasion(kind, k)) \in Nat
  BY Amounts
<1>4. \A kind \in Kinds : Slack(kind) \in Nat /\ Slack(kind)' \in Nat
  BY Amounts, AmountsNext
<1> QED
  BY <1>1, <1>2, <1>3, <1>4 DEF Paid

(* A step that neither mails nor records nor changes the configuration.    *)
LEMMA QuietStep ==
  ASSUME MailInv, config' = config, UNCHANGED post,
         clock' \in Moments, clock' >= clock, faults' \in Nat, commands' \in Nat,
         faults' >= faults, Spent' >= Spent, Budget', Inside',
         \A p \in Procs : pc'[p] = "tentative" => pc[p] = "tentative"
  PROVE  MailInv'
<1>1. /\ MailTypes /\ Budget /\ RecordedWasMailed /\ Bound /\ Settled
      /\ Letters /\ TentativeIsPaid
  BY DEF MailInv
<1>2. UNCHANGED <<delivery, letter, inbox>>
  BY DEF post
<1>3. MailTypes'
  BY <1>1, <1>2 DEF MailTypes
<1>4. \A kind \in Kinds, k \in Int :
        /\ Paid(kind, k) => Paid(kind, k)'
        /\ Slack(kind)' >= Slack(kind)
        /\ Copies(Occasion(kind, k))' = Copies(Occasion(kind, k))
  BY <1>1, <1>2, <1>3, PaidStays
<1>5. Moments \subseteq Nat /\ clock \in Nat /\ clock' \in Nat
  BY <1>1, AccountingAssumption DEF MailTypes
<1>6. \A kind \in Kinds, k \in Int : Behind(kind, k) => Behind(kind, k)'
  <2>1. \A t \in Moments : t >= clock' => t >= clock
    BY <1>5
  <2>2. \A kind, t : KeyAt(kind, t)' = KeyAt(kind, t)
    BY DEF KeyAt
  <2> QED
    BY <1>2, <2>1, <2>2 DEF Behind
<1>7. Settled'
  BY <1>1, <1>2, <1>4, <1>6 DEF Settled, Out
<1>8. Letters'
  <2>1. ASSUME NEW m \in Mailers, LetterFits(m) PROVE LetterFits(m)'
    <3>1. \A t \in Moments : t <= clock => t <= clock'
      BY <1>5
    <3>2. \A o, k : o.kind \in Kinds /\ k \in Int /\ Paid(o.kind, k) => Paid(o.kind, k)'
      BY <1>4
    <3> QED
      BY <1>2, <2>1, <3>1, <3>2 DEF LetterFits, KeyAt
  <2> QED
    BY <1>1, <1>2, <2>1 DEF Letters
<1>9. Bound'
  BY <1>1, <1>3, <1>4, Amounts, AmountsNext DEF Bound
<1>10. TentativeIsPaid'
  <2>1. "reminder" \in Kinds
    BY DEF Kinds
  <2> QED
    BY <1>1, <1>4, <2>1 DEF TentativeIsPaid
<1>11. RecordedWasMailed'
  BY <1>1, <1>2 DEF RecordedWasMailed
<1> QED
  BY <1>3, <1>7, <1>8, <1>9, <1>10, <1>11 DEF MailInv

(* A fault pays for every occasion there is.                               *)
LEMMA FaultStep ==
  ASSUME MailInv, config' = config, UNCHANGED <<clock, delivery, commands>>, Fault,
         Spent' >= Spent, Budget', Inside',
         inbox' \in [DOMAIN inbox' -> Nat], DOMAIN inbox' \subseteq Occasions,
         DOMAIN inbox \subseteq DOMAIN inbox',
         letter' = [m \in Mailers |-> letter'[m]],
         \A m \in Mailers : letter'[m] \in {None, letter[m]},
         \A kind \in Kinds, k \in Int :
           \/ Copies(Occasion(kind, k))' = Copies(Occasion(kind, k))
           \/ /\ Copies(Occasion(kind, k))' = Copies(Occasion(kind, k)) + 1
              /\ Paid(kind, k)
  PROVE  MailInv'
<1>1. MailTypes /\ Budget /\ Bound /\ RecordedWasMailed /\ Letters
  BY DEF MailInv
<1>2. faults' = faults + 1 /\ MailTypes'
  BY <1>1 DEF MailTypes, Fault
<1>3. \A kind \in Kinds : /\ Slack(kind)' >= Slack(kind) + 1
                          /\ Slack(kind) \in Nat /\ Slack(kind)' \in Nat
  BY <1>1, <1>2, Amounts, AmountsNext DEF Slack
<1>4. \A kind \in Kinds, k \in Int :
        /\ Copies(Occasion(kind, k)) \in Nat
        /\ Copies(Occasion(kind, k)) <= 1 + Slack(kind)
        /\ Paid(kind, k) => Copies(Occasion(kind, k)) <= Slack(kind)
  BY <1>1, Amounts DEF Bound, Paid
<1>5. \A kind \in Kinds, k \in Int :
        /\ Copies(Occasion(kind, k))' <= Slack(kind)'
        /\ Copies(Occasion(kind, k))' \in Nat
  BY <1>3, <1>4
<1>6. \A kind \in Kinds, k \in Int : Paid(kind, k)'
  BY <1>5 DEF Paid
<1>7. Bound'
  BY <1>3, <1>5 DEF Bound
<1>8. Letters'
  <2>1. ASSUME NEW m \in Mailers, LetterFits(m), letter'[m] = letter[m] PROVE LetterFits(m)'
    <3>1. \A o, k : o.kind \in Kinds /\ k \in Int => Paid(o.kind, k)'
      BY <1>6
    <3> QED
      BY <2>1, <3>1 DEF LetterFits, KeyAt
  <2> QED
    BY <1>1, <2>1 DEF Letters
<1>9. TentativeIsPaid'
  BY <1>6 DEF TentativeIsPaid, Kinds
<1>10. Settled'
  BY <1>6 DEF Settled
<1>11. RecordedWasMailed'
  BY <1>1 DEF RecordedWasMailed
<1> QED
  BY <1>2, <1>7, <1>8, <1>9, <1>10, <1>11 DEF MailInv

(* A configuration is written, or put back, when every reminder is paid for. *)
LEMMA ConfigStep ==
  ASSUME MailInv, UNCHANGED post, UNCHANGED <<clock, commands, faults>>,
         Spent' >= Spent, Budget', Inside',
         \A m \in Mailers : letter[m] = None,
         \A k \in Int : Paid("reminder", k)'
  PROVE  MailInv'
<1>1. MailTypes /\ Budget /\ RecordedWasMailed /\ Bound /\ Settled
  BY DEF MailInv
<1>2. UNCHANGED <<delivery, letter, inbox>>
  BY DEF post
<1>3. MailTypes'
  BY <1>1, <1>2 DEF MailTypes
<1>4. \A kind \in Kinds, k \in Int :
        /\ Paid(kind, k) => Paid(kind, k)'
        /\ Slack(kind)' >= Slack(kind)
        /\ Copies(Occasion(kind, k))' = Copies(Occasion(kind, k))
  <2>1. faults' >= faults
    BY <1>1 DEF MailTypes
  <2> QED
    BY <1>1, <1>2, <1>3, <2>1, PaidStays
<1>5. \A k \in Int : Behind("daily", k) => Behind("daily", k)'
  BY <1>2 DEF Behind, KeyAt
<1>6. Settled'
  BY <1>1, <1>2, <1>4, <1>5 DEF Settled, Out, Kinds
<1>7. Bound'
  BY <1>1, <1>3, <1>4, Amounts, AmountsNext DEF Bound
<1>8. Letters' /\ TentativeIsPaid' /\ RecordedWasMailed'
  BY <1>1, <1>2 DEF Letters, TentativeIsPaid, RecordedWasMailed
<1> QED
  BY <1>3, <1>6, <1>7, <1>8 DEF MailInv

-----------------------------------------------------------------------------
(***************************************************************************)
(* The steps of the commands and of the host.                              *)
(***************************************************************************)
LEMMA MailInit == Init /\ InitPost => MailInv
<1> SUFFICES ASSUME Init, InitPost PROVE MailInv
  OBVIOUS
<1>1. clock \in Moments
  BY MinIsElement, AccountingAssumption DEF Init
<1>2. DOMAIN inbox = {} /\ \A m \in Mailers : letter[m] = None
  BY DEF InitPost, EmptyBag, SetToBag
<1>3. pc = [p \in Procs |-> "idle"] /\ commands = 0 /\ faults = 0
  BY DEF Init
<1>4. Pending = {}
  BY <1>3 DEF Pending
<1>5. Budget
  BY <1>3, <1>4, FS_EmptySet DEF Budget
<1>6. MailTypes
  BY <1>1, <1>2, <1>3 DEF MailTypes, InitPost, Kinds
<1>7. \A kind \in Kinds, k \in Int : Paid(kind, k) /\ Copies(Occasion(kind, k)) = 0
  BY <1>2, <1>5, <1>6, Amounts DEF Paid, Copies
<1>8. Bound /\ Settled
  BY <1>5, <1>6, <1>7, Amounts DEF Bound, Settled
<1>9. RecordedWasMailed /\ Letters /\ TentativeIsPaid /\ Inside
  BY <1>2, <1>3 DEF RecordedWasMailed, InitPost, Kinds, Letters, TentativeIsPaid, Inside
<1> QED
  BY <1>5, <1>6, <1>8, <1>9 DEF MailInv

(* Commands that are not about to write a configuration. *)
LEMMA PendingShrinks ==
  ASSUME NEW p \in Procs,
         \A q \in Procs : q # p => pc'[q] = pc[q] /\ job'[q] = job[q],
         pc'[p] \in {"loaded", "locked"} /\ job'[p].op = "commit" =>
           pc[p] \in {"loaded", "locked"} /\ job[p].op = "commit"
  PROVE  Pending' \subseteq Pending
BY DEF Pending

LEMMA OthersStay ==
  ASSUME AccountInv, NEW p \in Procs, NEW where, Goto(p, where),
         job' = job \/ \E j : job' = [job EXCEPT ![p] = j]
  PROVE  /\ pc'[p] = where
         /\ \A q \in Procs : q # p => pc'[q] = pc[q] /\ job'[q] = job[q]
<1>1. pc \in [Procs -> {"idle", "loaded", "locked", "planned", "tentative"}]
  BY DEF AccountInv
<1>2. job = [q \in Procs |-> job[q]]
  BY DEF AccountInv, Jobs
<1> QED
  BY <1>1, <1>2 DEF Goto

(* No mailer holds the lock, and no command but p.                         *)
LEMMA LeaveInside ==
  ASSUME AccountInv, Inside, NEW p \in Procs, Leave(p), UNCHANGED post
  PROVE  Inside'
<1>1. /\ pc'[p] = "idle" /\ \A q \in Procs : q # p => pc'[q] = pc[q]
      /\ lock' = IF lock = p THEN None ELSE lock
  BY OthersStay DEF Leave
<1>2. \A m \in Mailers : m # p
  BY ReportsAssumption
<1> QED
  BY <1>1, <1>2 DEF Inside, post

LEMMA StartMails ==
  ASSUME AccountInv, MailInv, NEW p \in Procs, NEW op, NEW want, Load(p, op, want),
         commands' \in {commands, commands + 1},
         op = "commit" => commands' = commands + 1, UNCHANGED post
  PROVE  MailInv'
<1> DEFINE j == [op |-> op, cfg |-> config, want |-> want, key |-> None, plan |-> None]
<1>1. /\ UNCHANGED <<config, clock, lock, faults>> /\ pc[p] = "idle"
      /\ job' = [job EXCEPT ![p] = j] /\ Goto(p, "loaded")
  BY DEF Load, files, host
<1>2. /\ pc'[p] = "loaded" /\ job'[p].op = op
      /\ \A q \in Procs : q # p => pc'[q] = pc[q] /\ job'[q] = job[q]
  BY <1>1, OthersStay DEF AccountInv, Jobs
<1>3. MailTypes /\ Budget /\ Inside
  BY DEF MailInv
<1>4. clock \in Nat /\ faults \in Nat /\ commands \in Nat /\ commands' \in Nat
  BY <1>3, AccountingAssumption DEF MailTypes
<1>5. Budget' /\ Spent' >= Spent
  <2>1. CASE commands' = commands + 1
    <3>1. Pending' \subseteq Pending \cup {p}
      BY <1>2 DEF Pending
    <3> QED
      BY <1>3, <1>4, <2>1, <3>1, BudgetStarts
  <2>2. CASE commands' = commands /\ commands' # commands + 1
    <3>1. Pending' \subseteq Pending
      BY <1>2, <2>2, PendingShrinks
    <3> QED
      BY <1>3, <1>4, <2>2, <3>1, BudgetKept
  <2> QED
    BY <1>4, <2>1, <2>2
<1>6. Inside'
  BY <1>1, <1>2, <1>3 DEF Inside, post
<1> QED
  BY <1>1, <1>2, <1>3, <1>4, <1>5, <1>6, QuietStep DEF MailTypes

(* A step of a command with the configuration left alone.                  *)
LEMMA OwnMails ==
  ASSUME AccountInv, MailInv, NEW p \in Procs, NEW where, Goto(p, where),
         where # "tentative",
         job' = job \/ \E j : job' = [job EXCEPT ![p] = j],
         where \in {"loaded", "locked"} /\ job'[p].op = "commit" =>
           pc[p] \in {"loaded", "locked"} /\ job[p].op = "commit",
         UNCHANGED post, UNCHANGED <<config, clock, commands, faults>>, Inside'
  PROVE  MailInv'
<1>1. /\ pc'[p] = where
      /\ \A q \in Procs : q # p => pc'[q] = pc[q] /\ job'[q] = job[q]
  BY OthersStay
<1>2. MailTypes /\ Budget
  BY DEF MailInv
<1>3. clock \in Nat /\ faults \in Nat /\ commands \in Nat
  BY <1>2, AccountingAssumption DEF MailTypes
<1>4. Pending' \subseteq Pending
  BY <1>1, PendingShrinks
<1>5. Budget' /\ Spent' >= Spent
  BY <1>2, <1>3, <1>4, BudgetKept
<1>6. \A q \in Procs : pc'[q] = "tentative" => pc[q] = "tentative"
  BY <1>1
<1> QED
  BY <1>2, <1>3, <1>5, <1>6, QuietStep DEF MailTypes

LEMMA StepMails ==
  ASSUME AccountInv, MailInv, UNCHANGED post, NEW p \in Procs, Step(p)
  PROVE  MailInv'
<1>1. MailTypes /\ Budget /\ Inside /\ TentativeIsPaid
  BY DEF MailInv
<1>2. job = [q \in Procs |-> job[q]] /\ \A m \in Mailers : m # p
  BY ReportsAssumption DEF AccountInv, Jobs
<1>3. clock \in Nat /\ faults \in Nat /\ commands \in Nat
  BY <1>1, AccountingAssumption DEF MailTypes
<1>4. CASE Acquire(p)
  <2> DEFINE j == [job[p] EXCEPT !.key = CycleKey(job[p].cfg, clock)]
             where == "locked"
  <2>1. /\ job' = [job EXCEPT ![p] = j] /\ Goto(p, where) /\ where # "tentative"
        /\ pc[p] = "loaded" /\ lock = None /\ lock' = p
        /\ UNCHANGED <<config, clock, commands, faults>>
    BY <1>4 DEF Acquire, files, host
  <2>2. job'[p].op = "commit" => pc[p] \in {"loaded", "locked"} /\ job[p].op = "commit"
    <3>1. job'[p] = j /\ IsJob(job[p])
      BY <1>2, <2>1, Working
    <3> QED
      BY <2>1, <3>1 DEF IsJob
  <2>3. Inside'
    <3>1. /\ pc'[p] = where
          /\ \A q \in Procs : q # p => pc'[q] = pc[q] /\ job'[q] = job[q]
      <4> HIDE DEF j, where
      <4> QED
        BY <2>1, OthersStay
    <3>2. None \notin Procs /\ \A m \in Mailers : m # None
      BY AccountingAssumption, ReportsAssumption
    <3> QED
      BY <1>1, <2>1, <3>1, <3>2 DEF Inside, post
  <2> HIDE DEF j, where
  <2> QED
    BY <2>1, <2>2, <2>3, OwnMails
<1>5. CASE Plan(p)
  <2> DEFINE where == "planned"
  <2>1. /\ \E j : job' = [job EXCEPT ![p] = j]
        /\ Goto(p, where) /\ where \notin {"tentative", "loaded", "locked"}
        /\ pc[p] = "locked"
        /\ UNCHANGED <<config, clock, lock, commands, faults>>
    BY <1>5 DEF Plan, files, host
  <2>2. Inside'
    <3>1. \A q \in Procs : q # p => pc'[q] = pc[q] /\ job'[q] = job[q]
      <4> HIDE DEF where
      <4> QED
        BY <2>1, OthersStay
    <3> QED
      BY <1>1, <2>1, <3>1 DEF Inside, post
  <2> HIDE DEF where
  <2> QED
    BY <2>1, <2>2, OwnMails
<1>6. CASE Refuse(p) \/ WriteState(p)
  <2> DEFINE where == "idle"
  <2>1. /\ \E j : job' = [job EXCEPT ![p] = j]
        /\ Goto(p, where) /\ where \notin {"tentative", "loaded", "locked"}
        /\ Leave(p)
        /\ UNCHANGED <<config, clock, commands, faults>>
    BY <1>6 DEF Refuse, WriteState, Leave, files, host
  <2>2. Inside'
    BY <1>1, <2>1, LeaveInside
  <2> HIDE DEF where
  <2> QED
    BY <2>1, <2>2, OwnMails
<1>7. CASE Activated(p) /\ ScheduleChanged(job[p].cfg, job[p].want)
  <2> DEFINE j == [job[p] EXCEPT !.op = "reset", !.cfg = job[p].want,
                                 !.key = CycleKey(job[p].want, clock)]
             where == "locked"
  <2>1. /\ job' = [job EXCEPT ![p] = j] /\ Goto(p, where) /\ where # "tentative"
        /\ pc[p] = "tentative" /\ UNCHANGED <<config, clock, lock, commands, faults>>
    BY <1>7 DEF Activated, files, host
  <2>2. job'[p].op # "commit"
    <3>1. job'[p] = j /\ IsJob(job[p])
      BY <1>2, <2>1, Working
    <3> QED
      BY <3>1 DEF IsJob
  <2>3. Inside'
    <3>1. \A q \in Procs : q # p => pc'[q] = pc[q] /\ job'[q] = job[q]
      <4> HIDE DEF j, where
      <4> QED
        BY <2>1, OthersStay
    <3> QED
      BY <1>1, <2>1, <3>1 DEF Inside, post
  <2> HIDE DEF j, where
  <2> QED
    BY <2>1, <2>2, <2>3, OwnMails
<1>8. CASE Activated(p) /\ ~ScheduleChanged(job[p].cfg, job[p].want)
  <2> DEFINE where == "idle"
  <2>1. /\ \E j : job' = [job EXCEPT ![p] = j]
        /\ Goto(p, where) /\ where \notin {"tentative", "loaded", "locked"}
        /\ Leave(p)
        /\ UNCHANGED <<config, clock, commands, faults>>
    BY <1>8 DEF Activated, Leave, files, host
  <2>2. Inside'
    BY <1>1, <2>1, LeaveInside
  <2> HIDE DEF where
  <2> QED
    BY <2>1, <2>2, OwnMails
<1>9. CASE WriteConfig(p)
  <2> DEFINE where == "tentative"
  <2>1. /\ UNCHANGED <<clock, commands, faults, lock, job>> /\ pc[p] = "locked"
        /\ Goto(p, where) /\ job[p].op = "commit"
    BY <1>9 DEF WriteConfig, host
  <2>2. pc'[p] = where /\ \A q \in Procs : q # p => pc'[q] = pc[q] /\ job'[q] = job[q]
    <3> HIDE DEF where
    <3> QED
      BY <2>1, OthersStay
  <2>3. Pending' \subseteq Pending /\ p \in Pending /\ p \notin Pending'
    BY <2>1, <2>2, PendingShrinks DEF Pending
  <2>4. Budget' /\ Spent' >= Spent + 1 /\ Spent \in Nat
    BY <1>1, <1>3, <2>1, <2>3, BudgetKept
  <2>5. Inside' /\ lock = p
    BY <1>1, <2>1, <2>2 DEF Inside, post
  <2>6. \A m \in Mailers : letter[m] = None
    BY <1>1, <1>2, <2>5 DEF Inside
  <2>7. ASSUME NEW k \in Int PROVE Paid("reminder", k)'
    <3> DEFINE kind == "reminder"
    <3>1. kind \in Kinds /\ Bound
      BY DEF Kinds, MailInv
    <3>2. Slack(kind)' >= Slack(kind) + 1
      <4>1. Spent' \in Nat
        BY <1>1, <2>1, <2>4, AmountsNext DEF MailTypes, post
      <4>2. Slack(kind) = faults + Spent /\ Slack(kind)' = faults + Spent'
        BY <2>1 DEF Slack
      <4> QED
        BY <1>3, <2>4, <4>1, <4>2
    <3>3. Copies(Occasion(kind, k))' = Copies(Occasion(kind, k))
      BY DEF Copies, post
    <3>4. MailTypes'
      BY <1>1, <2>1 DEF MailTypes, post
    <3>5. Slack(kind) \in Nat /\ Slack(kind)' \in Nat /\ Copies(Occasion(kind, k)) \in Nat
      BY <1>1, <2>4, <3>1, <3>4, Amounts, AmountsNext
    <3>6. Copies(Occasion(kind, k)) <= 1 + Slack(kind)
      BY <3>1 DEF Bound
    <3>7. Copies(Occasion(kind, k))' <= Slack(kind)'
      BY <3>2, <3>3, <3>5, <3>6
    <3> QED
      BY <3>7 DEF Paid
  <2>8. Spent' >= Spent
    <3>1. Spent' \in Nat
      BY <1>1, <2>1, <2>4, AmountsNext DEF MailTypes, post
    <3> QED
      BY <2>4, <3>1
  <2> QED
    BY <2>1, <2>4, <2>5, <2>6, <2>7, <2>8, ConfigStep
<1>10. CASE ActivationFails(p)
  <2> DEFINE where == "idle"
  <2>1. /\ UNCHANGED <<clock, commands, faults>> /\ pc[p] = "tentative"
        /\ Goto(p, where) /\ Leave(p) /\ \E j : job' = [job EXCEPT ![p] = j]
    BY <1>10 DEF ActivationFails, Leave, host
  <2>2. pc'[p] = where /\ \A q \in Procs : q # p => pc'[q] = pc[q] /\ job'[q] = job[q]
    <3> HIDE DEF where
    <3> QED
      BY <2>1, OthersStay
  <2>3. Pending' \subseteq Pending
    BY <2>2, PendingShrinks
  <2>4. Budget' /\ Spent' >= Spent /\ MailTypes'
    BY <1>1, <1>3, <2>1, <2>3, BudgetKept DEF MailTypes, post
  <2>5. Inside' /\ lock = p
    BY <1>1, <2>1, LeaveInside DEF Inside
  <2>6. \A m \in Mailers : letter[m] = None
    BY <1>1, <1>2, <2>5 DEF Inside
  <2>7. \A k \in Int : Paid("reminder", k)'
    <3> DEFINE kind == "reminder"
    <3>1. kind \in Kinds /\ \A k \in Int : Paid(kind, k)
      BY <1>1, <2>1 DEF Kinds, TentativeIsPaid
    <3>2. inbox' = inbox /\ faults' >= faults
      BY <1>3, <2>1 DEF post
    <3> HIDE DEF kind
    <3>3. \A k \in Int : Paid(kind, k)'
      BY <1>1, <2>4, <3>1, <3>2, PaidStays
    <3> QED
      BY <3>3 DEF kind
  <2> QED
    BY <2>1, <2>4, <2>5, <2>6, <2>7, ConfigStep
<1> QED
  BY <1>4, <1>5, <1>6, <1>7, <1>8, <1>9, <1>10 DEF Step

LEMMA DiesMails ==
  ASSUME AccountInv, MailInv, UNCHANGED post, NEW p \in Procs, Dies(p)
  PROVE  MailInv'
<1> DEFINE where == "idle"
<1>1. /\ UNCHANGED <<config, clock, commands>> /\ Fault /\ Leave(p)
      /\ Goto(p, where) /\ \E j : job' = [job EXCEPT ![p] = j]
  BY DEF Dies, Leave, files, host
<1>2. MailTypes /\ Budget /\ Inside
  BY DEF MailInv
<1>3. pc'[p] = where /\ \A q \in Procs : q # p => pc'[q] = pc[q] /\ job'[q] = job[q]
  <2> HIDE DEF where
  <2> QED
    BY <1>1, OthersStay
<1>4. Pending' \subseteq Pending
  BY <1>3, PendingShrinks
<1>5. Budget' /\ Spent' >= Spent /\ Inside'
  BY <1>1, <1>2, <1>4, BudgetKept, LeaveInside DEF MailTypes
<1>6. UNCHANGED <<delivery, letter, inbox>>
  BY DEF post
<1>7. \A o : Copies(o)' = Copies(o)
  BY <1>6 DEF Copies
<1>8. /\ inbox' \in [DOMAIN inbox' -> Nat] /\ DOMAIN inbox' \subseteq Occasions
      /\ DOMAIN inbox \subseteq DOMAIN inbox'
      /\ letter' = [m \in Mailers |-> letter'[m]]
      /\ \A m \in Mailers : letter'[m] \in {None, letter[m]}
  BY <1>2, <1>6 DEF MailTypes
<1> QED
  BY <1>1, <1>5, <1>6, <1>7, <1>8, FaultStep

(* The host: traffic, time, counters that start over.                      *)
LEMMA HostMails ==
  ASSUME AccountInv, MailInv, UNCHANGED post,
         \/ Tick
         \/ \E i \in Interfaces : Rollback(i) \/ \E d \in Dirs : Carry(i, d)
  PROVE  MailInv'
<1>1. MailTypes /\ Budget /\ Inside
  BY DEF MailInv
<1>2. UNCHANGED <<config, pc, job, lock, commands>>
  BY DEF Tick, Rollback, Carry, files
<1>3. Pending' = Pending /\ UNCHANGED <<delivery, letter, inbox>>
  BY <1>2 DEF Pending, post
<1>4. /\ clock \in Nat /\ faults \in Nat /\ commands \in Nat /\ commands' = commands
      /\ Moments \subseteq Nat /\ Pending' \subseteq Pending
  BY <1>1, <1>2, <1>3, AccountingAssumption DEF MailTypes
<1>5. Budget' /\ Spent' >= Spent
  BY <1>1, <1>4, BudgetKept
<1>6. Inside'
  BY <1>1, <1>2, <1>3 DEF Inside
<1>7. CASE UNCHANGED faults
  <2>1. clock' \in Moments /\ clock' >= clock
    <3>1. CASE Tick
      <4> DEFINE later == {t \in Moments : t > clock}
      <4>1. later \in SUBSET Nat /\ later # {} /\ clock' = Min(later)
        BY <1>4, <3>1 DEF Tick
      <4>2. clock' \in later
        <5> HIDE DEF later
        <5> QED
          BY <4>1, MinIsElement
      <4> QED
        BY <1>4, <4>2
    <3>2. CASE UNCHANGED clock
      BY <1>1, <1>4, <3>2 DEF MailTypes
    <3> QED
      BY <3>1, <3>2 DEF Rollback, Carry
  <2> QED
    BY <1>2, <1>4, <1>5, <1>6, <1>7, <2>1, QuietStep
<1>8. CASE Fault /\ UNCHANGED clock
  <2>1. \A o : Copies(o)' = Copies(o)
    BY <1>3 DEF Copies
  <2>2. /\ inbox' \in [DOMAIN inbox' -> Nat] /\ DOMAIN inbox' \subseteq Occasions
        /\ DOMAIN inbox \subseteq DOMAIN inbox'
        /\ letter' = [m \in Mailers |-> letter'[m]]
        /\ \A m \in Mailers : letter'[m] \in {None, letter[m]}
    BY <1>1, <1>3 DEF MailTypes
  <2> QED
    BY <1>2, <1>3, <1>5, <1>6, <1>8, <2>1, <2>2, FaultStep
<1> QED
  BY <1>7, <1>8 DEF Tick, Rollback, Carry

LEMMA RebootMails ==
  ASSUME AccountInv, MailInv, RebootAll
  PROVE  MailInv'
<1>1. /\ UNCHANGED <<config, clock, commands, delivery, inbox>> /\ Fault
      /\ pc' = [p \in Procs |-> "idle"] /\ letter' = [m \in Mailers |-> None]
  BY DEF RebootAll, Reboot, files
<1>2. MailTypes /\ Budget
  BY DEF MailInv
<1>3. Pending' = {}
  BY <1>1 DEF Pending
<1>4. Budget' /\ Spent' >= Spent /\ Inside'
  <2>1. Pending' \subseteq Pending
    BY <1>3
  <2> QED
    BY <1>1, <1>2, <2>1, BudgetKept DEF MailTypes, Inside
<1>5. \A o : Copies(o)' = Copies(o)
  BY <1>1 DEF Copies
<1>6. /\ inbox' \in [DOMAIN inbox' -> Nat] /\ DOMAIN inbox' \subseteq Occasions
      /\ DOMAIN inbox \subseteq DOMAIN inbox'
      /\ letter' = [m \in Mailers |-> letter'[m]]
      /\ \A m \in Mailers : letter'[m] \in {None, letter[m]}
  BY <1>1, <1>2 DEF MailTypes
<1> QED
  BY <1>1, <1>4, <1>5, <1>6, FaultStep

LEMMA RunningMails ==
  ASSUME AccountInv, MailInv, Running, UNCHANGED post
  PROVE  MailInv'
<1>1. CASE TimerFires
  <2> DEFINE op == "reset"
  <2>1. op # "commit" /\ Load(Timer, op, None) /\ commands' \in {commands, commands + 1}
    BY <1>1 DEF TimerFires
  <2> HIDE DEF op
  <2> QED
    BY <2>1, StartMails DEF Procs
<1>2. ASSUME NEW p \in Admins, AdminStarts(p) PROVE MailInv'
  <2>1. ASSUME NEW op, NEW want, Load(p, op, want) PROVE MailInv'
    BY <1>2, <2>1, StartMails DEF Procs, AdminStarts
  <2>2. \E op, want : Load(p, op, want)
    BY <1>2 DEF AdminStarts
  <2> QED
    BY <2>1, <2>2
<1> QED
  BY <1>1, <1>2, StepMails, DiesMails, HostMails DEF Running

-----------------------------------------------------------------------------
(***************************************************************************)
(* The steps of a mailer.  Only the one whose letter it is is inside.      *)
(***************************************************************************)
LEMMA MailerAlone ==
  ASSUME Inside, NEW m \in Mailers, lock = m
  PROVE  /\ \A q \in Mailers : q # m => letter[q] = None
         /\ \A p \in Procs : pc[p] \notin {"locked", "planned", "tentative"}
BY ReportsAssumption DEF Inside

LEMMA MailerLeavesTheRest ==
  ASSUME MailInv, Undisturbed
  PROVE  /\ UNCHANGED <<config, pc, job, clock, commands>>
         /\ Budget' /\ Spent' = Spent /\ Pending' = Pending
<1>1. UNCHANGED <<config, pc, job, clock, commands>>
  BY DEF Undisturbed
<1>2. Pending' = Pending
  BY <1>1 DEF Pending
<1> QED
  BY <1>1, <1>2 DEF Budget, Spent, MailInv

LEMMA DoneInside ==
  ASSUME Inside, MailTypes, NEW m \in Mailers, letter[m] # None, Done(m), UNCHANGED pc
  PROVE  /\ Inside' /\ \A q \in Mailers : letter'[q] = None
         /\ letter' = [q \in Mailers |-> letter'[q]]
<1>1. lock = m /\ lock' = None /\ letter' = [letter EXCEPT ![m] = None]
  BY DEF Inside, Done
<1>2. letter = [q \in Mailers |-> letter[q]]
  BY DEF MailTypes
<1>3. \A q \in Mailers : letter'[q] = None
  BY <1>1, <1>2, MailerAlone
<1>4. letter' = [q \in Mailers |-> letter'[q]]
  BY <1>1, <1>2
<1> QED
  BY <1>1, <1>3, <1>4, MailerAlone DEF Inside

(* What is due now has not been mailed since it last was paid for.         *)
LEMMA CheckMails ==
  ASSUME MailInv, config \in Configs, NEW m \in Mailers, Check(m)
  PROVE  MailInv'
<1> DEFINE due == Due(clock)
           l   == [occasions |-> due, mailed |-> FALSE]
<1>1. /\ lock = None /\ lock' = m /\ Undisturbed /\ UNCHANGED <<faults, delivery, inbox>>
      /\ letter' = [letter EXCEPT ![m] = l]
  BY DEF Check, CheckFor
<1>2. /\ MailTypes /\ Budget /\ Inside /\ RecordedWasMailed /\ Bound /\ Settled
      /\ Letters /\ TentativeIsPaid
  BY DEF MailInv
<1>3. /\ UNCHANGED <<config, pc, job, clock, commands>>
      /\ Budget' /\ Spent' = Spent
  BY <1>1, MailerLeavesTheRest
<1>4. /\ letter = [q \in Mailers |-> letter[q]] /\ clock \in Moments /\ clock \in Nat
      /\ \A q \in Mailers : letter[q] = None
      /\ \A p \in Procs : pc[p] \notin {"locked", "planned", "tentative"}
      /\ m \in Mailers
  BY <1>1, <1>2, AccountingAssumption, ReportsAssumption DEF MailTypes, Inside
<1>5. /\ letter'[m] = l /\ \A q \in Mailers : q # m => letter'[q] = None
      /\ letter' = [q \in Mailers |-> letter'[q]]
  BY <1>1, <1>4
<1>6. MailTypes'
  BY <1>1, <1>2, <1>3, <1>5 DEF MailTypes
<1>7. \A kind \in Kinds, k \in Int :
        /\ Slack(kind)' = Slack(kind)
        /\ Copies(Occasion(kind, k))' = Copies(Occasion(kind, k))
        /\ Paid(kind, k)' <=> Paid(kind, k)
  BY <1>1, <1>3 DEF Slack, Copies, Paid
<1>8. Inside'
  BY <1>1, <1>3, <1>4, <1>5 DEF Inside
<1>9. Settled'
  <2>1. \A kind \in Kinds, k \in Int : Behind(kind, k)' <=> Behind(kind, k)
    BY <1>1, <1>3 DEF Behind, KeyAt
  <2>2. \A kind \in Kinds, k \in Int : ~ \E q \in Mailers : Out(q, Occasion(kind, k))
    BY <1>4 DEF Out
  <2> QED
    BY <1>2, <1>7, <2>1, <2>2 DEF Settled
<1>10. \A o \in due : /\ o.kind \in Kinds /\ o = Occasion(o.kind, KeyAt(o.kind, clock))
                      /\ delivery[o.kind] # o.key
  BY DEF Due, Today, ComingReset, Kinds, Occasion, KeyAt
<1>11. ASSUME NEW o \in due, NEW k \in Int, k >= o.key
       PROVE  Paid(o.kind, k)
  <2> DEFINE kind == o.kind
  <2>1. kind \in Kinds /\ o.key = KeyAt(kind, clock) /\ delivery[kind] # o.key
    BY <1>10 DEF Occasion
  <2>2. KeyAt(kind, clock) \in Int
    BY <1>4, <2>1, KeyFacts
  <2> HIDE DEF kind
  <2>3. ~Behind(kind, k)
    BY <1>4, <1>11, <2>1, <2>2 DEF Behind
  <2>4. ~ \E q \in Mailers : Out(q, Occasion(kind, k))
    BY <1>4 DEF Out
  <2>5. Paid(kind, k)
    BY <1>2, <2>1, <2>3, <2>4 DEF Settled
  <2> QED
    BY <2>5 DEF kind
<1>12. LetterFits(m)'
  <2>1. \A o \in due : o.key \in Int
    BY <1>4, <1>10, KeyFacts DEF Occasion
  <2>2. \A o \in due, k \in Int : k > o.key \/ k = o.key => Paid(o.kind, k)'
    BY <1>7, <1>10, <1>11, <2>1
  <2>3. \A o \in due : o = Occasion(o.kind, KeyAt(o.kind, clock))'
    BY <1>3, <1>10 DEF Occasion, KeyAt
  <2>4. clock' \in Moments /\ clock' <= clock'
    BY <1>3, <1>4
  <2> HIDE DEF due
  <2>5. letter'[m].occasions = due /\ letter'[m].mailed = FALSE
    BY <1>5
  <2>6. letter'[m] = l
    BY <1>5
  <2> QED
    BY <1>3, <1>4, <1>10, <2>2, <2>3, <2>4, <2>5, <2>6 DEF LetterFits
<1>13. Letters'
  BY <1>5, <1>12 DEF Letters
<1>14. Bound'
  BY <1>2, <1>7 DEF Bound
<1>15. TentativeIsPaid' /\ RecordedWasMailed'
  BY <1>1, <1>2, <1>3, <1>4 DEF TentativeIsPaid, RecordedWasMailed
<1> QED
  BY <1>3, <1>6, <1>8, <1>9, <1>13, <1>14, <1>15 DEF MailInv

LEMMA Mailed ==
  ASSUME MailTypes, NEW A \in SUBSET Occasions, inbox' = inbox (+) SetToBag(A)
  PROVE  /\ inbox' \in [DOMAIN inbox' -> Nat] /\ DOMAIN inbox' = DOMAIN inbox \cup A
         /\ \A o : Copies(o)' = Copies(o) + IF o \in A THEN 1 ELSE 0
<1>1. inbox \in [DOMAIN inbox -> Nat]
  BY DEF MailTypes
<1>2. DOMAIN SetToBag(A) = A /\ \A o \in A : SetToBag(A)[o] = 1
  BY DEF SetToBag
<1>3. inbox' = [o \in DOMAIN inbox \cup A |->
                  (IF o \in DOMAIN inbox THEN inbox[o] ELSE 0)
                  + (IF o \in A THEN SetToBag(A)[o] ELSE 0)]
  BY <1>2 DEF (+)
<1>4. DOMAIN inbox' = DOMAIN inbox \cup A
  BY <1>3
<1>5. \A o \in DOMAIN inbox' :
        inbox'[o] = Copies(o) + IF o \in A THEN 1 ELSE 0
  BY <1>1, <1>2, <1>3 DEF Copies
<1>6. \A o : Copies(o) \in Nat
  BY <1>1 DEF Copies
<1>7. \A o \in DOMAIN inbox' : inbox'[o] \in Nat
  BY <1>5, <1>6
<1>8. inbox' \in [DOMAIN inbox' -> Nat]
  BY <1>3, <1>7
<1>9. ASSUME NEW o PROVE Copies(o)' = Copies(o) + IF o \in A THEN 1 ELSE 0
  <2>1. CASE o \in DOMAIN inbox'
    BY <1>5, <2>1 DEF Copies
  <2>2. CASE o \notin DOMAIN inbox'
    BY <1>4, <2>2 DEF Copies
  <2> QED
    BY <2>1, <2>2
<1> QED
  BY <1>4, <1>8, <1>9

(* What a letter holds: of each kind at most the one occasion of the       *)
(* instant it was written at.                                              *)
LEMMA LetterFacts ==
  ASSUME NEW m \in Mailers, LetterFits(m), config \in Configs
  PROVE  \E t \in Moments :
           /\ t <= clock
           /\ \A kind \in Kinds : KeyAt(kind, t) \in Int
           /\ \A o \in letter[m].occasions :
                /\ o \in Occasions /\ o.kind \in Kinds
                /\ o = Occasion(o.kind, KeyAt(o.kind, t)) /\ o.key = KeyAt(o.kind, t)
                /\ \A k \in Int : k > o.key \/ (k = o.key /\ ~letter[m].mailed) => Paid(o.kind, k)
<1>1. PICK t \in Moments :
        /\ t <= clock
        /\ \A o \in letter[m].occasions :
             /\ o.kind \in Kinds /\ o = Occasion(o.kind, KeyAt(o.kind, t))
             /\ \A k \in Int : k > o.key \/ (k = o.key /\ ~letter[m].mailed) => Paid(o.kind, k)
  BY DEF LetterFits
<1>2. \A kind \in Kinds : KeyAt(kind, t) \in Int
  BY KeyFacts
<1>3. \A o \in letter[m].occasions : o.key = KeyAt(o.kind, t)
  BY <1>1 DEF Occasion
<1>4. \A o \in letter[m].occasions : o \in Occasions
  BY <1>1, <1>2, <1>3 DEF Occasion, Occasions
<1> QED
  BY <1>1, <1>2, <1>3, <1>4

LEMMA DeliverMails ==
  ASSUME MailInv, config \in Configs, NEW m \in Mailers, Deliver(m)
  PROVE  MailInv'
<1> DEFINE A == letter[m].occasions
<1>1. /\ letter[m] # None /\ ~letter[m].mailed /\ inbox' = inbox (+) SetToBag(A)
      /\ letter' = [letter EXCEPT ![m].mailed = TRUE]
      /\ Undisturbed /\ UNCHANGED <<lock, faults, delivery>>
  BY DEF Deliver
<1>2. /\ MailTypes /\ Budget /\ Inside /\ RecordedWasMailed /\ Bound /\ Settled
      /\ Letters /\ TentativeIsPaid
  BY DEF MailInv
<1>3. /\ UNCHANGED <<config, pc, job, clock, commands>>
      /\ Budget' /\ Spent' = Spent
  BY <1>1, MailerLeavesTheRest
<1>4. /\ letter = [q \in Mailers |-> letter[q]] /\ lock = m /\ LetterFits(m)
      /\ \A q \in Mailers : q # m => letter[q] = None
      /\ \A p \in Procs : pc[p] \notin {"locked", "planned", "tentative"}
  BY <1>1, <1>2, MailerAlone DEF MailTypes, Inside, Letters
<1>5. /\ letter' = [q \in Mailers |-> letter'[q]]
      /\ \A q \in Mailers : q # m => letter'[q] = None
      /\ letter'[m] = [letter[m] EXCEPT !.mailed = TRUE]
  BY <1>1, <1>4
<1>6. letter'[m].occasions = A /\ letter'[m].mailed = TRUE
      /\ letter'[m] = [occasions |-> A, mailed |-> TRUE]
  BY <1>4, <1>5 DEF LetterFits
<1>7. PICK t \in Moments :
        /\ t <= clock
        /\ \A o \in A :
             /\ o \in Occasions /\ o.kind \in Kinds
             /\ o = Occasion(o.kind, KeyAt(o.kind, t)) /\ o.key = KeyAt(o.kind, t)
             /\ \A k \in Int : k >= o.key => Paid(o.kind, k)
  <2>1. PICK t \in Moments :
          /\ t <= clock
          /\ \A kind \in Kinds : KeyAt(kind, t) \in Int
          /\ \A o \in A :
               /\ o \in Occasions /\ o.kind \in Kinds
               /\ o = Occasion(o.kind, KeyAt(o.kind, t)) /\ o.key = KeyAt(o.kind, t)
               /\ \A k \in Int : k > o.key \/ (k = o.key /\ ~letter[m].mailed) => Paid(o.kind, k)
    BY <1>4, LetterFacts
  <2>2. \A o \in A : o.key \in Int
    BY <2>1
  <2>3. \A o \in A, k \in Int : k >= o.key => k > o.key \/ k = o.key
    BY <2>2
  <2> HIDE DEF A
  <2> QED
    BY <1>1, <2>1, <2>3
<1> HIDE DEF A
<1>8. A \in SUBSET Occasions
  BY <1>7
<1>9. /\ inbox' \in [DOMAIN inbox' -> Nat] /\ DOMAIN inbox' = DOMAIN inbox \cup A
      /\ \A o : Copies(o)' = Copies(o) + IF o \in A THEN 1 ELSE 0
  BY <1>1, <1>2, <1>8, Mailed
<1>10. MailTypes'
  BY <1>1, <1>2, <1>3, <1>5, <1>8, <1>9 DEF MailTypes
<1>11. \A kind \in Kinds : Slack(kind)' = Slack(kind) /\ Slack(kind) \in Nat
  BY <1>1, <1>2, <1>3, Amounts DEF Slack
<1>12. \A kind \in Kinds, k \in Int :
         /\ Copies(Occasion(kind, k)) \in Nat
         /\ Occasion(kind, k) \notin A => (Paid(kind, k)' <=> Paid(kind, k))
         /\ Occasion(kind, k) \in A => Paid(kind, k)
  <2>1. \A kind \in Kinds, k \in Int : Copies(Occasion(kind, k)) \in Nat
    BY <1>2, Amounts
  <2>2. ASSUME NEW kind \in Kinds, NEW k \in Int, Occasion(kind, k) \notin A
        PROVE  Paid(kind, k)' <=> Paid(kind, k)
    <3>1. Copies(Occasion(kind, k))' = Copies(Occasion(kind, k))
      BY <1>9, <2>1, <2>2
    <3> QED
      BY <1>11, <3>1 DEF Paid
  <2>3. ASSUME NEW kind \in Kinds, NEW k \in Int, Occasion(kind, k) \in A
        PROVE  Paid(kind, k)
    <3> DEFINE o == Occasion(kind, k)
    <3>1. o.kind = kind /\ o.key = k /\ o \in A
      BY <2>3 DEF Occasion
    <3> HIDE DEF o
    <3>2. Paid(o.kind, k)
      BY <1>7, <3>1
    <3> QED
      BY <3>1, <3>2
  <2> QED
    BY <2>1, <2>2, <2>3
<1>13. Bound'
  <2>1. ASSUME NEW kind \in Kinds, NEW k \in Int
        PROVE  Copies(Occasion(kind, k))' <= 1 + Slack(kind)'
    <3>1. CASE Occasion(kind, k) \in A
      <4>1. Copies(Occasion(kind, k)) <= Slack(kind)
        BY <1>12, <3>1 DEF Paid
      <4>2. Copies(Occasion(kind, k))' = Copies(Occasion(kind, k)) + 1
        BY <1>9, <3>1
      <4> QED
        BY <1>11, <1>12, <4>1, <4>2
    <3>2. CASE Occasion(kind, k) \notin A
      <4>1. Copies(Occasion(kind, k))' = Copies(Occasion(kind, k))
        BY <1>9, <1>12, <3>2
      <4> QED
        BY <1>2, <1>11, <4>1 DEF Bound
    <3> QED
      BY <3>1, <3>2
  <2> QED
    BY <2>1 DEF Bound
<1>14. Settled'
  <2>1. \A kind \in Kinds, k \in Int : Behind(kind, k)' <=> Behind(kind, k)
    BY <1>1, <1>3 DEF Behind, KeyAt
  <2>2. \A kind \in Kinds, k \in Int : ~ \E q \in Mailers : Out(q, Occasion(kind, k))
    BY <1>1, <1>4 DEF Out
  <2>3. letter[m] # None /\ letter'[m] # None => \A o \in A : Out(m, o)'
    BY <1>6 DEF Out
  <2>5. \A kind \in Kinds, k \in Int : Occasion(kind, k) \notin A =>
          (Behind(kind, k) \/ Paid(kind, k))'
    BY <1>2, <1>12, <2>1, <2>2 DEF Settled
  <2>6. letter'[m] # None
    <3>1. letter'[m] \in Letter
      BY <1>6, <1>8 DEF Letter, Occasions, Kinds
    <3> QED
      BY <3>1, ReportsAssumption
  <2> QED
    BY <1>1, <2>3, <2>5, <2>6 DEF Settled
<1>15. Letters'
  <2>1. \A o \in A : o = Occasion(o.kind, KeyAt(o.kind, t))'
    BY <1>3, <1>7 DEF Occasion, KeyAt
  <2>2. \A o \in A, k \in Int : k > o.key => Paid(o.kind, k)'
    <3>1. ASSUME NEW o \in A, NEW k \in Int, k > o.key PROVE Paid(o.kind, k)'
      <4> DEFINE kind == o.kind
      <4>1. kind \in Kinds /\ o.key \in Int /\ Paid(kind, k)
        BY <1>7, <1>8, <3>1 DEF Occasions
      <4>2. Occasion(kind, k) \notin A
        <5>1. SUFFICES ASSUME Occasion(kind, k) \in A PROVE FALSE
          OBVIOUS
        <5>2. Occasion(kind, k).key = KeyAt(kind, t)
          BY <1>7, <5>1 DEF Occasion
        <5>3. o.key = KeyAt(kind, t) /\ Occasion(kind, k).key = k
          BY <1>7 DEF Occasion
        <5> QED
          BY <3>1, <4>1, <5>2, <5>3
      <4> HIDE DEF kind
      <4>3. Paid(kind, k)'
        BY <1>12, <4>1, <4>2
      <4> QED
        BY <4>3 DEF kind
    <3> QED
      BY <3>1
  <2>3. t \in Moments /\ t <= clock' /\ A \subseteq DOMAIN inbox'
    BY <1>3, <1>7, <1>9
  <2>4. LetterFits(m)'
    BY <1>6, <1>7, <2>1, <2>2, <2>3 DEF LetterFits
  <2> QED
    BY <1>5, <2>4 DEF Letters
<1>16. TentativeIsPaid' /\ Inside'
  BY <1>1, <1>3, <1>4, <1>5 DEF TentativeIsPaid, Inside
<1>17. RecordedWasMailed'
  BY <1>1, <1>2, <1>9 DEF RecordedWasMailed
<1> QED
  BY <1>3, <1>10, <1>13, <1>14, <1>15, <1>16, <1>17 DEF MailInv

LEMMA DeliverFailsMails ==
  ASSUME MailInv, config \in Configs, NEW m \in Mailers, DeliverFails(m)
  PROVE  MailInv'
<1>1. /\ letter[m] # None /\ ~letter[m].mailed /\ Fault /\ Done(m)
      /\ Undisturbed /\ UNCHANGED delivery
  BY DEF DeliverFails
<1>2. PICK A \in {{}, letter[m].occasions} : inbox' = inbox (+) SetToBag(A)
  BY DEF DeliverFails
<1>3. MailTypes /\ Budget /\ Inside /\ LetterFits(m)
  BY <1>1 DEF MailInv, Letters
<1>4. PICK t \in Moments :
        \A o \in letter[m].occasions :
          /\ o \in Occasions /\ o.kind \in Kinds
          /\ \A k \in Int : k = o.key => Paid(o.kind, k)
  BY <1>1, <1>3, LetterFacts
<1>5. /\ UNCHANGED <<config, pc, job, clock, commands>>
      /\ Budget' /\ Spent' = Spent /\ Spent \in Nat
  BY <1>1, <1>3, MailerLeavesTheRest, Amounts
<1>6. A \in SUBSET Occasions
  BY <1>4
<1>7. /\ inbox' \in [DOMAIN inbox' -> Nat] /\ DOMAIN inbox' = DOMAIN inbox \cup A
      /\ \A o : Copies(o)' = Copies(o) + IF o \in A THEN 1 ELSE 0
  BY <1>2, <1>3, <1>6, Mailed
<1>8. ASSUME NEW kind \in Kinds, NEW k \in Int
      PROVE  \/ Copies(Occasion(kind, k))' = Copies(Occasion(kind, k))
             \/ /\ Copies(Occasion(kind, k))' = Copies(Occasion(kind, k)) + 1
                /\ Paid(kind, k)
  <2> DEFINE o == Occasion(kind, k)
  <2>1. o.kind = kind /\ o.key = k
    BY DEF Occasion
  <2> HIDE DEF o
  <2>2. CASE o \in A
    <3>1. Paid(o.kind, k)
      BY <1>2, <1>4, <2>1, <2>2
    <3>2. Copies(o)' = Copies(o) + 1
      BY <1>7, <2>2
    <3> QED
      BY <2>1, <3>1, <3>2 DEF o
  <2>3. CASE o \notin A
    <3>1. Copies(o) \in Nat
      BY <1>3, Amounts DEF o
    <3>2. Copies(o)' = Copies(o)
      BY <1>7, <2>3, <3>1
    <3> QED
      BY <3>2 DEF o
  <2> QED
    BY <2>2, <2>3
<1>9. Inside' /\ letter' = [q \in Mailers |-> letter'[q]] /\ \A q \in Mailers : letter'[q] = None
  BY <1>1, <1>3, <1>5, DoneInside
<1>10. /\ DOMAIN inbox \subseteq DOMAIN inbox' /\ DOMAIN inbox' \subseteq Occasions
       /\ Spent' >= Spent
  BY <1>3, <1>5, <1>6, <1>7 DEF MailTypes
<1> QED
  BY <1>1, <1>5, <1>7, <1>8, <1>9, <1>10, FaultStep

LEMMA MailerDiesMails ==
  ASSUME MailInv, NEW m \in Mailers, MailerDies(m)
  PROVE  MailInv'
<1>1. /\ letter[m] # None /\ Fault /\ Done(m)
      /\ Undisturbed /\ UNCHANGED <<delivery, inbox>>
  BY DEF MailerDies
<1>2. MailTypes /\ Budget /\ Inside
  BY DEF MailInv
<1>3. /\ UNCHANGED <<config, pc, job, clock, commands>>
      /\ Budget' /\ Spent' = Spent /\ Spent \in Nat
  BY <1>1, <1>2, MailerLeavesTheRest, Amounts
<1>4. Inside' /\ letter' = [q \in Mailers |-> letter'[q]] /\ \A q \in Mailers : letter'[q] = None
  BY <1>1, <1>2, <1>3, DoneInside
<1>5. \A o : Copies(o)' = Copies(o)
  BY <1>1 DEF Copies
<1>6. /\ inbox' \in [DOMAIN inbox' -> Nat] /\ DOMAIN inbox' \subseteq Occasions
      /\ DOMAIN inbox \subseteq DOMAIN inbox' /\ Spent' >= Spent
  BY <1>1, <1>2, <1>3 DEF MailTypes
<1> QED
  BY <1>1, <1>3, <1>4, <1>5, <1>6, FaultStep

(* The record: what came before it cannot become due again, what comes     *)
(* after it has been paid for.                                             *)
LEMMA RecordMails ==
  ASSUME MailInv, config \in Configs, NEW m \in Mailers, Record(m)
  PROVE  MailInv'
<1> DEFINE A == letter[m].occasions
           keys(kind) == {o.key : o \in {o \in A : o.kind = kind}}
<1>1. /\ letter[m] # None /\ letter[m].mailed /\ Done(m)
      /\ delivery' = [kind \in DOMAIN delivery |-> Recorded(kind, A)]
      /\ Undisturbed /\ UNCHANGED <<faults, inbox>>
  BY DEF Record
<1>2. /\ MailTypes /\ Budget /\ Inside /\ RecordedWasMailed /\ Bound /\ Settled
      /\ Letters /\ TentativeIsPaid /\ LetterFits(m)
  BY <1>1 DEF MailInv, Letters
<1>3. /\ UNCHANGED <<config, pc, job, clock, commands>>
      /\ Budget' /\ Spent' = Spent
  BY <1>1, MailerLeavesTheRest
<1>4. Inside' /\ letter' = [q \in Mailers |-> letter'[q]] /\ \A q \in Mailers : letter'[q] = None
  BY <1>1, <1>2, <1>3, DoneInside
<1>5. PICK t \in Moments :
        /\ t <= clock
        /\ \A kind \in Kinds : KeyAt(kind, t) \in Int
        /\ \A o \in A :
             /\ o \in Occasions /\ o.kind \in Kinds
             /\ o = Occasion(o.kind, KeyAt(o.kind, t)) /\ o.key = KeyAt(o.kind, t)
             /\ \A k \in Int : k > o.key => Paid(o.kind, k)
  BY <1>1, <1>2, LetterFacts
<1>6. A \subseteq DOMAIN inbox
  BY <1>1, <1>2 DEF LetterFits
<1> HIDE DEF A
<1>7. ASSUME NEW kind \in Kinds
      PROVE  \/ /\ delivery'[kind] = delivery[kind]
                /\ \A o \in A : o.kind # kind
             \/ /\ delivery'[kind] = KeyAt(kind, t)
                /\ Occasion(kind, KeyAt(kind, t)) \in A
  <2>1. DOMAIN delivery = Kinds
    BY <1>2 DEF MailTypes
  <2>2. delivery'[kind] = IF keys(kind) = {} THEN delivery[kind]
                          ELSE CHOOSE key \in keys(kind) : TRUE
    BY <1>1, <2>1 DEF Recorded
  <2>3. CASE keys(kind) = {}
    BY <2>2, <2>3
  <2>4. CASE keys(kind) # {}
    <3>1. \A o \in A : o.kind = kind => o.key = KeyAt(kind, t) /\ Occasion(kind, KeyAt(kind, t)) \in A
      BY <1>5
    <3>2. \A key \in keys(kind) : key = KeyAt(kind, t) /\ Occasion(kind, KeyAt(kind, t)) \in A
      BY <3>1
    <3>3. (CHOOSE key \in keys(kind) : TRUE) \in keys(kind)
      <4> HIDE DEF keys
      <4> QED
        BY <2>4
    <3> HIDE DEF keys
    <3> QED
      BY <2>2, <2>4, <3>2, <3>3
  <2> QED
    BY <2>3, <2>4
<1>8. MailTypes'
  <2>1. delivery' = [kind \in Kinds |-> delivery'[kind]]
    BY <1>1, <1>2 DEF MailTypes
  <2>2. \A kind \in Kinds : delivery'[kind] \in Int \cup {None}
    BY <1>2, <1>5, <1>7 DEF MailTypes
  <2>3. delivery' \in [Kinds -> Int \cup {None}]
    BY <2>1, <2>2
  <2> QED
    BY <1>1, <1>2, <1>3, <1>4, <2>3 DEF MailTypes
<1>9. \A kind \in Kinds, k \in Int :
        /\ Slack(kind)' = Slack(kind)
        /\ Copies(Occasion(kind, k))' = Copies(Occasion(kind, k))
        /\ Paid(kind, k)' <=> Paid(kind, k)
  BY <1>1, <1>3 DEF Slack, Copies, Paid
<1>10. Settled'
  <2>1. SUFFICES ASSUME NEW kind \in Kinds, NEW k \in Int
                 PROVE  Behind(kind, k)' \/ Paid(kind, k)'
    BY DEF Settled
  <2> DEFINE K == KeyAt(kind, t)
  <2>2. \A u \in Moments : KeyAt(kind, u)' = KeyAt(kind, u)
    BY <1>3 DEF KeyAt
  <2>3. K \in Int /\ \A u \in Moments : u >= clock => KeyAt(kind, u) \in Int /\ K <= KeyAt(kind, u)
    <3>1. clock \in Nat /\ Moments \subseteq Nat
      BY <1>2, AccountingAssumption DEF MailTypes
    <3>2. \A u \in Moments : u >= clock => t <= u
      BY <1>5, <3>1
    <3> QED
      BY <3>2, KeyFacts
  <2>4. CASE delivery'[kind] = delivery[kind] /\ \A o \in A : o.kind # kind
    <3>1. Behind(kind, k) => Behind(kind, k)'
      BY <1>3, <2>2, <2>4 DEF Behind
    <3>2. \A q \in Mailers : ~Out(q, Occasion(kind, k))
      <4>1. \A q \in Mailers : q # m => letter[q] = None
        BY <1>1, <1>2, MailerAlone DEF Inside
      <4>2. Occasion(kind, k) \notin A
        BY <2>4 DEF Occasion
      <4> QED
        BY <4>1, <4>2 DEF Out, A
    <3> QED
      BY <1>2, <1>9, <3>1, <3>2 DEF Settled
  <2>5. CASE delivery'[kind] = K /\ Occasion(kind, K) \in A
    <3>1. CASE k > K
      <4> DEFINE o == Occasion(kind, K)
      <4>1. o.kind = kind /\ o.key = K /\ o \in A
        BY <2>5 DEF Occasion
      <4> HIDE DEF o, K
      <4>2. Paid(o.kind, k)
        BY <1>5, <3>1, <4>1
      <4> QED
        BY <1>9, <4>1, <4>2
    <3>2. CASE k <= K
      <4>1. \A u \in Moments : u >= clock =>
              k <= KeyAt(kind, u) /\ (k # K => k < KeyAt(kind, u))
        BY <2>3, <3>2
      <4> HIDE DEF K
      <4> QED
        BY <1>3, <2>2, <2>5, <4>1 DEF Behind
    <3> QED
      BY <2>3, <3>1, <3>2
  <2> QED
    BY <1>7, <2>4, <2>5
<1>11. RecordedWasMailed'
  <2>1. ASSUME NEW kind \in Kinds, delivery'[kind] # None
        PROVE  Occasion(kind, delivery'[kind]) \in DOMAIN inbox
    BY <1>2, <1>6, <1>7, <2>1 DEF RecordedWasMailed
  <2> QED
    BY <1>1, <2>1 DEF RecordedWasMailed
<1>12. Bound' /\ Letters'
  BY <1>2, <1>4, <1>9 DEF Bound, Letters
<1>13. TentativeIsPaid'
  <2>1. "reminder" \in Kinds
    BY DEF Kinds
  <2> QED
    BY <1>2, <1>3, <1>9, <2>1 DEF TentativeIsPaid
<1> QED
  BY <1>3, <1>4, <1>8, <1>10, <1>11, <1>12, <1>13 DEF MailInv

LEMMA MailNext ==
  AccountInv /\ MailInv /\ [NextAll]_allVars => MailInv'
<1> SUFFICES ASSUME AccountInv, MailInv, [NextAll]_allVars PROVE MailInv'
  OBVIOUS
<1>1. config \in Configs
  BY DEF AccountInv
<1>2. CASE UNCHANGED allVars
  <2>1. /\ UNCHANGED vars /\ UNCHANGED post
        /\ UNCHANGED <<config, pc, job, lock, clock, commands, faults, letter>>
    BY <1>2 DEF allVars, vars, post
  <2>2. MailTypes /\ Budget /\ Inside
    BY DEF MailInv
  <2>3. Pending' = Pending
    BY <2>1 DEF Pending
  <2>4. Budget' /\ Spent' = Spent /\ Spent \in Nat /\ Inside'
    BY <2>1, <2>2, <2>3, Amounts DEF Budget, Spent, Inside
  <2>5. clock \in Nat /\ faults \in Nat /\ commands \in Nat
    BY <2>2, AccountingAssumption DEF MailTypes
  <2> QED
    BY <2>1, <2>2, <2>4, <2>5, QuietStep DEF MailTypes
<1> QED
  BY <1>1, <1>2, RunningMails, RebootMails, CheckMails, DeliverMails, DeliverFailsMails,
     RecordMails, MailerDiesMails DEF NextAll

LEMMA MailPromise == MailInv => MailedAsRecorded
<1> SUFFICES ASSUME MailInv PROVE MailedAsRecorded
  OBVIOUS
<1>1. MailTypes /\ Budget /\ RecordedWasMailed /\ Bound
  BY DEF MailInv
<1>2. \A kind \in DOMAIN delivery :
        delivery[kind] # None => BagIn([kind |-> kind, key |-> delivery[kind]], inbox)
  BY <1>1 DEF MailTypes, RecordedWasMailed, Occasion, BagIn, BagToSet
<1>3. ASSUME NEW o \in BagToSet(inbox)
      PROVE  inbox[o] <= 1 + faults + (IF o.kind = "daily" THEN 0 ELSE commands)
  <2> DEFINE kind == o.kind
             k    == o.key
  <2>1. o \in DOMAIN inbox
    BY DEF BagToSet
  <2>2. o \in Occasions
    BY <1>1, <2>1 DEF MailTypes
  <2>3. kind \in Kinds /\ k \in Int /\ o = Occasion(kind, k)
    BY <2>2 DEF Occasions, Occasion
  <2>4. Spent \in Nat /\ Spent <= commands /\ faults \in Nat /\ commands \in Nat
    BY <1>1, Amounts DEF MailTypes
  <2> HIDE DEF kind, k
  <2>5. Copies(o) <= 1 + Slack(kind)
    BY <1>1, <2>3 DEF Bound
  <2>6. Copies(o) = inbox[o] /\ inbox[o] \in Nat
    BY <1>1, <2>1 DEF Copies, MailTypes
  <2>7. Slack(kind) <= faults + IF kind = "daily" THEN 0 ELSE commands
    BY <2>4 DEF Slack
  <2>8. Slack(kind) \in Nat
    BY <1>1, <2>3, Amounts
  <2> QED
    BY <2>4, <2>5, <2>6, <2>7, <2>8 DEF kind
<1> QED
  BY <1>2, <1>3 DEF MailedAsRecorded

(* What is recorded as mailed was mailed, and an occasion is mailed again  *)
(* only for a fault between letter and record, a reminder also for a       *)
(* schedule that was changed, for any number of mailers and commands       *)
(* (send, due).                                                            *)
THEOREM MailedOnce == SpecAll => []MailedAsRecorded
<1>1. Init /\ InitPost => AccountInv /\ MailInv
  BY AccountInit, MailInit
<1>2. AccountInv /\ MailInv /\ [NextAll]_allVars => AccountInv' /\ MailInv'
  BY AccountNextAll, MailNext
<1> QED
  BY <1>1, <1>2, MailPromise, PTL DEF SpecAll
=============================================================================
