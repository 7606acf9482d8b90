------------------------- MODULE Credentials_proofs -------------------------
(***************************************************************************)
(* What the credential commands report is what the links do, and what they *)
(* do is what CredentialPromises says.                                     *)
(*                                                                         *)
(* Three invariants carry this.  IInv: every configuration the daemon may  *)
(* come up with - the file's, and the prior bytes a failed command will    *)
(* put back - stays within what was reported, and within what the command  *)
(* under way will report.  AInv: the file, or those prior bytes, agree     *)
(* with the reports exactly.  Underway: what the command under way has     *)
(* edited, so that the step of the table is known when it ends.            *)
(***************************************************************************)
EXTENDS Credentials, SequenceTheorems, TLAPS

Entries == [name : Names, secret : Secrets, until : Until]

Promised == [Secrets -> Until \cup {Unissued}]

(* An expiry no later than another one. *)
NoLater(u, p) == p = Forever \/ (u # Forever /\ u <= p)

(* c gives no link more time than p says, whatever p says of links nobody  *)
(* was told of.                                                            *)
Bounded(c, p) ==
  /\ p[c.main] \in {Forever, Unissued}
  /\ \A i \in DOMAIN c.named :
       LET s == c.named[i].secret IN
       p[s] = Unissued \/ NoLater(c.named[i].until, p[s])

(* Every link has a secret of its own. *)
Distinct(c) ==
  /\ \A i \in DOMAIN c.named : c.named[i].secret # c.main
  /\ \A i, j \in DOMAIN c.named : c.named[i].secret = c.named[j].secret => i = j

(* The secrets of c were drawn. *)
Drawn(c, n) == c.main <= n /\ \A i \in DOMAIN c.named : c.named[i].secret <= n

(* A configuration on disk, or to be put back there. *)
Sound(c) == c \in Configs /\ Distinct(c) /\ Drawn(c, issued) /\ Bounded(c, promised)

(* What is reported of links, now or when the command under way succeeds. *)
Reportable(p) ==
  p \in Promised /\ \A s \in Secrets : s > issued => p[s] = Unissued

Transacting ==
  tx # None =>
    /\ tx \in Transactions
    /\ Sound(tx.prior)
    /\ Reportable(tx.report)
    /\ tx.phase = "restarting" => Bounded(config, tx.report)

IInv ==
  /\ now \in Nat /\ issued \in Secrets
  /\ Reportable(promised)
  /\ Sound(config)
  /\ loaded # Down => loaded \in Configs /\ Bounded(loaded, promised)
  /\ Transacting

-----------------------------------------------------------------------------
LEMMA Constants ==
  /\ Graces \subseteq Nat /\ Forever \notin Int /\ MaxIssued \in Nat \ {0, 1}
  /\ Secrets \subseteq Nat /\ {1, 2} \subseteq Secrets
  BY CredentialConstants DEF Secrets

LEMMA SoonerFacts ==
  ASSUME NEW u \in Until, NEW p \in Until, NEW d \in Int, NoLater(u, p)
  PROVE  /\ Sooner(u, d) \in Int
         /\ NoLater(Sooner(u, d), u)
         /\ NoLater(Sooner(u, d), p)
         /\ NoLater(Sooner(u, d), Sooner(p, d))
  BY Constants DEF Sooner, NoLater, Until

(* What a report becomes when links of it are retired. *)
LEMMA SoonerReported ==
  ASSUME NEW p \in Until \cup {Unissued}, NEW d \in Nat
  PROVE  /\ Sooner(p, d) \in Until \cup {Unissued}
         /\ Sooner(p, d) = Unissued <=> p = Unissued
  BY Constants DEF Sooner, Until, Unissued

LEMMA InitInv == Init => IInv
<1> SUFFICES ASSUME Init PROVE IInv
  OBVIOUS
<1>1. PICK legacy \in BOOLEAN :
        /\ config = [main |-> 1,
                     named |-> IF legacy THEN <<[name |-> Default, secret |-> 2,
                                                 until |-> Forever]>>
                               ELSE <<>>]
        /\ issued = IF legacy THEN 2 ELSE 1
        /\ promised = [s \in Secrets |->
                         IF s = 1 \/ (legacy /\ s = 2) THEN Forever ELSE Unissued]
  BY DEF Init
<1>2. config \in Configs /\ config.main = 1
  <2>1. [name |-> Default, secret |-> 2, until |-> Forever] \in Entries
    BY CredentialConstants, Constants DEF Entries, Until
  <2>2. <<[name |-> Default, secret |-> 2, until |-> Forever]>> \in Seq(Entries)
    BY <2>1
  <2>3. <<>> \in Seq(Entries)
    OBVIOUS
  <2> QED
    BY <1>1, <2>2, <2>3, Constants DEF Configs, Entries
<1>3. Reportable(promised) /\ issued \in Secrets
  BY <1>1, Constants DEF Reportable, Promised, Until, Unissued, Secrets
<1>4. Distinct(config) /\ Drawn(config, issued)
  BY <1>1 DEF Distinct, Drawn
<1>5. Bounded(config, promised)
  BY <1>1, Constants DEF Bounded, NoLater
<1> QED
  BY <1>2, <1>3, <1>4, <1>5 DEF Init, IInv, Sound, Transacting

-----------------------------------------------------------------------------
LEMMA Entry ==
  ASSUME IInv
  PROVE  /\ config = [main |-> config.main, named |-> config.named]
         /\ config.main \in Secrets /\ config.named \in Seq(Entries)
         /\ Len(config.named) \in Nat /\ DOMAIN config.named = 1..Len(config.named)
         /\ \A i \in DOMAIN config.named :
              /\ config.named[i] \in Entries
              /\ config.named[i].secret <= issued
              /\ config.named[i].secret # config.main
         /\ config.main <= issued
         /\ issued \in Nat /\ now \in Nat /\ promised \in Promised
<1>1. config \in [main : Secrets, named : Seq(Entries)]
  BY DEF IInv, Sound, Configs, Entries
<1>2. /\ config = [main |-> config.main, named |-> config.named]
      /\ config.main \in Secrets /\ config.named \in Seq(Entries)
  BY <1>1
<1>3. /\ Len(config.named) \in Nat /\ DOMAIN config.named = 1..Len(config.named)
      /\ \A i \in DOMAIN config.named : config.named[i] \in Entries
  BY <1>2, LenProperties, ElementOfSeq
<1> QED
  BY <1>2, <1>3, Constants DEF IInv, Sound, Drawn, Distinct, Reportable

(* A command writes a configuration that stays within what was reported    *)
(* and within what it will report.                                         *)
LEMMA TransactionKeeps ==
  ASSUME IInv, NEW new, NEW drawn \in Secrets, NEW report \in Promised,
         Transaction(new, drawn, report),
         new \in Configs, Distinct(new), Drawn(new, drawn),
         Bounded(new, promised), Bounded(new, report),
         issued <= drawn,
         \A s \in Secrets : s > drawn => report[s] = Unissued
  PROVE  IInv'
<1>1. /\ config' = new /\ issued' = drawn /\ promised' = promised
      /\ loaded' = loaded /\ now' = now
      /\ tx' = [prior |-> config, drawn |-> issued, report |-> report,
                phase |-> "restarting"]
  BY DEF Transaction
<1>2. issued \in Nat /\ drawn \in Nat /\ config.main \in Nat
  BY Constants DEF IInv, Sound, Configs
<1>3. \A i \in DOMAIN config.named : config.named[i].secret \in Nat
  BY Entry, Constants DEF Entries
<1>4. Sound(config)'
  BY <1>1 DEF Sound
<1>5. Sound(tx.prior)'
  BY <1>1, <1>2, <1>3 DEF IInv, Sound, Drawn
<1>6. Reportable(promised)' /\ Reportable(tx.report)'
  BY <1>1, <1>2, Constants DEF IInv, Reportable
<1>7. Transacting'
  BY <1>1, <1>2, <1>5, <1>6 DEF Transacting, IInv, Sound, Transactions, Reportable, Promised
<1> QED
  BY <1>1, <1>4, <1>6, <1>7 DEF IInv

(* A fresh link is nobody's yet. *)
LEMMA FreshFacts ==
  ASSUME IInv, issued < MaxIssued, NEW n \in Names
  PROVE  /\ issued + 1 \in Secrets
         /\ Fresh(n) \in Entries
         /\ promised[issued + 1] = Unissued
<1>1. issued + 1 \in Secrets
  BY Entry, Constants DEF Secrets
<1>2. promised[issued + 1] = Unissued
  BY <1>1, Entry DEF IInv, Reportable
<1> QED
  BY <1>1, <1>2 DEF Fresh, Entries, Until

LEMMA LaterStill ==
  ASSUME NEW u \in Until, NEW v \in Until, NEW p \in Until,
         NoLater(u, v), NoLater(v, p)
  PROVE  NoLater(u, p)
  BY Constants DEF NoLater, Until

(* A command that edits the named links: each one it leaves is fresh, or   *)
(* one that was there with no later expiry.                                *)
LEMMA EditKeeps ==
  ASSUME IInv, NEW named \in Seq(Entries), NEW drawn \in Secrets,
         NEW report \in Promised,
         Transaction([config EXCEPT !.named = named], drawn, report),
         issued <= drawn,
         report[config.main] = promised[config.main],
         \A s \in Secrets : s > drawn => report[s] = Unissued,
         \A i \in DOMAIN named :
           \/ named[i].secret > issued /\ named[i].secret <= drawn
           \/ \E j \in DOMAIN config.named :
                /\ named[i].secret = config.named[j].secret
                /\ NoLater(named[i].until, config.named[j].until),
         \A i \in DOMAIN named :
           \/ report[named[i].secret] = Unissued
           \/ NoLater(named[i].until, report[named[i].secret]),
         \A i, j \in DOMAIN named : named[i].secret = named[j].secret => i = j
  PROVE  IInv'
<1> DEFINE new == [config EXCEPT !.named = named]
<1>1. new.main = config.main /\ new.named = named /\ new \in Configs
  BY Entry DEF Configs, Entries
<1>2. \A i \in DOMAIN named : named[i] \in Entries
  BY LenProperties, ElementOfSeq
<1>3. Transaction(new, drawn, report)
  OBVIOUS
<1> HIDE DEF new
<1>4. issued \in Nat /\ drawn \in Nat /\ config.main <= issued
  BY Entry, Constants
<1>5. \A i \in DOMAIN named : named[i].secret \in Nat /\ named[i].until \in Until
  BY <1>2, Constants DEF Entries
<1>6. Distinct(new)
  <2>1. \A i \in DOMAIN named : named[i].secret # config.main
    BY <1>4, <1>5, Entry, Constants
  <2> QED
    BY <1>1, <2>1 DEF Distinct
<1>7. Drawn(new, drawn)
  BY <1>1, <1>4, <1>5, Entry, Constants DEF Drawn, Entries
<1>8. Bounded(new, promised)
  <2>1. promised[new.main] \in {Forever, Unissued}
    BY <1>1 DEF IInv, Sound, Bounded
  <2>2. ASSUME NEW i \in DOMAIN named
        PROVE  \/ promised[named[i].secret] = Unissued
               \/ NoLater(named[i].until, promised[named[i].secret])
    <3>1. CASE named[i].secret > issued
      BY <3>1, <1>2 DEF IInv, Reportable, Entries
    <3>2. ASSUME NEW j \in DOMAIN config.named,
                 named[i].secret = config.named[j].secret,
                 NoLater(named[i].until, config.named[j].until)
          PROVE  \/ promised[named[i].secret] = Unissued
                 \/ NoLater(named[i].until, promised[named[i].secret])
      <4>1. \/ promised[config.named[j].secret] = Unissued
            \/ NoLater(config.named[j].until, promised[config.named[j].secret])
        BY DEF IInv, Sound, Bounded
      <4>2. config.named[j].until \in Until /\ config.named[j].secret \in Secrets
        BY Entry DEF Entries
      <4>3. promised[config.named[j].secret] \in Until \cup {Unissued}
        BY <4>2, Entry DEF Promised
      <4> QED
        BY <3>2, <4>1, <4>2, <4>3, <1>5, LaterStill
    <3> QED
      BY <3>1, <3>2
  <2> QED
    BY <1>1, <2>1, <2>2 DEF Bounded
<1>9. Bounded(new, report)
  BY <1>1 DEF IInv, Sound, Bounded
<1> QED
  BY <1>1, <1>3, <1>6, <1>7, <1>8, <1>9, TransactionKeeps

LEMMA Same ==
  ASSUME NEW u \in Until
  PROVE  NoLater(u, u)
  BY Constants DEF NoLater, Until

(* What is reported of a fresh link, and of a retired one. *)
LEMMA ReportFacts ==
  ASSUME IInv, issued < MaxIssued, NEW rest \in Promised,
         \A s \in Secrets : s > issued => rest[s] = Unissued
  PROVE  LET report == [rest EXCEPT ![issued + 1] = Forever] IN
         /\ report \in Promised /\ report[issued + 1] = Forever
         /\ \A s \in Secrets : s <= issued => report[s] = rest[s]
         /\ \A s \in Secrets : s > issued + 1 => report[s] = Unissued
<1>1. issued + 1 \in Secrets /\ issued \in Nat /\ Secrets \subseteq Nat
  BY Entry, Constants DEF Secrets
<1> QED
  BY <1>1 DEF Promised, Until

-----------------------------------------------------------------------------
LEMMA AddKeeps ==
  ASSUME IInv, NEW n \in Names, Add(n)
  PROVE  IInv'
<1> DEFINE report == [promised EXCEPT ![issued + 1] = Forever]
           Made(named) == Transaction([config EXCEPT !.named = named],
                                      issued + 1, report)
<1>1. issued < MaxIssued
  BY DEF Add
<1>2. /\ report \in Promised /\ report[issued + 1] = Forever
      /\ \A s \in Secrets : s <= issued => report[s] = promised[s]
      /\ \A s \in Secrets : s > issued + 1 => report[s] = Unissued
  BY <1>1, ReportFacts DEF IInv, Reportable
<1>3. Fresh(n).secret = issued + 1 /\ Fresh(n).until = Forever
  BY DEF Fresh
<1>4. ASSUME NEW named \in Seq(Entries), Made(named), NEW k \in DOMAIN named,
             named[k] = Fresh(n),
             \A i \in DOMAIN named \ {k} :
               i \in DOMAIN config.named /\ named[i] = config.named[i]
      PROVE  IInv'
  <2>1. Transaction([config EXCEPT !.named = named], issued + 1, report)
    BY <1>4
  <2> HIDE DEF report, Made
  <2>2. ASSUME NEW i \in DOMAIN named, i # k
        PROVE  /\ named[i].secret = config.named[i].secret
               /\ named[i].until = config.named[i].until
               /\ i \in DOMAIN config.named
               /\ named[i].until \in Until
               /\ named[i].secret \in Secrets /\ named[i].secret <= issued
    BY <1>4, <2>2, Entry DEF Entries
  <2>3. \A i \in DOMAIN named :
          \/ named[i].secret > issued /\ named[i].secret <= issued + 1
          \/ \E j \in DOMAIN config.named :
                /\ named[i].secret = config.named[j].secret
                /\ NoLater(named[i].until, config.named[j].until)
    BY <1>3, <1>4, <2>2, Same, Entry
  <2>4. \A i \in DOMAIN named :
           \/ report[named[i].secret] = Unissued
           \/ NoLater(named[i].until, report[named[i].secret])
    BY <1>2, <1>3, <1>4, <2>2 DEF IInv, Sound, Bounded, NoLater
  <2>5. \A i, j \in DOMAIN named : named[i].secret = named[j].secret => i = j
    BY SMTT(20), <1>3, <1>4, <2>2, Entry, Constants DEF IInv, Sound, Distinct
  <2>6. report[config.main] = promised[config.main] /\ issued <= issued + 1
    BY <1>2, Entry
  <2> QED
    BY <1>1, <1>2, <2>1, <2>3, <2>4, <2>5, <2>6, FreshFacts, EditKeeps
<1> HIDE DEF Made, report
<1>5. CASE Made(Append(config.named, Fresh(n)))
  <2> DEFINE named == Append(config.named, Fresh(n))
  <2>1. named \in Seq(Entries) /\ DOMAIN named = 1..(Len(config.named) + 1)
    BY <1>1, Entry, FreshFacts
  <2>2. \A i \in DOMAIN named :
          IF i = Len(config.named) + 1 THEN named[i] = Fresh(n)
          ELSE i \in DOMAIN config.named /\ named[i] = config.named[i]
    BY <1>1, <2>1, Entry, FreshFacts
  <2>3. Made(named)
    BY <1>5
  <2>4. Len(config.named) + 1 \in DOMAIN named
    BY <2>1, Entry
  <2> HIDE DEF named
  <2> QED
    BY <1>4, <2>1, <2>2, <2>3, <2>4
<1>6. ASSUME NEW k \in DOMAIN config.named,
             Made([config.named EXCEPT ![k] = Fresh(n)])
      PROVE  IInv'
  <2> DEFINE named == [config.named EXCEPT ![k] = Fresh(n)]
  <2>1. named \in Seq(Entries) /\ DOMAIN named = DOMAIN config.named
    BY <1>1, Entry, FreshFacts, ExceptSeq
  <2>2. \A i \in DOMAIN named :
          named[i] = IF i = k THEN Fresh(n) ELSE config.named[i]
    BY <2>1, Entry
  <2>3. Made(named)
    BY <1>6
  <2> HIDE DEF named
  <2> QED
    BY <1>4, <2>1, <2>2, <2>3
<1> QED
  BY <1>5, <1>6 DEF Add, First, Made, report

LEMMA RotateKeeps ==
  ASSUME IInv, NEW n \in Names, NEW grace \in Nat, Rotate(n, grace)
  PROVE  IInv'
<1>1. PICK k \in Rotated(n) :
        LET old == config.named[k]
            retired == [old EXCEPT !.until = Sooner(@, now + grace)]
            kept == IF grace > 0 THEN Append(config.named, retired)
                    ELSE config.named
        IN /\ issued < MaxIssued
           /\ Transaction([config EXCEPT !.named = [kept EXCEPT ![k] = Fresh(n)]],
                          issued + 1,
                          [promised EXCEPT ![old.secret] = Sooner(@, now + grace),
                                           ![issued + 1] = Forever])
  BY DEF Rotate
<1> DEFINE old == config.named[k]
           until == Sooner(old.until, now + grace)
           retired == [old EXCEPT !.until = until]
           rest == [promised EXCEPT ![old.secret] = Sooner(@, now + grace)]
           report == [rest EXCEPT ![issued + 1] = Forever]
           kept == IF grace > 0 THEN Append(config.named, retired) ELSE config.named
           named == [kept EXCEPT ![k] = Fresh(n)]
<1>2. k \in DOMAIN config.named
  BY DEF Rotated, First, ActiveOf
<1>3. /\ old \in Entries /\ old.until \in Until /\ old.secret \in Secrets
      /\ old.secret <= issued /\ now + grace \in Nat /\ old.secret # config.main
      /\ now \in Nat /\ issued \in Nat
  BY <1>2, Entry DEF Entries
<1>4. /\ retired \in Entries /\ retired.secret = old.secret /\ retired.until = until
      /\ until \in Until /\ NoLater(until, old.until)
  <2>1. until \in Int /\ NoLater(until, old.until)
    BY <1>3, SoonerFacts, Same
  <2> QED
    BY <1>3, <2>1 DEF Entries, Until
<1>5. /\ rest \in Promised
      /\ rest[old.secret] = Sooner(promised[old.secret], now + grace)
      /\ \A s \in Secrets : s # old.secret => rest[s] = promised[s]
      /\ \A s \in Secrets : s > issued => rest[s] = Unissued
  <2>1. promised \in [Secrets -> Until \cup {Unissued}]
    BY Entry DEF Promised
  <2>2. Sooner(promised[old.secret], now + grace) \in Until \cup {Unissued}
    BY <1>3, <2>1, SoonerReported
  <2>3. \A s \in Secrets : s > issued => promised[s] = Unissued
    BY DEF IInv, Reportable
  <2> QED
    BY <1>3, <2>1, <2>2, <2>3, Constants DEF Promised
<1>6. \/ rest[old.secret] = Unissued
      \/ NoLater(until, rest[old.secret])
  <2>1. promised[old.secret] = Unissued \/ NoLater(old.until, promised[old.secret])
    BY <1>2 DEF IInv, Sound, Bounded
  <2>2. promised[old.secret] \in Until /\ now + grace \in Int
    BY <1>3, Entry DEF Promised, Until, Unissued
  <2>3. CASE promised[old.secret] = Unissued
    BY <1>3, <1>5, <2>3, SoonerReported
  <2>4. CASE NoLater(old.until, promised[old.secret])
    BY <1>3, <1>5, <2>2, <2>4, SoonerFacts
  <2> QED
    BY <2>1, <2>3, <2>4
<1>7. issued < MaxIssued /\ Transaction([config EXCEPT !.named = named], issued + 1, report)
  BY <1>1
<1>8. Fresh(n).secret = issued + 1 /\ Fresh(n).until = Forever /\ Fresh(n) \in Entries
  BY <1>7, FreshFacts DEF Fresh
<1> HIDE DEF rest, retired, until
<1>9. /\ named \in Seq(Entries) /\ k \in DOMAIN named /\ named[k] = Fresh(n)
      /\ \A i \in DOMAIN named \ {k} :
           \/ i \in DOMAIN config.named /\ named[i] = config.named[i]
           \/ i = Len(config.named) + 1 /\ named[i] = retired
  <2>1. CASE grace > 0
    <3> DEFINE longer == Append(config.named, retired)
    <3>1. /\ longer \in Seq(Entries) /\ Len(longer) = Len(config.named) + 1
          /\ \A i \in DOMAIN longer :
               \/ i \in DOMAIN config.named /\ longer[i] = config.named[i]
               \/ i = Len(config.named) + 1 /\ longer[i] = retired
      BY <1>4, Entry
    <3>2. named = [longer EXCEPT ![k] = Fresh(n)]
      BY <2>1
    <3>3. k \in 1..Len(longer)
      BY <1>2, <3>1, Entry
    <3> HIDE DEF longer, named
    <3>4. named \in Seq(Entries) /\ Len(named) = Len(longer)
      BY <1>8, <3>1, <3>2, <3>3, ExceptSeq
    <3>5. DOMAIN named = 1..Len(longer) /\ DOMAIN longer = 1..Len(longer)
      BY <3>1, <3>4, LenProperties
    <3> QED
      BY <1>8, <3>1, <3>2, <3>3, <3>4, <3>5, ExceptSeq
  <2>2. CASE ~(grace > 0)
    <3>1. named = [config.named EXCEPT ![k] = Fresh(n)]
      BY <2>2
    <3> HIDE DEF named
    <3> QED
      BY <1>2, <1>8, <3>1, Entry, ExceptSeq
  <2> QED
    BY <2>1, <2>2
<1> HIDE DEF named, kept
<1>10. /\ report \in Promised /\ report[issued + 1] = Forever
       /\ \A s \in Secrets : s <= issued => report[s] = rest[s]
       /\ \A s \in Secrets : s > issued + 1 => report[s] = Unissued
  BY <1>5, <1>7, ReportFacts
<1> HIDE DEF report
<1>11. ASSUME NEW i \in DOMAIN named, i # k
       PROVE  \/ /\ i \in DOMAIN config.named
                 /\ named[i].secret = config.named[i].secret
                 /\ named[i].until = config.named[i].until
                 /\ named[i].until \in Until
                 /\ named[i].secret \in Secrets /\ named[i].secret <= issued
                 /\ named[i].secret # old.secret
              \/ /\ i = Len(config.named) + 1
                 /\ named[i].secret = old.secret /\ named[i].until = until
  BY <1>2, <1>4, <1>9, <1>11, Entry DEF Entries, IInv, Sound, Distinct
<1> HIDE DEF old
<1>12. \A i \in DOMAIN named :
         \/ named[i].secret > issued /\ named[i].secret <= issued + 1
         \/ \E j \in DOMAIN config.named :
               /\ named[i].secret = config.named[j].secret
               /\ NoLater(named[i].until, config.named[j].until)
  BY <1>2, <1>3, <1>4, <1>8, <1>9, <1>11, Same DEF old
<1>13. \A i \in DOMAIN named :
          \/ report[named[i].secret] = Unissued
          \/ NoLater(named[i].until, report[named[i].secret])
  <2> TAKE i \in DOMAIN named
  <2>1. CASE i = k
    BY <1>8, <1>9, <1>10, <2>1 DEF NoLater
  <2>2. CASE /\ i # k /\ i \in DOMAIN config.named
             /\ named[i].secret = config.named[i].secret
             /\ named[i].until = config.named[i].until
             /\ named[i].secret \in Secrets /\ named[i].secret <= issued
             /\ named[i].secret # old.secret
    BY <1>5, <1>10, <2>2 DEF IInv, Sound, Bounded
  <2>3. CASE named[i].secret = old.secret /\ named[i].until = until
    BY <1>3, <1>6, <1>10, <2>3
  <2> QED
    BY <1>11, <2>1, <2>2, <2>3
<1>14. \A i, j \in DOMAIN named : named[i].secret = named[j].secret => i = j
  BY <1>3, <1>8, <1>9, <1>11, Constants DEF IInv, Sound, Distinct
<1>15. report[config.main] = promised[config.main] /\ issued <= issued + 1
  BY <1>3, <1>5, <1>10, Entry
<1> QED
  BY <1>7, <1>9, <1>10, <1>12, <1>13, <1>14, <1>15, FreshFacts, EditKeeps

LEMMA RevokeKeeps ==
  ASSUME IInv, NEW n \in Names, NEW grace \in Nat, Revoke(n, grace)
  PROVE  IInv'
<1> DEFINE until == now + grace
           named == [i \in DOMAIN config.named |->
                       IF i \in ActiveOf(n)
                         THEN [config.named[i] EXCEPT !.until = Sooner(@, until)]
                         ELSE config.named[i]]
           report == [s \in Secrets |->
                        IF \E i \in ActiveOf(n) : config.named[i].secret = s
                          THEN Sooner(promised[s], until) ELSE promised[s]]
<1>1. Transaction([config EXCEPT !.named = named], issued, report)
  BY DEF Revoke
<1>2. until \in Nat
  BY Entry
<1>3. ASSUME NEW i \in DOMAIN config.named
      PROVE  /\ named[i] \in Entries
             /\ named[i].secret = config.named[i].secret
             /\ NoLater(named[i].until, config.named[i].until)
             /\ i \notin ActiveOf(n) => named[i] = config.named[i]
             /\ i \in ActiveOf(n) => named[i].until = Sooner(config.named[i].until, until)
  <2>1. config.named[i] \in Entries
    BY Entry
  <2>2. config.named[i].until \in Until
    BY <2>1 DEF Entries
  <2> HIDE DEF until
  <2>3. /\ Sooner(config.named[i].until, until) \in Until
        /\ NoLater(Sooner(config.named[i].until, until), config.named[i].until)
        /\ NoLater(config.named[i].until, config.named[i].until)
    <3>1. until \in Int
      BY <1>2
    <3>2. NoLater(config.named[i].until, config.named[i].until)
      BY <2>2, Same
    <3>3. /\ Sooner(config.named[i].until, until) \in Int
          /\ NoLater(Sooner(config.named[i].until, until), config.named[i].until)
      BY <2>2, <3>1, <3>2, SoonerFacts
    <3> QED
      BY <3>2, <3>3 DEF Until
  <2> QED
    BY <2>1, <2>2, <2>3 DEF Entries
<1>4. DOMAIN named = DOMAIN config.named /\ DOMAIN named = 1..Len(config.named)
  BY Entry
<1>5. ASSUME NEW s \in Secrets
      PROVE  /\ report[s] \in Until \cup {Unissued}
             /\ report[s] = Unissued <=> promised[s] = Unissued
  <2>1. promised[s] \in Until \cup {Unissued}
    BY Entry DEF Promised
  <2>2. /\ Sooner(promised[s], until) \in Until \cup {Unissued}
        /\ Sooner(promised[s], until) = Unissued <=> promised[s] = Unissued
    BY <1>2, <2>1, SoonerReported
  <2> QED
    BY <2>1, <2>2
<1>6. report \in Promised
  BY <1>5 DEF Promised
<1>7. ASSUME NEW i \in DOMAIN config.named
      PROVE  \/ report[named[i].secret] = Unissued
             \/ NoLater(named[i].until, report[named[i].secret])
  <2> DEFINE s == config.named[i].secret
  <2>1. s \in Secrets /\ config.named[i].until \in Until
    BY Entry DEF Entries
  <2>2. promised[s] = Unissued \/ NoLater(config.named[i].until, promised[s])
    BY DEF IInv, Sound, Bounded
  <2>3. promised[s] \in Until
    BY <2>1, Entry DEF Promised, Until, Unissued
  <2>4. \A j \in DOMAIN config.named : config.named[j].secret = s => j = i
    BY DEF IInv, Sound, Distinct
  <2>5. report[s] = IF i \in ActiveOf(n) THEN Sooner(promised[s], until) ELSE promised[s]
    BY <2>1, <2>4 DEF ActiveOf
  <2>6. i \in ActiveOf(n) /\ promised[s] # Unissued =>
          NoLater(named[i].until, Sooner(promised[s], until))
    BY <1>2, <1>3, <2>1, <2>2, <2>3, SoonerFacts
  <2> HIDE DEF named, report
  <2> QED
    BY <1>3, <1>5, <2>1, <2>2, <2>5, <2>6
<1> HIDE DEF named, report
<1>8. named \in Seq(Entries)
  <2>1. Len(config.named) \in Nat
    BY Entry
  <2>2. named \in [1..Len(config.named) -> Entries]
    BY <1>3, <1>4 DEF named
  <2> QED
    BY <2>1, <2>2, SeqDef
<1>9. \A i, j \in DOMAIN named : named[i].secret = named[j].secret => i = j
  BY <1>3, <1>4 DEF IInv, Sound, Distinct
<1>10. report[config.main] = promised[config.main]
  BY Entry DEF report, ActiveOf
<1>11. \A s \in Secrets : s > issued => report[s] = Unissued
  BY <1>5 DEF IInv, Reportable
<1>12. \A i \in DOMAIN named :
         \E j \in DOMAIN config.named :
           /\ named[i].secret = config.named[j].secret
           /\ NoLater(named[i].until, config.named[j].until)
  BY <1>3, <1>4
<1>13. \A i \in DOMAIN named :
         \/ report[named[i].secret] = Unissued
         \/ NoLater(named[i].until, report[named[i].secret])
  BY <1>4, <1>7
<1>14. issued \in Secrets /\ issued <= issued
  BY Entry DEF IInv
<1> QED
  BY <1>1, <1>6, <1>8, <1>9, <1>10, <1>11, <1>12, <1>13, <1>14, EditKeeps

LEMMA RotateDefaultKeeps ==
  ASSUME IInv, RotateDefault
  PROVE  IInv'
<1> DEFINE new == [config EXCEPT !.main = issued + 1]
           rest == [promised EXCEPT ![config.main] = now]
           report == [rest EXCEPT ![issued + 1] = Forever]
<1>1. issued < MaxIssued /\ Transaction(new, issued + 1, report)
  BY DEF RotateDefault
<1>2. issued + 1 \in Secrets /\ promised[issued + 1] = Unissued
  BY <1>1, Entry, Constants DEF IInv, Reportable, Secrets
<1>3. new.main = issued + 1 /\ new.named = config.named /\ new \in Configs
  BY <1>2, Entry DEF Configs, Entries
<1>4. /\ rest \in Promised
      /\ \A s \in Secrets : s > issued => rest[s] = Unissued
      /\ \A s \in Secrets : s # config.main => rest[s] = promised[s]
  <2>1. \A s \in Secrets : s > issued => promised[s] = Unissued
    BY DEF IInv, Reportable
  <2> QED
    BY <2>1, Entry, Constants DEF Promised, Until
<1>5. /\ report \in Promised /\ report[issued + 1] = Forever
      /\ \A s \in Secrets : s <= issued => report[s] = rest[s]
      /\ \A s \in Secrets : s > issued + 1 => report[s] = Unissued
  BY <1>1, <1>4, ReportFacts
<1> HIDE DEF new, rest, report
<1>6. \A i \in DOMAIN config.named :
        /\ config.named[i].secret \in Secrets /\ config.named[i].secret <= issued
        /\ config.named[i].secret # config.main /\ config.named[i].secret \in Nat
  BY Entry, Constants DEF Entries
<1>7. Distinct(new) /\ Drawn(new, issued + 1)
  BY <1>3, <1>6, Entry DEF IInv, Sound, Distinct, Drawn
<1>8. Bounded(new, promised)
  BY <1>2, <1>3 DEF IInv, Sound, Bounded
<1>9. Bounded(new, report)
  BY <1>3, <1>4, <1>5, <1>6, <1>8 DEF Bounded
<1> QED
  BY <1>1, <1>2, <1>3, <1>5, <1>7, <1>8, <1>9, TransactionKeeps, Entry

-----------------------------------------------------------------------------
(* The steps that end a command, and the daemon's own. *)
LEMMA OtherKeeps ==
  ASSUME IInv,
         \/ Restarted \/ RestartFails \/ RecoveryRestartFails \/ Crash
         \/ DaemonStarts \/ DaemonDies \/ Tick \/ UNCHANGED vars
  PROVE  IInv'
<1> USE DEF IInv, Sound, Reportable, Transacting, Transactions
<1>1. CASE Restarted
  BY <1>1 DEF Restarted, Bounded
<1>2. CASE RestartFails
  <2>1. /\ UNCHANGED <<loaded, now, issued, promised>>
        /\ \/ config' = tx.prior /\ tx' = [tx EXCEPT !.phase = "recovering"]
           \/ tx' = None /\ config' = config
    BY <1>2 DEF RestartFails
  <2>2. tx # None
    BY <1>2 DEF RestartFails
  <2>3. CASE config' = tx.prior /\ tx' = [tx EXCEPT !.phase = "recovering"]
    BY <2>1, <2>2, <2>3
  <2>4. CASE tx' = None /\ config' = config
    BY <2>1, <2>4
  <2> QED
    BY <2>1, <2>3, <2>4
<1>3. CASE RecoveryRestartFails
  BY <1>3 DEF RecoveryRestartFails
<1>4. CASE Crash
  BY <1>4 DEF Crash
<1>5. CASE DaemonStarts
  BY <1>5 DEF DaemonStarts
<1>6. CASE DaemonDies
  BY <1>6 DEF DaemonDies
<1>7. CASE Tick
  BY <1>7 DEF Tick
<1>8. CASE UNCHANGED vars
  BY <1>8 DEF vars
<1> QED
  BY <1>1, <1>2, <1>3, <1>4, <1>5, <1>6, <1>7, <1>8

LEMMA StepInv == IInv /\ [Next]_vars => IInv'
<1> SUFFICES ASSUME IInv, [Next]_vars PROVE IInv'
  OBVIOUS
<1>1. ASSUME NEW n \in Names, Add(n) PROVE IInv'
  BY <1>1, AddKeeps
<1>2. ASSUME NEW n \in Names, NEW g \in Graces, Revoke(n, g) \/ Rotate(n, g)
      PROVE  IInv'
  BY <1>2, RevokeKeeps, RotateKeeps, Constants
<1>3. CASE RotateDefault
  BY <1>3, RotateDefaultKeeps
<1> QED
  BY <1>1, <1>2, <1>3, OtherKeeps DEF Next, Command

(* The rest of TypeOK: the bounds' counters. *)
Counters ==
  /\ now \in 0..MaxTime /\ suspect \in BOOLEAN
  /\ faults \in 0..MaxFaults /\ crashes \in 0..MaxCrashes

LEMMA StepCounters == Counters /\ [Next]_vars => Counters'
<1> SUFFICES ASSUME Counters, [Next]_vars PROVE Counters'
  OBVIOUS
<1>1. MaxTime \in Nat /\ MaxFaults \in Nat /\ MaxCrashes \in Nat
  BY CredentialConstants
<1>2. CASE Command
  BY <1>2 DEF Counters, Command, Add, Revoke, Rotate, RotateDefault, Transaction
<1>3. CASE RestartFails \/ RecoveryRestartFails \/ Crash \/ Tick
  <2>1. suspect' \in BOOLEAN
    BY <1>3 DEF Counters, RestartFails, RecoveryRestartFails, Crash, Tick
  <2>2. /\ now' \in 0..MaxTime
        /\ faults' \in 0..MaxFaults /\ crashes' \in 0..MaxCrashes
    BY <1>1, <1>3 DEF Counters, RestartFails, RecoveryRestartFails, Crash, Tick
  <2> QED
    BY <2>1, <2>2 DEF Counters
<1>4. CASE Restarted \/ DaemonStarts \/ DaemonDies \/ UNCHANGED vars
  BY <1>4 DEF Counters, Restarted, DaemonStarts, DaemonDies, vars
<1> QED
  BY <1>2, <1>3, <1>4 DEF Next

LEMMA InitCounters == Init => Counters
<1>1. Init => suspect \in BOOLEAN
  BY DEF Init
<1>2. Init => now = 0 /\ faults = 0 /\ crashes = 0
  BY DEF Init
<1> QED
  BY <1>1, <1>2, CredentialConstants DEF Counters

LEMMA Invariance == Spec => [](IInv /\ Counters)
  BY InitCounters, InitInv, StepInv, StepCounters, PTL DEF Spec

LEMMA InvServes == IInv => ServedWithinPromise
<1> SUFFICES ASSUME IInv, loaded # Down, NEW s \in Secrets,
                    Matches(loaded, s), promised[s] # Unissued
             PROVE  Live(promised[s])
  BY DEF ServedWithinPromise
<1>1. Bounded(loaded, promised)
  BY DEF IInv
<1>2. CASE loaded.main = s
  BY <1>1, <1>2 DEF Bounded, Live
<1>3. ASSUME NEW i \in DOMAIN loaded.named, loaded.named[i].secret = s,
             IsActive(loaded.named[i])
      PROVE  Live(promised[s])
  <2>1. NoLater(loaded.named[i].until, promised[s])
    BY <1>1, <1>3 DEF Bounded
  <2>2. loaded.named \in Seq(Entries)
    BY DEF IInv, Configs, Entries
  <2>3. loaded.named[i] \in Entries
    BY <2>2, LenProperties, ElementOfSeq
  <2>4. loaded.named[i].until \in Until /\ promised[s] \in Until /\ now \in Nat
    BY <2>3, Entry DEF Entries, Promised, Until, Unissued
  <2> QED
    BY <1>3, <2>1, <2>4, Constants DEF IsActive, Live, NoLater, Until
<1> QED
  BY <1>2, <1>3 DEF Matches

-----------------------------------------------------------------------------
(***************************************************************************)
(* What a command makes of a configuration, as sets of records: some are   *)
(* retired at d, some are fresh, and what is dropped is dead at t.  The    *)
(* order of the records matters to no reader but the commands.             *)
(***************************************************************************)
Records(c) == {c.named[i] : i \in DOMAIN c.named}

Over(until, t) == until # Forever /\ until <= t

Retire(r, S, d) == IF r \in S THEN [r EXCEPT !.until = Sooner(@, d)] ELSE r

Edited(c, new, S, d, fresh, t) ==
  /\ S \subseteq Records(c) /\ fresh \subseteq Records(new)
  /\ \A x \in Records(new) : x \in fresh \/ \E r \in Records(c) : x = Retire(r, S, d)
  /\ \A r \in Records(c) : Retire(r, S, d) \in Records(new) \/ Over(Retire(r, S, d).until, t)

LEMMA RecordFacts ==
  ASSUME NEW c \in Configs, Distinct(c)
  PROVE  /\ c.main \in Secrets
         /\ Records(c) \subseteq Entries
         /\ \A r \in Records(c) : r.secret # c.main
         /\ \A r, q \in Records(c) : r.secret = q.secret => r = q
<1>1. c.named \in Seq(Entries) /\ c.main \in Secrets
  BY DEF Configs, Entries
<1>2. \A i \in DOMAIN c.named : c.named[i] \in Entries
  BY <1>1, LenProperties, ElementOfSeq
<1> QED
  BY <1>1, <1>2 DEF Records, Distinct

LEMMA RetireFacts ==
  ASSUME NEW r \in Entries, NEW S, NEW d \in Int
  PROVE  /\ Retire(r, S, d).secret = r.secret /\ Retire(r, S, d).name = r.name
         /\ Retire(r, S, d).until = IF r \in S THEN Sooner(r.until, d) ELSE r.until
         /\ Retire(r, S, d) \in Entries
<1>1. r.until \in Until /\ Sooner(r.until, d) \in Until
  BY DEF Entries, Sooner, Until
<1> QED BY <1>1 DEF Retire, Entries

LEMMA AddEdits ==
  ASSUME IInv, NEW n \in Names, Add(n)
  PROVE  /\ \A r \in Records(config) : r.name = n => Over(r.until, now)
         /\ config'.main = config.main /\ config' \in Configs
         /\ issued < MaxIssued /\ issued' = issued + 1
         /\ Edited(config, config', {}, now, {Fresh(n)}, now)
         /\ tx' = [prior |-> config, drawn |-> issued, phase |-> "restarting",
                   report |-> [promised EXCEPT ![issued + 1] = Forever]]
<1> DEFINE Made(named) ==
             Transaction([config EXCEPT !.named = named], issued + 1,
                         [promised EXCEPT ![issued + 1] = Forever])
           old == {i \in DOMAIN config.named : config.named[i].name = n}
<1>1. issued < MaxIssued /\ Fresh(n) \in Entries
  BY FreshFacts DEF Add
<1>2. ASSUME NEW i \in old PROVE Over(config.named[i].until, now)
  <2>1. ~IsActive(config.named[i]) /\ config.named[i].until \in Until /\ now \in Nat
    BY Entry DEF Add, ActiveOf, Entries
  <2> QED BY <2>1, Constants DEF IsActive, Live, Over, Until
<1>3. \A r \in Records(config) : Retire(r, {}, now) = r
  BY DEF Retire
<1>4. \A r \in Records(config) : r.name = n => Over(r.until, now)
  BY <1>2 DEF Records
<1>5. ASSUME NEW named \in Seq(Entries), Made(named)
      PROVE  /\ config'.main = config.main /\ config'.named = named /\ config' \in Configs
             /\ issued' = issued + 1
             /\ tx' = [prior |-> config, drawn |-> issued, phase |-> "restarting",
                       report |-> [promised EXCEPT ![issued + 1] = Forever]]
  BY <1>5, Entry DEF Transaction, Configs, Entries
<1> HIDE DEF Made
<1>6. CASE Made(Append(config.named, Fresh(n)))
  <2> DEFINE named == Append(config.named, Fresh(n))
  <2>1. named \in Seq(Entries) /\ DOMAIN named = 1..(Len(config.named) + 1)
    BY <1>1, Entry
  <2>2. \A i \in DOMAIN named :
          named[i] = IF i = Len(config.named) + 1 THEN Fresh(n) ELSE config.named[i]
    BY <1>1, <2>1, Entry
  <2>3. /\ Len(config.named) + 1 \in DOMAIN named
        /\ DOMAIN config.named = DOMAIN named \ {Len(config.named) + 1}
    BY <2>1, Entry
  <2>4. Made(named)
    BY <1>6
  <2> HIDE DEF named
  <2>5. /\ Fresh(n) \in Records(config')
        /\ \A x \in Records(config') : x = Fresh(n) \/ x \in Records(config)
        /\ \A r \in Records(config) : r \in Records(config')
    BY <1>5, <2>1, <2>2, <2>3, <2>4 DEF Records
  <2> QED BY <1>1, <1>3, <1>5, <1>4, <2>1, <2>4, <2>5 DEF Edited
<1>7. ASSUME NEW k \in old, Made([config.named EXCEPT ![k] = Fresh(n)])
      PROVE  /\ config'.main = config.main /\ config' \in Configs
             /\ issued' = issued + 1
             /\ Edited(config, config', {}, now, {Fresh(n)}, now)
             /\ tx' = [prior |-> config, drawn |-> issued, phase |-> "restarting",
                       report |-> [promised EXCEPT ![issued + 1] = Forever]]
  <2> DEFINE named == [config.named EXCEPT ![k] = Fresh(n)]
  <2>1. named \in Seq(Entries) /\ DOMAIN named = DOMAIN config.named
    BY <1>1, Entry, ExceptSeq
  <2>2. \A i \in DOMAIN named : named[i] = IF i = k THEN Fresh(n) ELSE config.named[i]
    BY <2>1, Entry
  <2>3. Made(named)
    BY <1>7
  <2> HIDE DEF named
  <2>4. /\ Fresh(n) \in Records(config')
        /\ \A x \in Records(config') : x = Fresh(n) \/ x \in Records(config)
        /\ \A r \in Records(config) : r \in Records(config') \/ r = config.named[k]
    BY <1>5, <2>1, <2>2, <2>3 DEF Records
  <2> QED BY <1>2, <1>3, <1>5, <1>7, <2>1, <2>3, <2>4 DEF Edited
<1> QED BY <1>1, <1>6, <1>7, <1>4 DEF Add, First, Made

ActiveRecords(n) == {r \in Records(config) : r.name = n /\ IsActive(r)}

LEMMA RevokeEdits ==
  ASSUME IInv, NEW n \in Names, NEW grace \in Nat, Revoke(n, grace)
  PROVE  /\ config'.main = config.main /\ config' \in Configs
         /\ issued' = issued
         /\ Edited(config, config', ActiveRecords(n), now + grace, {}, now)
         /\ tx' = [prior |-> config, drawn |-> issued, phase |-> "restarting",
                   report |-> [s \in Secrets |->
                                 IF \E r \in ActiveRecords(n) : r.secret = s
                                   THEN Sooner(promised[s], now + grace) ELSE promised[s]]]
<1> DEFINE S == ActiveRecords(n)
           d == now + grace
           named == [i \in DOMAIN config.named |->
                       IF i \in ActiveOf(n)
                         THEN [config.named[i] EXCEPT !.until = Sooner(@, d)]
                         ELSE config.named[i]]
           report == [s \in Secrets |->
                        IF \E i \in ActiveOf(n) : config.named[i].secret = s
                          THEN Sooner(promised[s], d) ELSE promised[s]]
<1>1. Transaction([config EXCEPT !.named = named], issued, report)
  BY DEF Revoke
<1>2. d \in Int
  BY Entry
<1>3. ASSUME NEW i \in DOMAIN config.named
      PROVE  /\ i \in ActiveOf(n) <=> config.named[i] \in S
             /\ config.named[i] \in Records(config) /\ config.named[i] \in Entries
  BY Entry DEF ActiveOf, ActiveRecords, Records
<1>4. report = [s \in Secrets |-> IF \E r \in S : r.secret = s
                                    THEN Sooner(promised[s], d) ELSE promised[s]]
  BY <1>3 DEF ActiveOf, ActiveRecords, Records
<1>5. DOMAIN named = DOMAIN config.named
  OBVIOUS
<1>6. \A i \in DOMAIN config.named : named[i] = Retire(config.named[i], S, d)
  BY <1>3 DEF Retire
<1> HIDE DEF d, S
<1>7. named \in Seq(Entries)
  <2>1. Len(config.named) \in Nat /\ DOMAIN config.named = 1..Len(config.named)
    BY Entry
  <2>2. ASSUME NEW i \in DOMAIN config.named PROVE named[i] \in Entries
    <3> HIDE DEF named
    <3>1. config.named[i] \in Entries /\ named[i] = Retire(config.named[i], S, d)
      BY <1>3, <1>6
    <3> QED BY <1>2, <3>1, RetireFacts
  <2> HIDE DEF named
  <2>3. named \in [1..Len(config.named) -> Entries]
    <3>1. named = [i \in DOMAIN config.named |-> named[i]]
      BY DEF named
    <3> QED BY <2>1, <2>2, <3>1
  <2> QED BY <2>1, <2>3, SeqDef
<1> HIDE DEF named, report
<1>8. /\ config'.main = config.main /\ config'.named = named /\ config' \in Configs
      /\ issued' = issued
      /\ tx' = [prior |-> config, drawn |-> issued, phase |-> "restarting", report |-> report]
  BY <1>1, <1>7, Entry DEF Transaction, Configs, Entries
<1>9. Edited(config, config', S, d, {}, now)
  <2>1. S \subseteq Records(config)
    BY DEF S, ActiveRecords
  <2>2. \A x \in Records(config') : \E r \in Records(config) : x = Retire(r, S, d)
    BY <1>5, <1>6, <1>8 DEF Records
  <2>3. \A r \in Records(config) : Retire(r, S, d) \in Records(config')
    BY <1>5, <1>6, <1>8 DEF Records
  <2> QED BY <2>1, <2>2, <2>3 DEF Edited
<1> QED BY <1>4, <1>8, <1>9 DEF S, d

LEMMA RotateEdits ==
  ASSUME IInv, Validate(config), NEW n \in Names, NEW grace \in Nat, Rotate(n, grace)
  PROVE  \E old \in Records(config) :
           /\ old.name = n
           /\ \A r \in Records(config) : r.name = n /\ r.until = Forever => r = old
           /\ config'.main = config.main /\ config' \in Configs
           /\ issued < MaxIssued /\ issued' = issued + 1
           /\ Edited(config, config', {old}, now + grace, {Fresh(n)}, now)
           /\ tx' = [prior |-> config, drawn |-> issued, phase |-> "restarting",
                     report |-> [promised EXCEPT ![old.secret] = Sooner(@, now + grace),
                                                 ![issued + 1] = Forever]]
<1>1. PICK k \in Rotated(n) :
        LET old == config.named[k]
            retired == [old EXCEPT !.until = Sooner(@, now + grace)]
            kept == IF grace > 0 THEN Append(config.named, retired)
                    ELSE config.named
        IN /\ issued < MaxIssued
           /\ Transaction([config EXCEPT !.named = [kept EXCEPT ![k] = Fresh(n)]],
                          issued + 1,
                          [promised EXCEPT ![old.secret] = Sooner(@, now + grace),
                                           ![issued + 1] = Forever])
  BY DEF Rotate
<1> DEFINE old == config.named[k]
           d == now + grace
           retired == [old EXCEPT !.until = Sooner(@, d)]
           report == [promised EXCEPT ![old.secret] = Sooner(@, d), ![issued + 1] = Forever]
           kept == IF grace > 0 THEN Append(config.named, retired) ELSE config.named
           named == [kept EXCEPT ![k] = Fresh(n)]
<1>2. issued < MaxIssued /\ Transaction([config EXCEPT !.named = named], issued + 1, report)
  BY <1>1
<1>3. /\ k \in DOMAIN config.named /\ config.named[k].name = n
      /\ \A i \in DOMAIN config.named :
           config.named[i].name = n /\ config.named[i].until = Forever => i = k
  BY DEF Rotated, First, ActiveOf, Validate
<1>4. /\ old \in Records(config) /\ old \in Entries /\ now \in Nat /\ d \in Int
      /\ \A r \in Records(config) : r.name = n /\ r.until = Forever => r = old
      /\ \A i \in DOMAIN config.named : config.named[i] = old => i = k
  BY <1>3, Entry DEF Records, IInv, Sound, Distinct
<1>5. retired = Retire(old, {old}, d) /\ retired \in Entries
  BY <1>4, RetireFacts DEF Retire
<1>6. Fresh(n) \in Entries
  BY <1>2, FreshFacts
<1>7. ~(grace > 0) => Over(retired.until, now)
  <2>1. grace \in Nat /\ (~(grace > 0) => d = now) /\ old.until \in Until
    BY <1>4 DEF Entries
  <2>2. retired.until = Sooner(old.until, d)
    BY <1>4
  <2> QED BY <1>4, <2>1, <2>2, Constants DEF Sooner, Over, Until
<1> HIDE DEF retired, d, old
<1>8. /\ named \in Seq(Entries) /\ k \in DOMAIN named /\ named[k] = Fresh(n)
      /\ DOMAIN config.named \subseteq DOMAIN named
      /\ \A i \in DOMAIN named \ {k} :
           named[i] = IF i \in DOMAIN config.named THEN config.named[i] ELSE retired
      /\ grace > 0 => \E i \in DOMAIN named \ {k} : named[i] = retired
  <2>1. CASE grace > 0
    <3> DEFINE longer == Append(config.named, retired)
    <3>1. /\ longer \in Seq(Entries) /\ Len(longer) = Len(config.named) + 1
          /\ \A i \in 1..Len(longer) :
               longer[i] = IF i \in DOMAIN config.named THEN config.named[i] ELSE retired
          /\ longer[Len(config.named) + 1] = retired
      BY <1>5, Entry
    <3>2. named = [longer EXCEPT ![k] = Fresh(n)]
      BY <2>1
    <3>3. k \in 1..Len(longer) /\ k # Len(config.named) + 1
      BY <1>3, <3>1, Entry
    <3> HIDE DEF longer, named
    <3>4. named \in Seq(Entries) /\ Len(named) = Len(longer)
      BY <1>6, <3>1, <3>2, <3>3, ExceptSeq
    <3>5. DOMAIN named = 1..Len(longer) /\ DOMAIN longer = 1..Len(longer)
      BY <3>1, <3>4, LenProperties
    <3>6. \A i \in DOMAIN named : named[i] = IF i = k THEN Fresh(n) ELSE longer[i]
      BY <3>2, <3>5
    <3>7. DOMAIN config.named \subseteq DOMAIN named /\ Len(config.named) + 1 \in DOMAIN named
      BY <3>1, <3>5, Entry
    <3> QED BY <3>1, <3>3, <3>4, <3>5, <3>6, <3>7
  <2>2. CASE ~(grace > 0)
    <3>1. named = [config.named EXCEPT ![k] = Fresh(n)]
      BY <2>2
    <3> HIDE DEF named
    <3> QED BY <1>3, <1>6, <2>2, <3>1, Entry, ExceptSeq
  <2> QED BY <2>1, <2>2
<1> HIDE DEF named, kept, report
<1>9. /\ config'.main = config.main /\ config'.named = named /\ config' \in Configs
      /\ issued' = issued + 1
      /\ tx' = [prior |-> config, drawn |-> issued, phase |-> "restarting", report |-> report]
  BY <1>2, <1>8, Entry DEF Transaction, Configs, Entries
<1>10. Edited(config, config', {old}, d, {Fresh(n)}, now)
  <2>1. Fresh(n) \in Records(config')
    BY <1>8, <1>9 DEF Records
  <2>2. \A r \in Records(config) \ {old} : Retire(r, {old}, d) = r
    BY DEF Retire
  <2>3. ASSUME NEW x \in Records(config'), x # Fresh(n)
        PROVE  \E r \in Records(config) : x = Retire(r, {old}, d)
    <3>1. PICK i \in DOMAIN named : x = named[i]
      BY <1>9 DEF Records
    <3>2. CASE x = retired
      BY <1>4, <1>5, <3>2
    <3>3. CASE i \in DOMAIN config.named /\ x = config.named[i]
      BY <1>4, <1>8, <2>2, <2>3, <3>1, <3>3 DEF Records
    <3> QED BY <1>8, <2>3, <3>1, <3>2, <3>3
  <2>4. ASSUME NEW r \in Records(config)
        PROVE  Retire(r, {old}, d) \in Records(config') \/ Over(Retire(r, {old}, d).until, now)
    <3>1. CASE r = old
      BY <1>5, <1>7, <1>8, <1>9, <3>1 DEF Records
    <3>2. CASE r # old
      <4>1. PICK i \in DOMAIN config.named : r = config.named[i]
        BY DEF Records
      <4>2. i # k /\ i \in DOMAIN named /\ named[i] = r
        BY <1>8, <3>2, <4>1 DEF old
      <4> QED BY <1>9, <2>2, <3>2, <4>2 DEF Records
    <3> QED BY <3>1, <3>2
  <2> QED BY <1>4, <2>1, <2>3, <2>4 DEF Edited
<1> QED BY <1>2, <1>3, <1>4, <1>9, <1>10 DEF old, d, report

LEMMA RotateDefaultEdits ==
  ASSUME IInv, RotateDefault
  PROVE  /\ issued < MaxIssued /\ issued' = issued + 1
         /\ config' = [config EXCEPT !.main = issued + 1]
         /\ config'.main = issued + 1 /\ Records(config') = Records(config)
         /\ tx' = [prior |-> config, drawn |-> issued, phase |-> "restarting",
                   report |-> [promised EXCEPT ![config.main] = now, ![issued + 1] = Forever]]
<1>1. config' = [config EXCEPT !.main = issued + 1]
  BY DEF RotateDefault, Transaction
<1>2. config'.main = issued + 1 /\ config'.named = config.named
  BY <1>1, Entry
<1> QED BY <1>1, <1>2 DEF RotateDefault, Transaction, Records

-----------------------------------------------------------------------------
(***************************************************************************)
(* Links and reports agree.  Two expiries that are both over agree         *)
(* whatever they say, and stay so; a link that is gone is over.            *)
(***************************************************************************)
Alike(u, p, t) == u = p \/ (Over(u, t) /\ Over(p, t))

Accurate(c, p, t) ==
  /\ p[c.main] = Forever
  /\ \A r \in Records(c) : Alike(r.until, p[r.secret], t)
  /\ \A s \in Secrets :
       s # c.main /\ (\A r \in Records(c) : r.secret # s) => Over(p[s], t)

AInv ==
  /\ Validate(config) /\ (tx # None => Validate(tx.prior))
  /\ tx # None /\ tx.phase = "recovering" => config = tx.prior
  /\ ~suspect => IF tx = None THEN Accurate(config, promised, now)
                 ELSE /\ Accurate(tx.prior, promised, now)
                      /\ tx.phase = "restarting" => Accurate(config, tx.report, now)

LEMMA SoonerAlike ==
  ASSUME NEW u \in Until, NEW p \in Until \cup {Unissued}, NEW t \in Nat, NEW d \in Int,
         Alike(u, p, t)
  PROVE  Alike(Sooner(u, d), Sooner(p, d), t)
  BY Constants DEF Alike, Over, Sooner, Until, Unissued

LEMMA EditedIsAccurate ==
  ASSUME NEW c \in Configs, Distinct(c), NEW new \in Configs, NEW S, NEW d \in Int, NEW fresh,
         NEW t \in Nat, Edited(c, new, S, d, fresh, t), new.main = c.main,
         NEW p \in Promised, NEW q \in Promised, Accurate(c, p, t), q[c.main] = p[c.main],
         \A x \in fresh : x.until = Forever /\ x.secret \in Secrets /\ q[x.secret] = Forever,
         \A x \in fresh, r \in Records(c) : x.secret # r.secret,
         \A s \in Secrets : (\A x \in fresh : x.secret # s) =>
            q[s] = IF \E r \in S : r.secret = s THEN Sooner(p[s], d) ELSE p[s]
  PROVE  Accurate(new, q, t)
<1>1. /\ Records(c) \subseteq Entries /\ S \subseteq Records(c)
      /\ \A r, s \in Records(c) : r.secret = s.secret => r = s
  BY RecordFacts DEF Edited
<1>2. ASSUME NEW r \in Records(c)
      PROVE  /\ Retire(r, S, d).secret = r.secret /\ r.secret \in Secrets
             /\ Alike(Retire(r, S, d).until, q[r.secret], t)
  <2>1. r \in Entries /\ r.secret \in Secrets /\ r.until \in Until
    BY <1>1 DEF Entries
  <2>2. p[r.secret] \in Until \cup {Unissued} /\ Alike(r.until, p[r.secret], t)
    BY <2>1 DEF Promised, Accurate
  <2>3. q[r.secret] = IF r \in S THEN Sooner(p[r.secret], d) ELSE p[r.secret]
    BY <1>1, <2>1
  <2>4. /\ Retire(r, S, d).secret = r.secret
        /\ Retire(r, S, d).until = IF r \in S THEN Sooner(r.until, d) ELSE r.until
    BY <2>1, RetireFacts
  <2>5. Alike(Sooner(r.until, d), Sooner(p[r.secret], d), t)
    BY <2>1, <2>2, SoonerAlike
  <2> QED BY <2>1, <2>2, <2>3, <2>4, <2>5
<1>3. \A x \in Records(new) : Alike(x.until, q[x.secret], t)
  BY <1>2 DEF Edited, Alike
<1>4. ASSUME NEW s \in Secrets, s # new.main, \A x \in Records(new) : x.secret # s
      PROVE  Over(q[s], t)
  <2>1. \A x \in fresh : x.secret # s
    BY <1>4 DEF Edited
  <2>2. ASSUME NEW r \in Records(c), r.secret = s
        PROVE  Over(q[s], t)
    <3>1. Over(Retire(r, S, d).until, t)
      BY <1>2, <1>4, <2>2 DEF Edited
    <3> QED BY <1>2, <2>2, <3>1 DEF Alike
  <2>3. CASE \A r \in Records(c) : r.secret # s
    BY <1>1, <1>4, <2>1, <2>3 DEF Accurate
  <2> QED BY <2>2, <2>3
<1> QED BY <1>3, <1>4 DEF Accurate

LEMMA FreshReport ==
  ASSUME IInv, issued < MaxIssued, NEW n \in Names, NEW S, NEW d \in Int,
         Edited(config, config', S, d, {Fresh(n)}, now),
         config'.main = config.main, config' \in Configs, NEW q \in Promised,
         q[issued + 1] = Forever,
         \A s \in Secrets : s # issued + 1 =>
            q[s] = IF \E r \in S : r.secret = s THEN Sooner(promised[s], d) ELSE promised[s],
         Accurate(config, promised, now)
  PROVE  Accurate(config', q, now)
<1>1. /\ Fresh(n).secret = issued + 1 /\ Fresh(n).until = Forever /\ issued + 1 \in Secrets
      /\ config.main <= issued /\ config.main \in Secrets /\ now \in Nat /\ promised \in Promised
      /\ config.main # issued + 1
  <2>1. config.main \in Nat /\ config.main <= issued /\ issued \in Nat
    BY Entry, Constants
  <2>2. config.main # issued + 1
    BY <2>1
  <2>3. issued + 1 \in Secrets /\ Fresh(n).secret = issued + 1 /\ Fresh(n).until = Forever
    BY FreshFacts DEF Fresh
  <2> QED BY <2>1, <2>2, <2>3, Entry
<1>2. \A r \in Records(config) : r.secret # issued + 1 /\ r.secret # config.main
  BY Entry, Constants DEF Records, Entries
<1>3. S \subseteq Records(config) /\ config \in Configs /\ Distinct(config)
  BY DEF Edited, IInv, Sound
<1>4. q[config.main] = promised[config.main]
  BY <1>1, <1>2, <1>3
<1> QED BY <1>1, <1>2, <1>3, <1>4, EditedIsAccurate

LEMMA ReportsAreTyped ==
  ASSUME IInv
  PROVE  /\ [promised EXCEPT ![issued + 1] = Forever] \in Promised
         /\ [promised EXCEPT ![config.main] = now, ![issued + 1] = Forever] \in Promised
         /\ \A d \in Nat, s \in Secrets :
              [promised EXCEPT ![s] = Sooner(@, d), ![issued + 1] = Forever] \in Promised
         /\ \A d \in Nat : \A S :
              [s \in Secrets |-> IF \E r \in S : r.secret = s
                                   THEN Sooner(promised[s], d) ELSE promised[s]] \in Promised
<1>1. /\ promised \in [Secrets -> Until \cup {Unissued}] /\ now \in Until /\ Forever \in Until
  BY Entry DEF Promised, Until
<1>2. \A d \in Nat, s \in Secrets : Sooner(promised[s], d) \in Until \cup {Unissued}
  BY <1>1, SoonerReported
<1> QED BY <1>1, <1>2 DEF Promised

(* A command takes the lock on a deployment that is as reported, and       *)
(* prepares one that is as it will report.                                 *)
LEMMA CommandBegins ==
  ASSUME IInv, Validate(config), Command
  PROVE  /\ tx = None /\ tx' # None /\ tx'.prior = config /\ tx'.phase = "restarting"
         /\ tx'.drawn = issued /\ tx'.report \in Promised
         /\ Validate(config') /\ UNCHANGED <<now, promised, suspect>>
<1>1. ASSUME NEW new, NEW drawn, NEW report, Transaction(new, drawn, report)
      PROVE  /\ tx = None /\ Validate(config') /\ UNCHANGED <<now, promised, suspect>>
  BY <1>1 DEF Transaction
<1>2. tx = None /\ Validate(config') /\ UNCHANGED <<now, promised, suspect>>
  BY <1>1 DEF Command, Add, Revoke, Rotate, RotateDefault
<1>3. \E report \in Promised :
        tx' = [prior |-> config, drawn |-> issued, report |-> report, phase |-> "restarting"]
  <2>1. \A g \in Graces : g \in Nat /\ now + g \in Nat
    BY Entry, Constants
  <2>2. ASSUME NEW n \in Names, Add(n)
        PROVE  \E report \in Promised :
                 tx' = [prior |-> config, drawn |-> issued, report |-> report, phase |-> "restarting"]
    BY <2>2, AddEdits, ReportsAreTyped
  <2>3. ASSUME NEW n \in Names, NEW g \in Graces, Revoke(n, g)
        PROVE  \E report \in Promised :
                 tx' = [prior |-> config, drawn |-> issued, report |-> report, phase |-> "restarting"]
    BY <2>1, <2>3, RevokeEdits, ReportsAreTyped
  <2>4. ASSUME NEW n \in Names, NEW g \in Graces, Rotate(n, g)
        PROVE  \E report \in Promised :
                 tx' = [prior |-> config, drawn |-> issued, report |-> report, phase |-> "restarting"]
    <3>1. PICK old \in Records(config) :
            tx' = [prior |-> config, drawn |-> issued, phase |-> "restarting",
                   report |-> [promised EXCEPT ![old.secret] = Sooner(@, now + g),
                                               ![issued + 1] = Forever]]
      BY <2>1, <2>4, RotateEdits
    <3>2. old.secret \in Secrets
      BY RecordFacts DEF IInv, Sound, Entries
    <3> QED BY <2>1, <3>1, <3>2, ReportsAreTyped
  <2>5. CASE RotateDefault
    BY <2>5, RotateDefaultEdits, ReportsAreTyped
  <2> QED BY <2>2, <2>3, <2>4, <2>5 DEF Command
<1>4. tx' # None
  <2>1. config \in Configs /\ issued \in Nat
    BY Constants DEF IInv, Sound
  <2> QED BY <1>3, <2>1, NoneAssumption DEF Transactions, Promised
<1> QED BY <1>2, <1>3, <1>4

LEMMA CommandAccurate ==
  ASSUME IInv, AInv, Command, ~suspect
  PROVE  Accurate(config', tx'.report, now)
<1>1. /\ tx'.report \in Promised /\ tx = None
  BY CommandBegins DEF AInv
<1>2. /\ Accurate(config, promised, now) /\ config \in Configs /\ Distinct(config) /\ now \in Nat
      /\ promised \in Promised /\ issued + 1 \notin {config.main}
      /\ promised \in [Secrets -> Until \cup {Unissued}]
  <2>1. config.main \in Nat /\ config.main <= issued /\ issued \in Nat
    BY Entry, Constants
  <2> QED BY <1>1, <2>1, Entry DEF AInv, IInv, Sound, Promised
<1>3. \A r \in Records(config) : r.secret \in Secrets /\ r.secret # issued + 1 /\ r.secret # config.main
  BY Entry, Constants DEF Records, Entries
<1>4. \A g \in Graces : g \in Nat /\ now + g \in Int
  BY Entry, Constants
<1>5. ASSUME NEW n \in Names, Add(n) PROVE Accurate(config', tx'.report, now)
  <2>0. /\ config'.main = config.main /\ config' \in Configs /\ issued < MaxIssued
        /\ Edited(config, config', {}, now, {Fresh(n)}, now)
        /\ tx'.report = [promised EXCEPT ![issued + 1] = Forever]
    BY <1>5, AddEdits
  <2>1. issued + 1 \in Secrets
    BY <2>0, FreshFacts
  <2>2. /\ tx'.report[issued + 1] = Forever
        /\ \A s \in Secrets : s # issued + 1 =>
             tx'.report[s] = IF \E r \in {} : r.secret = s THEN Sooner(promised[s], now)
                             ELSE promised[s]
    BY <1>2, <2>0, <2>1
  <2> DEFINE S == {}
  <2>3. /\ Edited(config, config', S, now, {Fresh(n)}, now) /\ now \in Int
        /\ \A s \in Secrets : s # issued + 1 =>
             tx'.report[s] = IF \E r \in S : r.secret = s THEN Sooner(promised[s], now)
                             ELSE promised[s]
    BY <1>2, <2>0, <2>2
  <2> DEFINE q == tx'.report
  <2>4. /\ q \in Promised /\ q[issued + 1] = Forever
        /\ \A s \in Secrets : s # issued + 1 =>
             q[s] = IF \E r \in S : r.secret = s THEN Sooner(promised[s], now)
                             ELSE promised[s]
    BY <1>1, <2>2, <2>3
  <2> HIDE DEF S, q
  <2>5. Accurate(config', q, now)
    BY <1>2, <2>0, <2>3, <2>4, FreshReport
  <2> QED BY <2>5 DEF q
<1>6. ASSUME NEW n \in Names, NEW g \in Graces, Revoke(n, g)
      PROVE  Accurate(config', tx'.report, now)
  <2>1. /\ config'.main = config.main /\ config' \in Configs
        /\ Edited(config, config', ActiveRecords(n), now + g, {}, now)
        /\ tx'.report = [s \in Secrets |->
                           IF \E r \in ActiveRecords(n) : r.secret = s
                             THEN Sooner(promised[s], now + g) ELSE promised[s]]
    BY <1>4, <1>6, RevokeEdits
  <2>2. \A s \in Secrets : tx'.report[s] = IF \E r \in ActiveRecords(n) : r.secret = s
                                             THEN Sooner(promised[s], now + g) ELSE promised[s]
    BY <2>1
  <2>3. tx'.report[config.main] = promised[config.main]
    BY <1>3, <2>2, Entry DEF ActiveRecords
  <2> QED BY <1>1, <1>2, <1>4, <2>1, <2>2, <2>3, EditedIsAccurate
<1>7. ASSUME NEW n \in Names, NEW g \in Graces, Rotate(n, g)
      PROVE  Accurate(config', tx'.report, now)
  <2>1. PICK old \in Records(config) :
          /\ config'.main = config.main /\ config' \in Configs /\ issued < MaxIssued
          /\ Edited(config, config', {old}, now + g, {Fresh(n)}, now)
          /\ tx' = [prior |-> config, drawn |-> issued, phase |-> "restarting",
                    report |-> [promised EXCEPT ![old.secret] = Sooner(@, now + g),
                                                ![issued + 1] = Forever]]
    <3>1. Validate(config) /\ g \in Nat
      BY <1>4 DEF AInv
    <3> QED BY <1>7, <3>1, RotateEdits
  <2>2. issued + 1 \in Secrets
    BY <2>1, FreshFacts
  <2>3. /\ tx'.report[issued + 1] = Forever
        /\ \A s \in Secrets : s # issued + 1 =>
             tx'.report[s] = IF \E r \in {old} : r.secret = s THEN Sooner(promised[s], now + g)
                             ELSE promised[s]
    BY <1>2, <2>1, <2>2
  <2>4. now + g \in Int /\ tx'.report \in Promised
    BY <1>1, <1>4
  <2> DEFINE S == {old}
  <2>5. /\ Edited(config, config', S, now + g, {Fresh(n)}, now)
        /\ \A s \in Secrets : s # issued + 1 =>
             tx'.report[s] = IF \E r \in S : r.secret = s THEN Sooner(promised[s], now + g)
                             ELSE promised[s]
    BY <2>1, <2>3
  <2> DEFINE q == tx'.report
  <2>6. /\ q \in Promised /\ q[issued + 1] = Forever
        /\ \A s \in Secrets : s # issued + 1 =>
             q[s] = IF \E r \in S : r.secret = s THEN Sooner(promised[s], now + g)
                             ELSE promised[s]
    BY <2>3, <2>4, <2>5
  <2> HIDE DEF S, q
  <2>7. Accurate(config', q, now)
    BY <1>2, <2>1, <2>4, <2>5, <2>6, FreshReport
  <2> QED BY <2>7 DEF q
<1>8. CASE RotateDefault
  <2>1. /\ config'.main = issued + 1 /\ Records(config') = Records(config) /\ issued < MaxIssued
        /\ tx'.report = [promised EXCEPT ![config.main] = now, ![issued + 1] = Forever]
    BY <1>8, RotateDefaultEdits
  <2>2. issued + 1 \in Secrets /\ config.main \in Secrets
    BY <2>1, Entry, Constants DEF Secrets
  <2>3. /\ tx'.report[issued + 1] = Forever
        /\ \A s \in Secrets : s # issued + 1 =>
             tx'.report[s] = IF s = config.main THEN now ELSE promised[s]
    BY <1>2, <2>1, <2>2
  <2>4. Over(now, now)
    BY <1>2, Constants DEF Over
  <2> QED BY <1>2, <1>3, <2>1, <2>3, <2>4 DEF Accurate
<1> QED BY <1>5, <1>6, <1>7, <1>8 DEF Command

LEMMA StillAccurate ==
  ASSUME NEW c, NEW p \in Promised, NEW t \in Nat, NEW u \in Nat, t <= u, c \in Configs,
         Accurate(c, p, t)
  PROVE  Accurate(c, p, u)
<1>1. \A x \in Until \cup {Unissued} : Over(x, t) => Over(x, u)
  BY Constants DEF Over, Until, Unissued
<1>2. \A r \in Records(c) : r.until \in Until /\ r.secret \in Secrets
  <2>1. c.named \in Seq(Entries)
    BY DEF Configs, Entries
  <2>2. \A i \in DOMAIN c.named : c.named[i] \in Entries
    BY <2>1, LenProperties, ElementOfSeq
  <2> QED BY <2>2 DEF Records, Entries
<1> QED BY <1>1, <1>2 DEF Accurate, Alike, Promised

LEMMA StepAccurate == IInv /\ AInv /\ [Next]_vars => AInv'
<1> SUFFICES ASSUME IInv, AInv, [Next]_vars PROVE AInv'
  OBVIOUS
<1>1. CASE Command
  BY <1>1, CommandBegins, CommandAccurate DEF AInv
<1>2. CASE Restarted
  BY <1>2 DEF Restarted, AInv, IInv, Transacting, Transactions
<1>3. CASE RestartFails
  <2>1. /\ tx # None /\ tx.phase = "restarting" /\ UNCHANGED <<now, promised>>
        /\ tx \in Transactions
    BY <1>3 DEF RestartFails, IInv, Transacting
  <2>2. CASE config' = tx.prior /\ tx' = [tx EXCEPT !.phase = "recovering"] /\ suspect' = suspect
    <3>1. tx'.prior = tx.prior /\ tx'.phase = "recovering" /\ tx' # None
      BY <2>1, <2>2, NoneAssumption DEF Transactions
    <3> QED BY <2>1, <2>2, <3>1 DEF AInv
  <2>3. CASE tx' = None /\ suspect' = TRUE /\ config' = config
    BY <2>1, <2>3 DEF AInv
  <2> QED BY <1>3, <2>2, <2>3 DEF RestartFails
<1>4. CASE RecoveryRestartFails
  BY <1>4 DEF RecoveryRestartFails, AInv
<1>5. CASE Crash
  BY <1>5 DEF Crash, AInv
<1>6. CASE DaemonStarts \/ DaemonDies \/ UNCHANGED vars
  BY <1>6 DEF DaemonStarts, DaemonDies, vars, AInv
<1>7. CASE Tick
  <2>1. /\ now \in Nat /\ now' \in Nat /\ now <= now'
        /\ UNCHANGED <<config, tx, promised, suspect>>
    BY <1>7 DEF Tick, IInv
  <2>2. /\ promised \in Promised /\ config \in Configs
        /\ tx # None => tx.prior \in Configs /\ tx.report \in Promised
    BY DEF IInv, Sound, Reportable, Transacting
  <2> QED BY <2>1, <2>2, StillAccurate DEF AInv
<1> QED BY <1>1, <1>2, <1>3, <1>4, <1>5, <1>6, <1>7 DEF Next

LEMMA InitAccurate == Init => AInv
<1> SUFFICES ASSUME Init PROVE AInv
  OBVIOUS
<1>1. PICK legacy \in BOOLEAN :
        /\ config = [main |-> 1,
                     named |-> IF legacy THEN <<[name |-> Default, secret |-> 2,
                                                 until |-> Forever]>>
                               ELSE <<>>]
        /\ promised = [s \in Secrets |->
                         IF s = 1 \/ (legacy /\ s = 2) THEN Forever ELSE Unissued]
  BY DEF Init
<1>2. tx = None /\ now = 0 /\ config.main = 1
  BY <1>1 DEF Init
<1>3. /\ DOMAIN config.named = IF legacy THEN {1} ELSE {}
      /\ legacy => config.named[1] = [name |-> Default, secret |-> 2, until |-> Forever]
  BY <1>1
<1>4. Validate(config)
  BY <1>3 DEF Validate
<1>5. Records(config) = IF legacy THEN {[name |-> Default, secret |-> 2, until |-> Forever]}
                        ELSE {}
  BY <1>3 DEF Records
<1>6. \A s \in Secrets :
        promised[s] = IF s = 1 \/ (legacy /\ s = 2) THEN Forever ELSE Unissued
  BY <1>1
<1>7. Over(Unissued, now)
  BY <1>2, Constants DEF Over, Unissued
<1>8. ASSUME NEW r \in Records(config)
      PROVE  legacy /\ r.secret = 2 /\ r.until = Forever
  BY <1>5
<1>9. Accurate(config, promised, now)
  <2>1. promised[config.main] = Forever
    BY <1>2, <1>6, Constants
  <2>2. \A r \in Records(config) : r.until = promised[r.secret]
    BY <1>6, <1>8, Constants
  <2>3. legacy => \E r \in Records(config) : r.secret = 2
    <3>1. [name |-> Default, secret |-> 2, until |-> Forever].secret = 2
      OBVIOUS
    <3> QED BY <1>5, <3>1
  <2>4. \A s \in Secrets : s # 1 /\ (\A r \in Records(config) : r.secret # s) =>
          promised[s] = Unissued
    BY <1>6, <2>3
  <2> QED BY <1>2, <1>7, <2>1, <2>2, <2>4 DEF Accurate, Alike
<1> QED BY <1>2, <1>4, <1>9 DEF AInv

LEMMA Accuracy == Spec => [](IInv /\ AInv)
  BY InitInv, StepInv, InitAccurate, StepAccurate, PTL DEF Spec

LEMMA AccurateMatches ==
  ASSUME IInv, Accurate(config, promised, now)
  PROVE  \A s \in Secrets :
           Matches(config, s) <=> promised[s] # Unissued /\ Live(promised[s])
<1> SUFFICES ASSUME NEW s \in Secrets
             PROVE  Matches(config, s) <=> promised[s] # Unissued /\ Live(promised[s])
  OBVIOUS
<1>1. config \in Configs /\ Distinct(config) /\ now \in Nat /\ promised[s] \in Until \cup {Unissued}
  BY Entry DEF IInv, Sound, Promised
<1>2. Forever # Unissued
  BY Constants DEF Unissued
<1>3. ASSUME NEW u \in Until \cup {Unissued}
      PROVE  Over(u, now) <=> ~(u # Unissued /\ Live(u))
  BY <1>1, Constants DEF Over, Live, Until, Unissued
<1>4. CASE s = config.main
  BY <1>2, <1>4 DEF Accurate, Matches, Live
<1>5. ASSUME s # config.main, NEW r \in Records(config), r.secret = s
      PROVE  Matches(config, s) <=> promised[s] # Unissued /\ Live(promised[s])
  <2>1. /\ r \in Entries /\ r.until \in Until /\ (r.until # Unissued \/ Over(r.until, now))
        /\ \A q \in Records(config) : q.secret = s => q = r
    BY <1>1, <1>5, RecordFacts, Constants DEF Entries, Over, Until, Unissued
  <2>2. Matches(config, s) <=> Live(r.until)
    BY <1>5, <2>1 DEF Matches, Records, IsActive
  <2>3. Alike(r.until, promised[s], now)
    BY <1>5 DEF Accurate
  <2>4. r.until \in Until /\ (Live(r.until) <=> ~Over(r.until, now))
    BY <1>1, <1>5, RecordFacts, Constants DEF Entries, Over, Live, Until
  <2> QED BY <1>1, <1>3, <2>2, <2>3, <2>4 DEF Alike
<1>6. ASSUME s # config.main, \A r \in Records(config) : r.secret # s
      PROVE  Matches(config, s) <=> promised[s] # Unissued /\ Live(promised[s])
  BY <1>1, <1>3, <1>6 DEF Accurate, Matches, Records
<1> QED BY <1>4, <1>5, <1>6

-----------------------------------------------------------------------------
(***************************************************************************)
(* The commands as steps of the table of promises.  While a command is     *)
(* under way the table is still the old one; what it becomes when the      *)
(* command ends, by whatever way, is fixed by what the command edited, and *)
(* stays so while the clock runs.                                          *)
(***************************************************************************)
(* f lists the links served at t under main and the records of R. *)
IsTable(f, main, R, t) ==
  /\ f = [s \in DOMAIN f |-> f[s]]
  /\ main \in DOMAIN f /\ f[main] = [owner |-> Main, until |-> Forever]
  /\ \A r \in R : ~Over(r.until, t) =>
       r.secret \in DOMAIN f /\ f[r.secret] = [owner |-> r.name, until |-> r.until]
  /\ \A s \in DOMAIN f : s = main \/ \E r \in R : r.secret = s /\ ~Over(r.until, t)

LEMMA SameTable ==
  ASSUME NEW main, NEW R, NEW t, NEW f, NEW g, IsTable(f, main, R, t), IsTable(g, main, R, t)
  PROVE  f = g
<1>1. DOMAIN f = DOMAIN g
  BY ZenonT(40) DEF IsTable
<1>2. ASSUME NEW s \in DOMAIN f PROVE f[s] = g[s]
  <2>1. CASE s = main
    BY <2>1 DEF IsTable
  <2>2. ASSUME NEW r \in R, r.secret = s, ~Over(r.until, t)
        PROVE  f[s] = g[s]
    BY ZenonT(40), <2>2 DEF IsTable
  <2> QED BY <2>1, <2>2 DEF IsTable
<1> QED BY <1>1, <1>2 DEF IsTable

TablesAgree ==
  \A c : c \in Configs /\ Distinct(c) /\ now \in Nat =>
    IsTable(Table(c), c.main, Records(c), now)

LEMMA TableIs == TablesAgree
<1> SUFFICES ASSUME NEW c, c \in Configs, Distinct(c), now \in Nat
             PROVE  IsTable(Table(c), c.main, Records(c), now)
  BY DEF TablesAgree
<1>1. /\ c.main \in Secrets /\ Records(c) \subseteq Entries
      /\ \A r \in Records(c) : r.secret # c.main
      /\ \A r, q \in Records(c) : r.secret = q.secret => r = q
  BY RecordFacts
<1>2. \A r \in Records(c) : Live(r.until) <=> ~Over(r.until, now)
  BY <1>1, Constants DEF Entries, Live, Over, Until
<1>3. DOMAIN Table(c) = {s \in Secrets : Matches(c, s)}
  BY DEF Table
<1>4. \A s \in Secrets :
        Matches(c, s) <=> s = c.main \/ \E r \in Records(c) : r.secret = s /\ ~Over(r.until, now)
  BY <1>2 DEF Matches, Records, IsActive
<1>5. Table(c)[c.main] = [owner |-> Main, until |-> Forever]
  BY <1>1, <1>4 DEF Table
<1>6. ASSUME NEW r \in Records(c), ~Over(r.until, now)
      PROVE  r.secret \in DOMAIN Table(c) /\ Table(c)[r.secret] = [owner |-> r.name, until |-> r.until]
  <2>1. r.secret \in Secrets /\ Matches(c, r.secret) /\ r.secret # c.main
    BY <1>1, <1>4, <1>6 DEF Entries
  <2> DEFINE i == CHOOSE j \in DOMAIN c.named :
                    c.named[j].secret = r.secret /\ IsActive(c.named[j])
  <2>2. \E j \in DOMAIN c.named : c.named[j].secret = r.secret /\ IsActive(c.named[j])
    BY <1>2, <1>6 DEF Records, IsActive
  <2>3. i \in DOMAIN c.named /\ c.named[i].secret = r.secret
    BY <2>2
  <2>4. Table(c)[r.secret] = [owner |-> c.named[i].name, until |-> c.named[i].until]
    BY <2>1 DEF Table
  <2> HIDE DEF i
  <2>5. c.named[i] = r
    BY <1>1, <2>3 DEF Records
  <2> QED BY <1>3, <2>1, <2>4, <2>5
<1>7. Table(c) = [s \in DOMAIN Table(c) |-> Table(c)[s]]
  BY DEF Table
<1> QED BY <1>1, <1>3, <1>4, <1>5, <1>6, <1>7 DEF IsTable

LEMMA TableIsNext == TablesAgree'
  BY TableIs, PTL

(* Only the records that are not over matter. *)
LEMMA LiveRecords ==
  ASSUME NEW main, NEW R, NEW Q, NEW t, NEW f, IsTable(f, main, R, t),
         \A r \in R : r \in Q \/ Over(r.until, t),
         \A r \in Q : r \in R \/ Over(r.until, t)
  PROVE  IsTable(f, main, Q, t)
  BY DEF IsTable

LEMMA OverRetires ==
  ASSUME NEW u \in Until, NEW d \in Int, NEW t \in Nat
  PROVE  /\ Sooner(u, d) = Promises!Earlier(u, d)
         /\ Over(u, t) => Over(Sooner(u, d), t)
         /\ Over(Sooner(u, d), t) <=> ~Promises!Live(Sooner(u, d), t)
         /\ Over(u, t) <=> ~Promises!Live(u, t)
  BY Constants DEF Sooner, Over, Until, Promises!Earlier, Promises!Live

(* X are the secrets under which f lists the records of S that c serves. *)
ListedAs(c, S, X, t) ==
  /\ c.main \notin X
  /\ \A r \in Records(c) : ~Over(r.until, t) => (r \in S <=> r.secret \in X)

LEMMA RecordsRetired ==
  ASSUME NEW c \in Configs, Distinct(c), NEW t \in Nat, NEW f,
         IsTable(f, c.main, Records(c), t),
         NEW S, NEW X, ListedAs(c, S, X, t), NEW d \in Int
  PROVE  IsTable(Promises!Pruned(Promises!Retired(f, X, d), t), c.main,
                 {Retire(r, S, d) : r \in Records(c)}, t)
<1> DEFINE R == Records(c)
           main == c.main
<1>0. /\ IsTable(f, main, R, t) /\ R \subseteq Entries /\ main \notin X
      /\ \A r \in R : r.secret # main
      /\ \A r \in R : ~Over(r.until, t) => (r \in S <=> r.secret \in X)
  BY RecordFacts DEF ListedAs
<1> HIDE DEF R, main
<1> DEFINE h == Promises!Retired(f, X, d)
           g == Promises!Pruned(h, t)
<1>1. /\ DOMAIN h = DOMAIN f
      /\ \A s \in DOMAIN f :
           h[s] = IF s \in X THEN [f[s] EXCEPT !.until = Promises!Earlier(@, d)] ELSE f[s]
  BY DEF Promises!Retired
<1> HIDE DEF h
<1>2. /\ DOMAIN g = {s \in DOMAIN h : Promises!Live(h[s].until, t)}
      /\ \A s \in DOMAIN g : g[s] = h[s]
      /\ g = [s \in DOMAIN g |-> g[s]]
  BY DEF Promises!Pruned
<1> HIDE DEF g
<1>3. main \in DOMAIN g /\ g[main] = [owner |-> Main, until |-> Forever]
  BY <1>0, <1>1, <1>2 DEF IsTable, Promises!Live
<1>4. ASSUME NEW r \in R
      PROVE  /\ Retire(r, S, d).secret = r.secret /\ Retire(r, S, d).name = r.name
             /\ Retire(r, S, d).until = IF r \in S THEN Sooner(r.until, d) ELSE r.until
             /\ r.until \in Until
  BY <1>0, RetireFacts DEF Entries
<1>5. ASSUME NEW r \in R, ~Over(r.until, t)
      PROVE  /\ r.secret \in DOMAIN h
             /\ h[r.secret] = [owner |-> r.name, until |-> Retire(r, S, d).until]
             /\ Promises!Live(h[r.secret].until, t) <=> ~Over(Retire(r, S, d).until, t)
  <2>1. r.secret \in DOMAIN f /\ f[r.secret] = [owner |-> r.name, until |-> r.until]
    BY <1>0, <1>5 DEF IsTable
  <2>2. Sooner(r.until, d) = Promises!Earlier(r.until, d)
    BY <1>4, OverRetires
  <2>3. h[r.secret] = [owner |-> r.name, until |-> Retire(r, S, d).until]
    BY <1>0, <1>1, <1>4, <1>5, <2>1, <2>2
  <2>4. Promises!Live(Retire(r, S, d).until, t) <=> ~Over(Retire(r, S, d).until, t)
    BY <1>4, OverRetires
  <2> QED BY <1>1, <2>1, <2>3, <2>4
<1>6. ASSUME NEW r \in R, ~Over(Retire(r, S, d).until, t)
      PROVE  /\ Retire(r, S, d).secret \in DOMAIN g
             /\ g[Retire(r, S, d).secret] =
                  [owner |-> Retire(r, S, d).name, until |-> Retire(r, S, d).until]
  <2>1. ~Over(r.until, t)
    BY <1>4, <1>6, OverRetires
  <2> QED BY <1>2, <1>4, <1>5, <1>6, <2>1
<1>7. ASSUME NEW s \in DOMAIN g, s # main
      PROVE  \E r \in R : Retire(r, S, d).secret = s /\ ~Over(Retire(r, S, d).until, t)
  <2>1. s \in DOMAIN f /\ Promises!Live(h[s].until, t)
    BY <1>1, <1>2
  <2>2. PICK r \in R : r.secret = s /\ ~Over(r.until, t)
    BY <1>0, <1>7, <2>1 DEF IsTable
  <2> QED BY <1>4, <1>5, <2>1, <2>2
<1>8. IsTable(g, main, {Retire(r, S, d) : r \in R}, t)
  BY <1>2, <1>3, <1>6, <1>7 DEF IsTable
<1> QED BY <1>8 DEF g, h, R, main

Issued(n, k) == [name |-> n, secret |-> k, until |-> Forever]

LEMMA TableWith ==
  ASSUME NEW main, NEW R, NEW t, NEW n, NEW k, k # main, \A r \in R : r.secret # k,
         NEW f, IsTable(f, main, R, t)
  PROVE  IsTable(Promises!With(f, k, n), main, R \cup {Issued(n, k)}, t)
<1> DEFINE g == Promises!With(f, k, n)
<1>1. /\ DOMAIN g = DOMAIN f \cup {k}
      /\ \A s \in DOMAIN g : g[s] = IF s = k THEN [owner |-> n, until |-> Forever] ELSE f[s]
      /\ g = [s \in DOMAIN g |-> g[s]]
  BY DEF Promises!With
<1> HIDE DEF g
<1>2. ~Over(Issued(n, k).until, t) /\ Issued(n, k).secret = k /\ Issued(n, k).name = n
      /\ Issued(n, k).until = Forever
  BY DEF Over, Issued
<1>3. IsTable(g, main, R \cup {Issued(n, k)}, t)
  BY <1>1, <1>2 DEF IsTable
<1> QED BY <1>3 DEF g

(* The default link gives way to a new one at once. *)
LEMMA TableRotated ==
  ASSUME NEW main, NEW R, R \subseteq Entries, NEW t \in Nat, NEW k, k # main,
         \A r \in R : r.secret # k /\ r.secret # main,
         NEW f, IsTable(f, main, R, t)
  PROVE  IsTable(Promises!With(Promises!Pruned(Promises!Retired(f, {main}, t), t), k, Main),
                 k, R, t)
<1> DEFINE X == {main}
           h == Promises!Retired(f, X, t)
           p == Promises!Pruned(h, t)
           g == Promises!With(p, k, Main)
<1>0. \A s : s \in X <=> s = main
  OBVIOUS
<1> HIDE DEF X
<1>1. /\ DOMAIN h = DOMAIN f
      /\ \A s \in DOMAIN f :
           h[s] = IF s \in X THEN [f[s] EXCEPT !.until = Promises!Earlier(@, t)] ELSE f[s]
  BY DEF Promises!Retired
<1> HIDE DEF h
<1>2. /\ DOMAIN p = {s \in DOMAIN h : Promises!Live(h[s].until, t)}
      /\ \A s \in DOMAIN p : p[s] = h[s]
  BY DEF Promises!Pruned
<1> HIDE DEF p
<1>3. /\ DOMAIN g = DOMAIN p \cup {k}
      /\ \A s \in DOMAIN g : g[s] = IF s = k THEN [owner |-> Main, until |-> Forever] ELSE p[s]
      /\ g = [s \in DOMAIN g |-> g[s]]
  BY DEF Promises!With
<1> HIDE DEF g
<1>4. main \notin DOMAIN p
  <2>1. h[main].until = t
    BY <1>0, <1>1 DEF IsTable, Promises!Earlier
  <2> QED BY <1>2, <2>1, Constants DEF Promises!Live
<1>5. ASSUME NEW s \in DOMAIN f, s # main
      PROVE  h[s] = f[s] /\ s \in DOMAIN p /\ p[s] = f[s]
  <2>1. h[s] = f[s] /\ s \in DOMAIN h
    BY <1>0, <1>1, <1>5
  <2>2. PICK r \in R : r.secret = s /\ ~Over(r.until, t)
    BY <1>5 DEF IsTable
  <2>3. f[s] = [owner |-> r.name, until |-> r.until] /\ r \in Entries
    BY <2>2 DEF IsTable
  <2>5. f[s].until = r.until /\ r.until \in Until
    BY <2>3 DEF Entries
  <2>4. Promises!Live(r.until, t)
    BY <2>2, <2>5, OverRetires
  <2> QED BY <1>2, <2>1, <2>5, <2>4
<1>6. \A s \in DOMAIN p : s \in DOMAIN f /\ s # main
  BY <1>1, <1>2, <1>4
<1>7. IsTable(g, k, R, t)
  BY <1>3, <1>5, <1>6 DEF IsTable
<1> QED BY <1>7 DEF g, p, h, X

(* What a command that drew the secrets up to j makes of c, in which they  *)
(* were drawn up to k; true of it as long as the clock runs on.            *)
Renews(c, new, k, t) ==
  \E n \in Names, d \in Instants, S \in SUBSET Records(c) :
    /\ \A r \in S : r.name = n
    /\ S = {} \/ \E old \in S : S = {old}
    /\ \A r \in Records(c) \ S : r.name = n => r.until # Forever
    /\ new.main = c.main
    /\ Edited(c, new, S, d, {Issued(n, k + 1)}, t)

Withdraws(c, new, t) ==
  \E n \in Names, d \in Instants, S \in SUBSET Records(c) :
    /\ \A r \in S : r.name = n
    /\ \A r \in Records(c) \ S : r.name = n => Over(r.until, t)
    /\ new.main = c.main
    /\ Edited(c, new, S, d, {}, t)

Changes(c, new, k, j, t) ==
  \/ j = k + 1 /\ Renews(c, new, k, t)
  \/ j = k /\ Withdraws(c, new, t)
  \/ j = k + 1 /\ new.main = k + 1 /\ Records(new) = Records(c)

LEMMA InstantFacts == Instants \subseteq Nat /\ 0..MaxTime \subseteq Instants
  BY CredentialConstants DEF Instants

LEMMA EditedLater ==
  ASSUME NEW c \in Configs, Distinct(c), NEW new, NEW S, NEW d \in Int, NEW fresh,
         NEW t \in Nat, NEW u \in Nat, t <= u, Edited(c, new, S, d, fresh, t)
  PROVE  Edited(c, new, S, d, fresh, u)
<1>1. \A r \in Records(c) : Retire(r, S, d).until \in Until
  BY RecordFacts, RetireFacts DEF Entries
<1>2. \A r \in Records(c) : Over(Retire(r, S, d).until, t) => Over(Retire(r, S, d).until, u)
  BY <1>1, Constants DEF Over, Until
<1> QED BY <1>2 DEF Edited

LEMMA ChangesLater ==
  ASSUME NEW c \in Configs, Distinct(c), NEW new, NEW k, NEW j,
         NEW t \in Nat, NEW u \in Nat, t <= u, Changes(c, new, k, j, t)
  PROVE  Changes(c, new, k, j, u)
<1>1. CASE j = k + 1 /\ Renews(c, new, k, t)
  <2>1. PICK n \in Names, d \in Instants, S \in SUBSET Records(c) :
          /\ \A r \in S : r.name = n
          /\ S = {} \/ \E old \in S : S = {old}
          /\ \A r \in Records(c) \ S : r.name = n => r.until # Forever
          /\ new.main = c.main
          /\ Edited(c, new, S, d, {Issued(n, k + 1)}, t)
    BY <1>1 DEF Renews
  <2> DEFINE F == {Issued(n, k + 1)}
  <2>2. Edited(c, new, S, d, F, t) /\ d \in Int
    BY <2>1, InstantFacts
  <2> HIDE DEF F
  <2>3. Edited(c, new, S, d, F, u)
    BY <2>2, EditedLater
  <2> QED BY <1>1, <2>1, <2>3 DEF F, Changes, Renews
<1>2. CASE j = k /\ Withdraws(c, new, t)
  <2>1. PICK n \in Names, d \in Instants, S \in SUBSET Records(c) :
          /\ \A r \in S : r.name = n
          /\ \A r \in Records(c) \ S : r.name = n => Over(r.until, t)
          /\ new.main = c.main
          /\ Edited(c, new, S, d, {}, t)
    BY <1>2 DEF Withdraws
  <2> DEFINE F == {}
  <2>2. Edited(c, new, S, d, F, t) /\ d \in Int
    BY <2>1, InstantFacts
  <2> HIDE DEF F
  <2>3. Edited(c, new, S, d, F, u)
    BY <2>2, EditedLater
  <2>4. \A r \in Records(c) : Over(r.until, t) => Over(r.until, u)
    BY RecordFacts, Constants DEF Entries, Over, Until
  <2> QED BY <1>2, <2>1, <2>3, <2>4 DEF F, Changes, Withdraws
<1> QED BY <1>1, <1>2 DEF Changes

(* The table of the edited configuration: retired links only, or a fresh   *)
(* one as well.                                                            *)
LEMMA TableWithdrawn ==
  ASSUME NEW c \in Configs, Distinct(c), NEW t \in Nat, NEW f,
         IsTable(f, c.main, Records(c), t),
         NEW S, NEW X, ListedAs(c, S, X, t), NEW d \in Int,
         NEW new, Edited(c, new, S, d, {}, t)
  PROVE  IsTable(Promises!Pruned(Promises!Retired(f, X, d), t), c.main, Records(new), t)
<1> DEFINE R == {Retire(r, S, d) : r \in Records(c)}
<1>1. IsTable(Promises!Pruned(Promises!Retired(f, X, d), t), c.main, R, t)
  BY RecordsRetired
<1>2. \A x \in R : x \in Records(new) \/ Over(x.until, t)
  BY DEF Edited
<1>3. \A x \in Records(new) : x \in R \/ Over(x.until, t)
  BY DEF Edited
<1> HIDE DEF R
<1> QED BY <1>1, <1>2, <1>3, LiveRecords

LEMMA TableRenewed ==
  ASSUME NEW c \in Configs, Distinct(c), NEW t \in Nat, NEW f,
         IsTable(f, c.main, Records(c), t),
         NEW S, NEW X, ListedAs(c, S, X, t), NEW d \in Int,
         NEW n, NEW k, k # c.main, \A r \in Records(c) : r.secret # k,
         NEW new, Edited(c, new, S, d, {Issued(n, k)}, t)
  PROVE  IsTable(Promises!With(Promises!Pruned(Promises!Retired(f, X, d), t), k, n),
                 c.main, Records(new), t)
<1> DEFINE p == Promises!Pruned(Promises!Retired(f, X, d), t)
           R == {Retire(r, S, d) : r \in Records(c)}
           Q == R \cup {Issued(n, k)}
           w == Promises!With(p, k, n)
<1>1. IsTable(p, c.main, R, t)
  BY RecordsRetired
<1>2. \A x \in R : x.secret # k
  BY RecordFacts, RetireFacts
<1>3. IsTable(w, c.main, Q, t)
  <2> HIDE DEF R, p
  <2> QED BY <1>1, <1>2, TableWith
<1>4. \A x \in Q : x \in Records(new) \/ Over(x.until, t)
  BY DEF Edited
<1>5. \A x \in Records(new) : x \in Q \/ Over(x.until, t)
  BY DEF Edited
<1> HIDE DEF w, Q
<1>6. IsTable(w, c.main, Records(new), t)
  BY <1>3, <1>4, <1>5, LiveRecords
<1> QED BY <1>6 DEF w, p

(* The links of n in f, and those nobody has retired. *)
OwnedIn(f, n) == {s \in DOMAIN f : f[s].owner = n}

CurrentIn(f, n) == {s \in OwnedIn(f, n) : f[s].until = Forever}

IssuesLink(f, g, k) ==
  \E n \in Names : CurrentIn(f, n) = {} /\ g = Promises!With(f, k + 1, n)

RevokesLinks(f, g, t) ==
  \E n \in Names, d \in Instants :
    g = Promises!Pruned(Promises!Retired(f, OwnedIn(f, n), d), t)

RotatesLink(f, g, k, t) ==
  \E n \in Names \cup {Main} : \E d \in Instants, old \in OwnedIn(f, n) :
    /\ CurrentIn(f, n) \subseteq {old}
    /\ g = Promises!With(Promises!Pruned(Promises!Retired(f, {old}, d), t), k + 1, n)

LEMMA OwnedFacts ==
  ASSUME NEW c \in Configs, Distinct(c), NEW t \in Nat, NEW f,
         IsTable(f, c.main, Records(c), t), NEW n \in Names
  PROVE  /\ c.main \notin OwnedIn(f, n)
         /\ \A r \in Records(c) : ~Over(r.until, t) =>
              r.secret \in DOMAIN f /\ f[r.secret].owner = r.name /\ f[r.secret].until = r.until
         /\ \A s \in OwnedIn(f, n) :
              \E r \in Records(c) : r.secret = s /\ r.name = n /\ ~Over(r.until, t)
<1>1. ASSUME NEW r \in Records(c), ~Over(r.until, t)
      PROVE  r.secret \in DOMAIN f /\ f[r.secret].owner = r.name /\ f[r.secret].until = r.until
  <2>1. r.secret \in DOMAIN f /\ f[r.secret] = [owner |-> r.name, until |-> r.until]
    BY <1>1 DEF IsTable
  <2> QED BY <2>1
<1>2. f[c.main].owner = Main
  BY DEF IsTable
<1>3. c.main \notin OwnedIn(f, n)
  BY <1>2, CredentialConstants DEF OwnedIn
<1>4. ASSUME NEW s \in OwnedIn(f, n)
      PROVE  \E r \in Records(c) : r.secret = s /\ r.name = n /\ ~Over(r.until, t)
  <2>1. s \in DOMAIN f /\ f[s].owner = n /\ s # c.main
    BY <1>3 DEF OwnedIn
  <2>2. PICK r \in Records(c) : r.secret = s /\ ~Over(r.until, t)
    BY <2>1 DEF IsTable
  <2> QED BY <1>1, <2>1, <2>2
<1> QED BY <1>1, <1>3, <1>4

(* Retired records stop at once, and links nobody had stay nobody's. *)
LEMMA NothingRetired ==
  ASSUME NEW c \in Configs, Distinct(c), NEW t \in Nat, NEW f,
         IsTable(f, c.main, Records(c), t), NEW X, X = {}, NEW d \in Int
  PROVE  Promises!Pruned(Promises!Retired(f, X, d), t) = f
<1> DEFINE h == Promises!Retired(f, X, d)
           p == Promises!Pruned(h, t)
<1>1. DOMAIN h = DOMAIN f /\ \A s \in DOMAIN f : h[s] = f[s]
  BY DEF Promises!Retired
<1> HIDE DEF h
<1>2. /\ DOMAIN p = {s \in DOMAIN h : Promises!Live(h[s].until, t)}
      /\ \A s \in DOMAIN p : p[s] = h[s]
      /\ p = [s \in DOMAIN p |-> p[s]]
  BY DEF Promises!Pruned
<1> HIDE DEF p
<1>3. ASSUME NEW s \in DOMAIN f PROVE Promises!Live(f[s].until, t)
  <2>1. CASE s = c.main
    BY <2>1 DEF IsTable, Promises!Live
  <2>2. ASSUME NEW r \in Records(c), r.secret = s, ~Over(r.until, t)
        PROVE  Promises!Live(f[s].until, t)
    <3>1. f[s] = [owner |-> r.name, until |-> r.until]
      BY <2>2 DEF IsTable
    <3>2. r.until \in Until /\ f[s].until = r.until
      BY <3>1, RecordFacts DEF Entries
    <3>3. 0 \in Int
      OBVIOUS
    <3> QED BY <2>2, <3>2, <3>3, OverRetires
  <2> QED BY <2>1, <2>2 DEF IsTable
<1>4. DOMAIN p = DOMAIN f /\ \A s \in DOMAIN p : p[s] = f[s]
  BY <1>1, <1>2, <1>3
<1>5. p = f
  BY <1>2, <1>4 DEF IsTable
<1> QED BY <1>5 DEF p, h

LEMMA ChangeIsAStep ==
  ASSUME NEW c \in Configs, Distinct(c), NEW k \in Nat, Drawn(c, k), NEW new, NEW j,
         NEW t \in 0..MaxTime, Changes(c, new, k, j, t),
         NEW f, IsTable(f, c.main, Records(c), t),
         NEW g, IsTable(g, new.main, Records(new), t)
  PROVE  \/ j = k + 1 /\ (IssuesLink(f, g, k) \/ RotatesLink(f, g, k, t))
         \/ j = k /\ RevokesLinks(f, g, t)
<1>1. /\ Records(c) \subseteq Entries /\ \A r \in Records(c) : r.secret # c.main
      /\ \A r, q \in Records(c) : r.secret = q.secret => r = q
      /\ c.main \in Secrets
  BY RecordFacts
<1>2. c.main # k + 1 /\ \A r \in Records(c) : r.secret # k + 1
  <2>1. c.main <= k /\ \A r \in Records(c) : r.secret <= k
    BY DEF Drawn, Records
  <2>2. c.main \in Nat /\ \A r \in Records(c) : r.secret \in Nat
    BY <1>1, Constants DEF Entries
  <2> QED BY <2>1, <2>2
<1>3. t \in Nat /\ t \in Instants /\ Instants \subseteq Int
  BY InstantFacts, CredentialConstants
<1>4. CASE j = k + 1 /\ Renews(c, new, k, t)
  <2>1. PICK n \in Names, d \in Instants, S \in SUBSET Records(c) :
          /\ \A r \in S : r.name = n
          /\ S = {} \/ \E old \in S : S = {old}
          /\ \A r \in Records(c) \ S : r.name = n => r.until # Forever
          /\ new.main = c.main
          /\ Edited(c, new, S, d, {Issued(n, k + 1)}, t)
    BY <1>4 DEF Renews
  <2>2. d \in Int
    BY <1>3
  <2> DEFINE X == {s \in OwnedIn(f, n) : \E r \in S : r.secret = s}
             F == {Issued(n, k + 1)}
             p == Promises!Pruned(Promises!Retired(f, X, d), t)
  <2>3. /\ c.main \notin X /\ Edited(c, new, S, d, F, t)
        /\ \A r \in Records(c) : ~Over(r.until, t) => (r \in S <=> r.secret \in X)
    <3>1. c.main \notin X
      BY <1>3, OwnedFacts
    <3>2. ASSUME NEW r \in Records(c), ~Over(r.until, t)
          PROVE  r \in S <=> r.secret \in X
      <4>1. r.secret \in DOMAIN f /\ f[r.secret].owner = r.name
        BY <1>3, <3>2, OwnedFacts
      <4>2. r \in S => r.secret \in OwnedIn(f, n)
        BY <2>1, <4>1 DEF OwnedIn
      <4> QED BY <1>1, <4>2
    <3> QED BY <2>1, <3>1, <3>2
  <2>4. CurrentIn(f, n) \subseteq X
    <3>1. ASSUME NEW s \in CurrentIn(f, n) PROVE s \in X
      <4>1. s \in OwnedIn(f, n) /\ f[s].until = Forever
        BY DEF CurrentIn
      <4>2. PICK r \in Records(c) : r.secret = s /\ r.name = n /\ ~Over(r.until, t)
        BY <1>3, <4>1, OwnedFacts
      <4>3. r.until = Forever
        BY <1>3, <4>1, <4>2, OwnedFacts
      <4> QED BY <2>1, <4>1, <4>2, <4>3
    <3> QED BY <3>1
  <2>5. g = Promises!With(p, k + 1, n)
    <3> DEFINE e == k + 1
    <3>1. /\ e # c.main /\ (\A r \in Records(c) : r.secret # e) /\ ListedAs(c, S, X, t)
          /\ Edited(c, new, S, d, {Issued(n, e)}, t)
      BY <1>2, <2>3 DEF ListedAs
    <3> HIDE DEF X, F, e
    <3>2. IsTable(Promises!With(p, e, n), c.main, Records(new), t)
      BY <1>3, <2>2, <3>1, TableRenewed
    <3> HIDE DEF p
    <3>3. g = Promises!With(p, e, n)
      BY <2>1, <3>2, SameTable
    <3> QED BY <3>3 DEF e
  <2>6. X = {} \/ \E old \in X : X = {old}
    BY <2>1
  <2>7. X \subseteq OwnedIn(f, n)
    OBVIOUS
  <2> HIDE DEF X
  <2>8. CASE X = {}
    <3>1. p = f
      BY <1>3, <2>2, <2>8, NothingRetired
    <3>2. CurrentIn(f, n) = {}
      BY <2>4, <2>8
    <3> QED BY <1>4, <2>5, <3>1, <3>2 DEF IssuesLink
  <2>9. ASSUME NEW old \in X, X = {old}
        PROVE  RotatesLink(f, g, k, t)
    <3>1. g = Promises!With(Promises!Pruned(Promises!Retired(f, {old}, d), t), k + 1, n)
      BY <2>5, <2>9
    <3> QED BY <2>4, <2>7, <2>9, <3>1 DEF RotatesLink
  <2> QED BY <1>4, <2>6, <2>8, <2>9
<1>5. CASE j = k /\ Withdraws(c, new, t)
  <2>1. PICK n \in Names, d \in Instants, S \in SUBSET Records(c) :
          /\ \A r \in S : r.name = n
          /\ \A r \in Records(c) \ S : r.name = n => Over(r.until, t)
          /\ new.main = c.main
          /\ Edited(c, new, S, d, {}, t)
    BY <1>5 DEF Withdraws
  <2> DEFINE X == OwnedIn(f, n)
             F == {}
             p == Promises!Pruned(Promises!Retired(f, X, d), t)
  <2>2. d \in Int
    BY <1>3
  <2>3. /\ c.main \notin X /\ Edited(c, new, S, d, F, t) /\ F = {}
        /\ \A r \in Records(c) : ~Over(r.until, t) => (r \in S <=> r.secret \in X)
    <3>1. c.main \notin X
      BY <1>3, OwnedFacts
    <3>2. ASSUME NEW r \in Records(c), ~Over(r.until, t)
          PROVE  r \in S <=> r.secret \in X
      <4>1. r.secret \in DOMAIN f /\ f[r.secret].owner = r.name
        BY <1>3, <3>2, OwnedFacts
      <4> QED BY <2>1, <3>2, <4>1 DEF OwnedIn
    <3> QED BY <2>1, <3>1, <3>2
  <2>4. ListedAs(c, S, X, t) /\ Edited(c, new, S, d, {}, t)
    BY <2>1, <2>3 DEF ListedAs
  <2> HIDE DEF F, X
  <2>5. IsTable(p, c.main, Records(new), t)
    BY <1>3, <2>2, <2>4, TableWithdrawn
  <2> HIDE DEF p
  <2>6. g = p
    BY <2>1, <2>5, SameTable
  <2> QED BY <1>5, <2>6 DEF RevokesLinks, X, p
<1>6. CASE j = k + 1 /\ new.main = k + 1 /\ Records(new) = Records(c)
  <2> DEFINE e == k + 1
             old == c.main
             w == Promises!With(Promises!Pruned(Promises!Retired(f, {old}, t), t), e, Main)
  <2>1. e # c.main /\ \A r \in Records(c) : r.secret # e /\ r.secret # c.main
    BY <1>1, <1>2
  <2> HIDE DEF e
  <2>2. IsTable(w, e, Records(c), t)
    BY <1>1, <1>3, <2>1, TableRotated
  <2>3. IsTable(g, e, Records(c), t)
    BY <1>6 DEF e
  <2> HIDE DEF w
  <2>4. g = w
    BY <2>2, <2>3, SameTable
  <2>5. old \in OwnedIn(f, Main) /\ CurrentIn(f, Main) \subseteq {old}
    <3>1. old \in DOMAIN f /\ f[old].owner = Main
      BY DEF IsTable
    <3>2. ASSUME NEW s \in OwnedIn(f, Main), s # old
          PROVE  FALSE
      <4>1. s \in DOMAIN f /\ f[s].owner = Main
        BY DEF OwnedIn
      <4>2. PICK r \in Records(c) : r.secret = s /\ ~Over(r.until, t)
        BY <3>2, <4>1 DEF IsTable
      <4>3. f[s] = [owner |-> r.name, until |-> r.until] /\ r.name \in Names
        BY <1>1, <4>2 DEF IsTable, Entries
      <4> QED BY <4>1, <4>3, CredentialConstants
    <3> QED BY <3>1, <3>2 DEF OwnedIn, CurrentIn
  <2> QED BY <1>3, <1>6, <2>4, <2>5 DEF RotatesLink, w, e
<1> QED BY <1>4, <1>5, <1>6 DEF Changes

(* What the command under way has made of the configuration. *)
Underway ==
  tx # None =>
    /\ tx.drawn \in Nat /\ tx.drawn <= issued /\ Drawn(tx.prior, tx.drawn)
    /\ tx.phase = "restarting" => Changes(tx.prior, config, tx.drawn, issued, now)

LEMMA CommandChanges ==
  ASSUME IInv, AInv, Counters, Command
  PROVE  Changes(config, config', issued, issued', now)
<1>1. /\ now \in 0..MaxTime /\ \A g \in Graces : g \in Nat /\ now + g \in Instants
  BY CredentialConstants DEF Counters, Instants
<1>2. now \in Instants /\ {} \in SUBSET Records(config)
  BY <1>1, InstantFacts
<1>3. \A n \in Names : Fresh(n) = Issued(n, issued + 1)
  BY DEF Fresh, Issued
<1>4. ASSUME NEW n \in Names, Add(n)
      PROVE  Changes(config, config', issued, issued', now)
  <2> DEFINE S == {}
  <2>1. /\ \A r \in Records(config) : r.name = n => Over(r.until, now)
        /\ config'.main = config.main /\ issued' = issued + 1
        /\ Edited(config, config', S, now, {Issued(n, issued + 1)}, now)
    BY <1>3, <1>4, AddEdits
  <2>2. \A r \in Records(config) \ S : r.name = n => r.until # Forever
    BY <2>1 DEF Over
  <2>3. S \in SUBSET Records(config) /\ S = {} /\ \A r \in S : r.name = n
    OBVIOUS
  <2> HIDE DEF S
  <2> QED BY <1>2, <2>1, <2>2, <2>3 DEF Changes, Renews
<1>5. ASSUME NEW n \in Names, NEW g \in Graces, Revoke(n, g)
      PROVE  Changes(config, config', issued, issued', now)
  <2> DEFINE S == ActiveRecords(n)
             d == now + g
  <2>1. /\ config'.main = config.main /\ issued' = issued
        /\ Edited(config, config', S, d, {}, now)
    BY <1>1, <1>5, RevokeEdits
  <2>2. S \in SUBSET Records(config) /\ \A r \in S : r.name = n
    BY DEF ActiveRecords
  <2>3. ASSUME NEW r \in Records(config) \ S, r.name = n
        PROVE  Over(r.until, now)
    <3>1. r.until \in Until /\ ~IsActive(r) /\ now \in Nat
      BY <2>3, RecordFacts, Entry DEF ActiveRecords, IInv, Sound, Entries
    <3> QED BY <3>1, Constants DEF IsActive, Live, Over, Until
  <2>4. d \in Instants
    BY <1>1
  <2> HIDE DEF S, d
  <2> QED BY <2>1, <2>2, <2>3, <2>4 DEF Changes, Withdraws
<1>6. ASSUME NEW n \in Names, NEW g \in Graces, Rotate(n, g)
      PROVE  Changes(config, config', issued, issued', now)
  <2>1. PICK old \in Records(config) :
          /\ old.name = n
          /\ \A r \in Records(config) : r.name = n /\ r.until = Forever => r = old
          /\ config'.main = config.main /\ issued' = issued + 1
          /\ Edited(config, config', {old}, now + g, {Fresh(n)}, now)
    BY <1>1, <1>6, RotateEdits DEF AInv
  <2> DEFINE S == {old}
             d == now + g
  <2>2. /\ S \in SUBSET Records(config) /\ (\A r \in S : r.name = n) /\ S = {old} /\ old \in S
        /\ \A r \in Records(config) \ S : r.name = n => r.until # Forever
        /\ Edited(config, config', S, d, {Issued(n, issued + 1)}, now)
        /\ d \in Instants
    BY <1>1, <1>3, <2>1
  <2> HIDE DEF S, d
  <2> QED BY <2>1, <2>2 DEF Changes, Renews
<1>7. CASE RotateDefault
  BY <1>7, RotateDefaultEdits DEF Changes
<1> QED BY <1>4, <1>5, <1>6, <1>7 DEF Command

LEMMA StepUnderway == IInv /\ AInv /\ Counters /\ Underway /\ [Next]_vars => Underway'
<1> SUFFICES ASSUME IInv, AInv, Counters, Underway, [Next]_vars PROVE Underway'
  OBVIOUS
<1>1. CASE Command
  <2>1. /\ Changes(config, config', issued, issued', now) /\ now' = now
        /\ tx'.prior = config /\ tx'.drawn = issued
    BY <1>1, CommandChanges, CommandBegins DEF AInv
  <2>2. issued' \in Secrets
    BY <1>1, StepInv DEF Next, IInv
  <2>3. issued <= issued' /\ issued \in Nat /\ Drawn(config, issued)
    BY <2>1, <2>2, Constants DEF Changes, IInv, Sound
  <2> QED BY <2>1, <2>3 DEF Underway
<1>2. CASE Restarted \/ RecoveryRestartFails \/ Crash
  BY <1>2 DEF Restarted, RecoveryRestartFails, Crash, Underway
<1>3. CASE RestartFails
  <2>1. tx # None => tx \in Transactions
    BY DEF IInv, Transacting
  <2> QED BY <1>3, <2>1 DEF RestartFails, Underway, Transactions
<1>4. CASE DaemonStarts \/ DaemonDies \/ UNCHANGED vars
  BY <1>4 DEF DaemonStarts, DaemonDies, vars, Underway
<1>5. CASE Tick
  <2>1. /\ UNCHANGED <<tx, config, issued>> /\ now \in Nat /\ now' \in Nat /\ now <= now'
    BY <1>5 DEF Tick, IInv
  <2>2. tx # None => tx.prior \in Configs /\ Distinct(tx.prior)
    BY DEF IInv, Transacting, Sound
  <2> QED BY <2>1, <2>2, ChangesLater DEF Underway
<1> QED BY <1>1, <1>2, <1>3, <1>4, <1>5 DEF Next

-----------------------------------------------------------------------------
(* The refinement mapping of PromisesKept. *)
Served == IF tx = None THEN config ELSE tx.prior
Count == IF tx = None THEN issued ELSE tx.drawn
Listed == Table(Served)

LEMMA ListedFacts ==
  ASSUME IInv, IInv'
  PROVE  /\ IsTable(Listed, Served.main, Records(Served), now)
         /\ IsTable(Listed', Served'.main, Records(Served'), now')
<1>1. Served \in Configs /\ Distinct(Served) /\ now \in Nat
  BY DEF IInv, Served, Sound, Transacting
<1>2. Served' \in Configs /\ Distinct(Served') /\ now' \in Nat
  BY DEF IInv, Served, Sound, Transacting
<1>3. IsTable(Listed, Served.main, Records(Served), now)
  BY <1>1, TableIs DEF TablesAgree, Listed
<1>4. IsTable(Listed', Served'.main, Records(Served'), now')
  BY <1>2, TableIsNext DEF TablesAgree, Listed
<1> QED BY <1>3, <1>4

LEMMA TablePruned ==
  ASSUME NEW c \in Configs, Distinct(c), NEW t \in Nat, NEW u \in Nat, t <= u, NEW f,
         IsTable(f, c.main, Records(c), t)
  PROVE  IsTable(Promises!Pruned(f, u), c.main, Records(c), u)
<1> DEFINE p == Promises!Pruned(f, u)
<1>1. /\ DOMAIN p = {s \in DOMAIN f : Promises!Live(f[s].until, u)}
      /\ \A s \in DOMAIN p : p[s] = f[s]
      /\ p = [s \in DOMAIN p |-> p[s]]
  BY DEF Promises!Pruned
<1> HIDE DEF p
<1>2. c.main \in DOMAIN p /\ p[c.main] = [owner |-> Main, until |-> Forever]
  BY <1>1 DEF IsTable, Promises!Live
<1>3. ASSUME NEW r \in Records(c)
      PROVE  /\ Over(r.until, t) => Over(r.until, u)
             /\ Over(r.until, u) <=> ~Promises!Live(r.until, u)
  <2>1. r.until \in Until
    BY RecordFacts DEF Entries
  <2> QED BY <2>1, Constants DEF Over, Until, Promises!Live
<1>4. ASSUME NEW r \in Records(c), ~Over(r.until, u)
      PROVE  r.secret \in DOMAIN p /\ p[r.secret] = [owner |-> r.name, until |-> r.until]
  <2>1. r.secret \in DOMAIN f /\ f[r.secret] = [owner |-> r.name, until |-> r.until]
    BY <1>3, <1>4 DEF IsTable
  <2>2. f[r.secret].until = r.until
    BY <2>1
  <2> QED BY <1>1, <1>3, <1>4, <2>1, <2>2
<1>5. ASSUME NEW s \in DOMAIN p, s # c.main
      PROVE  \E r \in Records(c) : r.secret = s /\ ~Over(r.until, u)
  <2>1. s \in DOMAIN f /\ Promises!Live(f[s].until, u)
    BY <1>1
  <2>2. PICK r \in Records(c) : r.secret = s /\ ~Over(r.until, t)
    BY <1>5, <2>1 DEF IsTable
  <2>3. f[s] = [owner |-> r.name, until |-> r.until]
    BY <2>2 DEF IsTable
  <2>4. f[s].until = r.until
    BY <2>3
  <2> QED BY <1>3, <2>1, <2>2, <2>4
<1>6. IsTable(p, c.main, Records(c), u)
  BY <1>1, <1>2, <1>4, <1>5 DEF IsTable
<1> QED BY <1>6 DEF p

(* A command ends, whichever way: its change takes place, or nothing does. *)
LEMMA EndRefines ==
  ASSUME IInv, IInv', AInv, Counters, Underway,
         tx # None, tx' = None, UNCHANGED <<config, now, issued>>
  PROVE  Promises!Next
<1>1. /\ IsTable(Listed, tx.prior.main, Records(tx.prior), now)
      /\ IsTable(Listed', config.main, Records(config), now)
      /\ Served = tx.prior /\ Served' = config
  <2>1. Served = tx.prior /\ Served' = config
    BY DEF Served
  <2> QED BY <2>1, ListedFacts
<1>2. /\ tx.prior \in Configs /\ Distinct(tx.prior) /\ tx \in Transactions
      /\ tx.drawn \in Nat /\ tx.drawn <= issued /\ Drawn(tx.prior, tx.drawn)
      /\ Count = tx.drawn /\ Count' = issued
      /\ issued \in Secrets /\ now \in 0..MaxTime
  BY DEF IInv, Transacting, Sound, Underway, Count, Counters
<1>3. CASE tx.phase = "recovering"
  <2>1. config = tx.prior
    BY <1>3 DEF AInv
  <2>2. Listed' = Listed
    BY <1>1, <2>1, SameTable
  <2>3. 1..issued \in SUBSET Secrets /\ 1..tx.drawn \subseteq 1..issued
    BY <1>2, Constants DEF Secrets
  <2>4. Promises!Discard
    BY <1>2, <2>2, <2>3 DEF Promises!Discard, Listed, Served, Count
  <2> QED BY <2>4 DEF Promises!Next
<1>4. CASE tx.phase = "restarting"
  <2>1. Changes(tx.prior, config, tx.drawn, issued, now)
    BY <1>4 DEF Underway
  <2> DEFINE f == Listed
             g == Listed'
             c == tx.prior
             new == config
             k == tx.drawn
             j == issued
             t == now
  <2>2. /\ c \in Configs /\ Distinct(c) /\ k \in Nat /\ Drawn(c, k) /\ t \in 0..MaxTime
        /\ Changes(c, new, k, j, t) /\ IsTable(f, c.main, Records(c), t)
        /\ IsTable(g, new.main, Records(new), t)
    BY <1>1, <1>2, <2>1
  <2> HIDE DEF f, g, c, new, k, j, t
  <2>3. \/ j = k + 1 /\ (IssuesLink(f, g, k) \/ RotatesLink(f, g, k, t))
        \/ j = k /\ RevokesLinks(f, g, t)
    BY <2>2, ChangeIsAStep
  <2>4. ASSUME j = k + 1
        PROVE  /\ tx.drawn + 1 \in Secrets \ (1..tx.drawn) /\ issued = tx.drawn + 1
               /\ 1..issued = (1..tx.drawn) \cup {tx.drawn + 1}
    BY <1>2, <2>4, Constants DEF j, k
  <2>5. ASSUME j = k + 1, IssuesLink(f, g, k)
        PROVE  Promises!Next
    <3>1. PICK n \in Names :
            CurrentIn(Listed, n) = {} /\ Listed' = Promises!With(Listed, tx.drawn + 1, n)
      BY <2>5 DEF IssuesLink, f, g, k
    <3>2. Promises!Current(n) = {}
      BY <3>1 DEF Promises!Current, Promises!Owned, CurrentIn, OwnedIn, Listed, Served
    <3>3. Promises!Issue(n)
      BY <1>2, <2>4, <2>5, <3>1, <3>2 DEF Promises!Issue, Listed, Served, Count
    <3> QED BY <3>3 DEF Promises!Next
  <2>6. ASSUME j = k + 1, RotatesLink(f, g, k, t)
        PROVE  Promises!Next
    <3>0. PICK n \in Names \cup {Main} :
            \E d \in Instants, old \in OwnedIn(Listed, n) :
              /\ CurrentIn(Listed, n) \subseteq {old}
              /\ Listed' = Promises!With(Promises!Pruned(Promises!Retired(Listed, {old}, d), now),
                                         tx.drawn + 1, n)
      BY <2>6 DEF RotatesLink, f, g, k, t
    <3>1. PICK d \in Instants, old \in OwnedIn(Listed, n) :
            /\ CurrentIn(Listed, n) \subseteq {old}
            /\ Listed' = Promises!With(Promises!Pruned(Promises!Retired(Listed, {old}, d), now),
                                       tx.drawn + 1, n)
      BY <3>0
    <3>2. Promises!Current(n) \subseteq {old} /\ old \in Promises!Owned(n)
      BY <3>1 DEF Promises!Current, Promises!Owned, CurrentIn, OwnedIn, Listed, Served
    <3>3. Promises!Rotate(n)
      BY <1>2, <2>4, <2>6, <3>1, <3>2 DEF Promises!Rotate, Listed, Served, Count
    <3> QED BY <3>3 DEF Promises!Next
  <2>7. ASSUME j = k, RevokesLinks(f, g, t)
        PROVE  Promises!Next
    <3>1. PICK n \in Names, d \in Instants :
            Listed' = Promises!Pruned(Promises!Retired(Listed, OwnedIn(Listed, n), d), now)
      BY <2>7 DEF RevokesLinks, f, g, t
    <3>2. Promises!Owned(n) = OwnedIn(Listed, n)
      BY DEF Promises!Owned, OwnedIn, Listed, Served
    <3>3. Count' = Count /\ now' = now
      BY <1>2, <2>7 DEF j, k
    <3>4. Promises!Revoke(n)
      BY <3>1, <3>2, <3>3 DEF Promises!Revoke, Listed, Served, Count
    <3> QED BY <3>4 DEF Promises!Next
  <2> QED BY <2>3, <2>5, <2>6, <2>7
<1> QED BY <1>2, <1>3, <1>4 DEF Transactions

LEMMA StillRefines ==
  ASSUME IInv, IInv', Served' = Served, Count' = Count, now' = now
  PROVE  UNCHANGED Promises!vars
<1>1. Listed' = Listed
  BY ListedFacts, SameTable
<1> QED BY <1>1 DEF Promises!vars, Listed, Served, Count

LEMMA StepRefines ==
  ASSUME IInv, IInv', AInv, Counters, Underway, [Next]_vars
  PROVE  [Promises!Next]_(Promises!vars)
<1>1. CASE Command
  <2>1. Served' = Served /\ Count' = Count /\ now' = now
    BY <1>1, CommandBegins DEF AInv, Served, Count
  <2> QED BY <2>1, StillRefines
<1>2. CASE Restarted \/ RecoveryRestartFails \/ Crash
  BY <1>2, EndRefines DEF Restarted, RecoveryRestartFails, Crash
<1>3. CASE RestartFails
  <2>1. CASE tx' = [tx EXCEPT !.phase = "recovering"]
    <3>1. /\ tx # None /\ tx' # None /\ tx'.prior = tx.prior /\ tx'.drawn = tx.drawn /\ now' = now
      BY <1>3, <2>1, NoneAssumption DEF RestartFails, IInv, Transacting, Transactions
    <3>2. Served' = Served /\ Count' = Count
      BY <3>1 DEF Served, Count
    <3> QED BY <3>1, <3>2, StillRefines
  <2>2. CASE tx' = None /\ config' = config
    BY <1>3, <2>2, EndRefines DEF RestartFails
  <2> QED BY <1>3, <2>1, <2>2 DEF RestartFails
<1>4. CASE DaemonStarts \/ DaemonDies \/ UNCHANGED vars
  BY <1>4, StillRefines DEF DaemonStarts, DaemonDies, vars, Served, Count
<1>5. CASE Tick
  <2>1. /\ UNCHANGED <<tx, config, issued>> /\ now \in Nat /\ now' \in Nat /\ now' > now
    BY <1>5 DEF Tick, IInv
  <2>2. Served' = Served /\ Count' = Count /\ Served \in Configs /\ Distinct(Served)
    BY <2>1 DEF Served, Count, IInv, Transacting, Sound
  <2> DEFINE f == Listed
             g == Listed'
             c == Served
             t == now
             u == now'
  <2>3. /\ t \in Nat /\ u \in Nat /\ t <= u /\ IsTable(f, c.main, Records(c), t)
        /\ IsTable(g, c.main, Records(c), u) /\ c \in Configs /\ Distinct(c)
    BY <2>1, <2>2, ListedFacts
  <2> HIDE DEF f, g, c, t, u
  <2>4. IsTable(Promises!Pruned(f, u), c.main, Records(c), u)
    BY <2>3, TablePruned
  <2>5. g = Promises!Pruned(f, u)
    BY <2>3, <2>4, SameTable
  <2>6. Promises!Tick
    BY <2>1, <2>2, <2>5 DEF Promises!Tick, Listed, Served, Count, f, g, u
  <2> QED BY <2>6 DEF Promises!Next
<1> QED BY <1>1, <1>2, <1>3, <1>4, <1>5 DEF Next

LEMMA InitRefines == Init => Promises!Init /\ Underway
<1> SUFFICES ASSUME Init PROVE Promises!Init /\ Underway
  OBVIOUS
<1>1. PICK legacy \in BOOLEAN :
        /\ config = [main |-> 1,
                     named |-> IF legacy THEN <<[name |-> Default, secret |-> 2,
                                                 until |-> Forever]>>
                               ELSE <<>>]
        /\ issued = IF legacy THEN 2 ELSE 1
  BY DEF Init
<1>2. tx = None /\ now = 0 /\ config.main = 1 /\ Served = config /\ Count = issued
  BY <1>1 DEF Init, Served, Count
<1>3. Records(config) = IF legacy THEN {[name |-> Default, secret |-> 2, until |-> Forever]}
                        ELSE {}
  BY <1>1 DEF Records
<1>4. IInv
  BY InitInv
<1>5. IsTable(Listed, 1, Records(config), 0)
  <2>1. config \in Configs /\ Distinct(config) /\ now \in Nat
    BY <1>4 DEF IInv, Sound
  <2> QED BY <1>2, <2>1, TableIs DEF TablesAgree, Listed
<1>6. DOMAIN Listed = 1..issued
  <2>1. ASSUME legacy
        PROVE  2 \in DOMAIN Listed
    <3>0. LET r == [name |-> Default, secret |-> 2, until |-> Forever] IN
            r.secret = 2 /\ r.until = Forever
      OBVIOUS
    <3>1. PICK r \in Records(config) : r.secret = 2 /\ r.until = Forever
      BY <1>3, <2>1, <3>0
    <3> QED BY <1>5, <3>1 DEF IsTable, Over
  <2>2. \A r \in Records(config) : r.secret = 2 /\ legacy
    BY <1>3
  <2>3. \A s \in DOMAIN Listed : s = 1 \/ (s = 2 /\ legacy)
    BY <1>5, <2>2 DEF IsTable
  <2>4. 1 \in DOMAIN Listed
    BY <1>5 DEF IsTable
  <2>5. CASE legacy
    BY <1>1, <2>1, <2>3, <2>4, <2>5
  <2>6. CASE ~legacy
    <3>1. issued = 1
      BY <1>1, <2>6
    <3>2. DOMAIN Listed = {1}
      BY <2>3, <2>4, <2>6
    <3> QED BY <3>1, <3>2
  <2> QED BY <2>5, <2>6
<1>7. ASSUME NEW s \in DOMAIN Listed
      PROVE  Listed[s] \in [owner : Names \cup {Main}, until : {Forever}]
  <2>1. CASE s = 1
    BY <1>5, <2>1 DEF IsTable
  <2>2. ASSUME NEW r \in Records(config), r.secret = s, ~Over(r.until, 0)
        PROVE  Listed[s] \in [owner : Names \cup {Main}, until : {Forever}]
    <3>1. Listed[s] = [owner |-> r.name, until |-> r.until]
      BY <1>5, <2>2 DEF IsTable
    <3>2. r.name = Default /\ r.until = Forever
      BY <1>3
    <3> QED BY <3>1, <3>2, CredentialConstants
  <2> QED BY <1>5, <2>1, <2>2 DEF IsTable
<1>8. Listed \in [1..Count -> [owner : Names \cup {Main}, until : {Forever}]]
  <2>1. Listed = [s \in DOMAIN Listed |-> Listed[s]]
    BY <1>5 DEF IsTable
  <2> QED BY <1>2, <1>6, <1>7, <2>1
<1>9. Promises!Init
  BY <1>2, <1>8 DEF Promises!Init, Listed, Served, Count
<1> QED BY <1>2, <1>9 DEF Underway
-----------------------------------------------------------------------------
(* A table of promises; and g, which has only links of f, with as much     *)
(* time or less.                                                           *)
TableLinks == [owner : Names \cup {Main}, until : Promises!Until]

Tables(t) == t \in [DOMAIN t -> TableLinks]

Shortened(g, f) ==
  \A s \in DOMAIN g :
    s \in DOMAIN f /\ Promises!Earlier(f[s].until, g[s].until) = g[s].until

LEMMA EarlierFacts ==
  ASSUME NEW a \in Promises!Until, NEW d \in Instants
  PROVE  Promises!Earlier(a, d) \in Promises!Until /\ Promises!Earlier(a, Promises!Earlier(a, d)) = Promises!Earlier(a, d)
  BY DEF Promises!Earlier, Promises!Until

LEMMA PrunedFacts ==
  ASSUME NEW f, Tables(f), NEW t
  PROVE  Tables(Promises!Pruned(f, t)) /\ Shortened(Promises!Pruned(f, t), f)
  BY DEF Tables, Shortened, Promises!Pruned, Promises!Earlier

LEMMA RetiredFacts ==
  ASSUME NEW f, Tables(f), NEW S, NEW d \in Instants
  PROVE  Tables(Promises!Retired(f, S, d)) /\ Shortened(Promises!Retired(f, S, d), f)
<1>1. \A s \in DOMAIN f : f[s] \in TableLinks /\ f[s].until \in Promises!Until
  BY DEF Tables, TableLinks
<1>2. \A s \in DOMAIN f : Promises!Earlier(f[s].until, f[s].until) = f[s].until
  BY DEF Promises!Earlier
<1> QED
  BY <1>1, <1>2, EarlierFacts DEF Tables, Shortened, Promises!Retired, TableLinks

LEMMA BothFacts ==
  ASSUME NEW f, Tables(f), NEW S, NEW d \in Instants, NEW t
  PROVE  /\ Tables(Promises!Pruned(Promises!Retired(f, S, d), t))
         /\ Shortened(Promises!Pruned(Promises!Retired(f, S, d), t), f)
<1> DEFINE g == Promises!Retired(f, S, d)
           h == Promises!Pruned(g, t)
<1>1. Tables(g) /\ Shortened(g, f)
  BY RetiredFacts
<1> HIDE DEF g
<1>2. Tables(h) /\ \A s \in DOMAIN h : s \in DOMAIN g /\ h[s] = g[s]
  BY <1>1, PrunedFacts DEF Promises!Pruned
<1> HIDE DEF h
<1>3. Shortened(h, f)
  BY <1>1, <1>2 DEF Shortened
<1> QED
  BY <1>2, <1>3 DEF g, h

LEMMA WithFacts ==
  ASSUME NEW f, Tables(f), NEW s, NEW n \in Names \cup {Main}
  PROVE  /\ Tables(Promises!With(f, s, n))
         /\ \A x \in DOMAIN Promises!With(f, s, n) \ {s} : x \in DOMAIN f /\ Promises!With(f, s, n)[x] = f[x]
  BY DEF Tables, Promises!With, TableLinks, Promises!Until

LEMMA StepKeeps ==
  ASSUME Tables(Listed), Promises!Next
  PROVE  Tables(Listed') /\ Promises!Kept
<1>1. CASE Promises!Tick
  BY <1>1, PrunedFacts DEF Promises!Tick, Promises!Kept, Listed, Served, Count, Shortened
<1>2. CASE Promises!Discard
  BY <1>2 DEF Promises!Discard, Promises!Kept, Listed, Served, Count, Promises!Earlier
<1>3. ASSUME NEW n \in Names \cup {Main}, Promises!Issue(n)
      PROVE  Tables(Listed') /\ Promises!Kept
  <2>1. PICK s \in Secrets \ (1..Count) : Listed' = Promises!With(Listed, s, n)
    BY <1>3 DEF Promises!Issue, Listed, Served, Count
  <2> QED
    BY <2>1, WithFacts DEF Promises!Kept, Listed, Served, Count, Promises!Earlier
<1>4. ASSUME NEW n \in Names \cup {Main}, Promises!Revoke(n)
      PROVE  Tables(Listed') /\ Promises!Kept
  BY <1>4, BothFacts DEF Promises!Revoke, Promises!Kept, Listed, Served, Count, Shortened
<1>5. ASSUME NEW n \in Names \cup {Main}, Promises!Rotate(n)
      PROVE  Tables(Listed') /\ Promises!Kept
  <2>1. PICK s \in Secrets \ (1..Count), d \in Instants, old \in Promises!Owned(n) :
          Listed' = Promises!With(Promises!Pruned(Promises!Retired(Listed, {old}, d), now), s, n)
    BY <1>5 DEF Promises!Rotate, Listed, Served, Count
  <2> DEFINE g == Promises!Pruned(Promises!Retired(Listed, {old}, d), now)
  <2>2. Tables(g) /\ Shortened(g, Listed)
    BY BothFacts
  <2> HIDE DEF g
  <2>3. /\ Tables(Promises!With(g, s, n))
        /\ \A x \in DOMAIN Promises!With(g, s, n) \ {s} : x \in DOMAIN g /\ Promises!With(g, s, n)[x] = g[x]
    BY <2>2, WithFacts
  <2> QED
    BY <2>1, <2>2, <2>3 DEF Promises!Kept, Listed, Served, Count, Shortened, g
<1> QED
  BY <1>1, <1>2, <1>3, <1>4, <1>5 DEF Promises!Next

-----------------------------------------------------------------------------
(* Every command leaves the configuration, the running daemon's copy and   *)
(* its own snapshot well formed.                                           *)
THEOREM TypeCorrect == Spec => []TypeOK
<1>1. IInv /\ Counters => TypeOK
  BY DEF IInv, Counters, TypeOK, Sound, Transacting, Reportable, Promised
<1> QED
  BY <1>1, Invariance, PTL

(* No daemon ever serves a link beyond the expiry last reported for it,    *)
(* through any commands, rollbacks, crashes and restarts, for any names,   *)
(* grace windows and number of links (credential_transaction).             *)
THEOREM NothingServedBeyondPromise == Spec => []ServedWithinPromise
<1> QED
  BY Invariance, InvServes, PTL

(* What the commands report is what the links do: with no command under    *)
(* way and none that died, every link works exactly until the instant last *)
(* reported for it - a failed command changed nobody's access, a grace     *)
(* window is not cut short by adding or rotating another link - for any    *)
(* names, windows and number of links (credential_transaction, add_default *)
(* and its siblings).                                                      *)
THEOREM LinksWorkAsReported == Spec => []LinksAsReported
<1>1. IInv /\ AInv => LinksAsReported
  BY AccurateMatches DEF AInv, LinksAsReported
<1> QED BY <1>1, Accuracy, PTL

(* The commands, with everything that can interrupt them, implement the    *)
(* table of promises: seen with the lock free, each one issues, revokes or *)
(* rotates links as CredentialPromises says, at once or not at all, and    *)
(* whatever fails or dies in between leaves the old table or the new one   *)
(* (credential_transaction).                                               *)
THEOREM KeepsItsPromises == Spec => PromisesKept
<1>1. Init => IInv /\ AInv /\ Counters /\ Underway /\ Promises!Init
  BY InitInv, InitAccurate, InitCounters, InitRefines
<1>2. IInv /\ AInv /\ Counters /\ Underway /\ [Next]_vars
        => /\ IInv' /\ AInv' /\ Counters' /\ Underway'
           /\ [Promises!Next]_(Promises!vars)
  BY StepInv, StepAccurate, StepCounters, StepUnderway, StepRefines
<1> QED BY <1>1, <1>2, PTL DEF Spec, PromisesKept, Promises!Spec

(* So no command, failure or restart gives a link more time than it had,   *)
(* or brings one back (credential_transaction, prune_expired).             *)
THEOREM NothingComesBack == Spec => Promises!NeverExtended
<1>1. Promises!Init => Tables(Listed)
  BY DEF Promises!Init, Tables, TableLinks, Promises!Until, Listed, Served, Count
<1>2. Tables(Listed) /\ [Promises!Next]_(Promises!vars) => Tables(Listed)'
  BY StepKeeps DEF Promises!vars, Listed, Served, Count
<1>3. Tables(Listed) /\ [Promises!Next]_(Promises!vars) => [Promises!Kept]_(Promises!vars)
  BY StepKeeps
<1> QED
  BY KeepsItsPromises, <1>1, <1>2, <1>3, PTL
     DEF PromisesKept, Promises!Spec, Promises!NeverExtended
=============================================================================
