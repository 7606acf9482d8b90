---------------------------- MODULE RequestBudget ----------------------------
(***************************************************************************)
(* IpBudget: the token bucket each source address of the subscription      *)
(* listeners spends its requests from.                                     *)
(*                                                                         *)
(* Only addresses in debt are remembered.  A new address sweeps the table: *)
(* buckets that have filled up again are forgotten, and a table that is    *)
(* still too long is cleared.  Time is counted in ticks, Refill of them to *)
(* one token; the table is used under its mutex, so a request is one step. *)
(***************************************************************************)
EXTENDS Integers, FiniteSets

CONSTANTS
  Peers,
  Absent,
  Burst,       \* REQUEST_BURST
  Refill,      \* REQUEST_REFILL (one second), in ticks
  MaxTracked,  \* MAX_TRACKED_PEERS
  MaxTime      \* bound: ticks

ASSUME BudgetAssumption ==
  /\ IsFiniteSet(Peers) /\ Absent \notin Nat
  /\ Burst \in Nat \ {0} /\ Refill \in Nat \ {0}
  /\ MaxTracked \in Nat /\ MaxTime \in Nat

VARIABLES
  now,
  buckets,    \* the remembered addresses' tokens, and when they were refilled
  \* what is said about it:
  since,      \* when the window began in which admissions are counted
  admitted,   \* requests admitted since then, as long as the table was not
  cleared,    \* ... cleared
  promised    \* when an address may be back after a Retry-After

budgetVars == <<now, buckets, since, admitted, cleared, promised>>

Bucket == [tokens : Nat, at : Nat]

Tracked == DOMAIN buckets

InitBudget ==
  /\ now = 0 /\ since = 0
  /\ buckets = [p \in {} |-> [tokens |-> Burst, at |-> 0]]
  /\ admitted = [p \in Peers |-> 0]
  /\ cleared = FALSE
  /\ promised = [p \in Peers |-> Absent]

Refills(bucket) == (now - bucket.at) \div Refill

Least(m, n) == IF m <= n THEN m ELSE n

RefilledTwice(bucket) ==
  [tokens |-> Least(bucket.tokens + Refills(bucket), Burst), at |-> bucket.at]

(* A refill moves the bucket's instant by whole refills only.              *)
Refilled(bucket) ==
  [tokens |-> Least(bucket.tokens + Refills(bucket), Burst),
   at     |-> bucket.at + Refills(bucket) * Refill]

InDebt == {p \in Tracked : buckets[p].tokens + Refills(buckets[p]) < Burst}

(* admit: what of the table stays when a new address comes.                *)
Kept == IF Cardinality(InDebt) > MaxTracked THEN {} ELSE InDebt

Admissible(p) == p \in Tracked => Refilled(buckets[p]).tokens > 0

AdmitNew(p) ==
  /\ p \notin Tracked
  /\ buckets' = [q \in Kept \cup {p} |->
                   IF q = p THEN [tokens |-> Burst - 1, at |-> now] ELSE buckets[q]]
  /\ cleared' = (cleared \/ Kept # InDebt)

AdmitKnown(p) ==
  /\ p \in Tracked /\ Refilled(buckets[p]).tokens > 0
  /\ buckets' = [buckets EXCEPT
       ![p] = [tokens |-> Refilled(@).tokens - 1, at |-> Refilled(@).at]]
  /\ UNCHANGED cleared

Admit(p) ==
  /\ AdmitNew(p) \/ AdmitKnown(p)
  /\ admitted' = IF cleared' THEN admitted ELSE [admitted EXCEPT ![p] = @ + 1]
  /\ promised' = [promised EXCEPT ![p] = Absent]
  /\ UNCHANGED <<now, since>>

RetryAfterTruncated(bucket) ==
  Refill * ((Refill - (now - bucket.at)) \div Refill)

(* The wait announced to a refused address, in whole seconds: what remains *)
(* of the refill but at least one, and one more for the part cut off.      *)
RetryAfter(bucket) ==
  LET rest      == Refill - (now - bucket.at)
      remaining == IF rest < Refill THEN Refill ELSE rest
  IN  Refill * ((remaining \div Refill) + 1)

Refuse(p) ==
  /\ p \in Tracked /\ Refilled(buckets[p]).tokens = 0
  /\ buckets' = [buckets EXCEPT ![p] = Refilled(@)]
  /\ promised' = [promised EXCEPT ![p] = now + RetryAfter(Refilled(buckets[p]))]
  /\ UNCHANGED <<now, since, admitted, cleared>>

Request(p) == Admit(p) \/ Refuse(p)

Elapse ==
  /\ now < MaxTime /\ now' = now + 1
  /\ UNCHANGED <<buckets, since, admitted, cleared, promised>>

(* Counting starts over: any moment may be the beginning of a window.      *)
Watch ==
  /\ since' = now
  /\ admitted' = [p \in Peers |-> 0] /\ cleared' = FALSE
  /\ UNCHANGED <<now, buckets, promised>>

NextBudget == (\E p \in Peers : Request(p)) \/ Elapse \/ Watch

SpecBudget == InitBudget /\ [][NextBudget]_budgetVars

-----------------------------------------------------------------------------
(* Types; no bucket holds more than the burst or is dated in the future    *)
(* (IpBudget::try_acquire).                                                *)
BudgetTypeOK ==
  /\ now \in Nat /\ since \in 0..now
  /\ Tracked \subseteq Peers /\ buckets \in [Tracked -> Bucket]
  /\ \A p \in Tracked : buckets[p].tokens <= Burst /\ buckets[p].at <= now
  /\ admitted \in [Peers -> Nat] /\ cleared \in BOOLEAN
  /\ promised \in [Peers -> Nat \cup {Absent}]

(* In any window, whatever was forgotten, refilled or requested in it, an  *)
(* address is served the burst and one request for every refill begun,     *)
(* unless the table had to be cleared (IpBudget::try_acquire, admit).      *)
AdmittedBounded ==
  ~cleared => \A p \in Peers :
    admitted[p] * Refill <= Burst * Refill + (now - since) + Refill - 1

(* An address that waits as long as Retry-After told it is served.         *)
RetryAfterHonoured ==
  \A p \in Peers :
    promised[p] # Absent /\ promised[p] <= now => Admissible(p)

(* "Distinct addresses whose debt is remembered": the table is checked     *)
(* before the new address is entered, so it may hold one more.             *)
TableBounded == Cardinality(Tracked) <= MaxTracked + 1
=============================================================================
