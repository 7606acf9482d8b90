------------------------- MODULE CredentialPromises -------------------------
(***************************************************************************)
(* What the credential commands promise: a table of the links that are     *)
(* served, each owned by a name and carrying the time it stops working.    *)
(* A link enters the table once, fresh, and nobody ever adds time to it.   *)
(***************************************************************************)
EXTENDS Integers

CONSTANTS Names,     \* devices
          Main,      \* the owner of the deployment's default link
          Secrets,   \* path secrets
          Times,     \* instants an expiry can be set to
          Forever    \* the expiry of a link nobody has retired

VARIABLES now,       \* wall clock, in seconds
          table,     \* the links served, a function on a set of secrets
          used       \* every secret that was ever in the table

vars == <<now, table, used>>

Until == Times \cup {Forever}

Live(until, t) == until = Forever \/ until > t

(* The earlier of two expiries. *)
Earlier(a, b) == IF a = Forever THEN b
                 ELSE IF b = Forever THEN a
                 ELSE IF a < b THEN a ELSE b

(* f without the links that have expired at t. *)
Pruned(f, t) == [s \in {x \in DOMAIN f : Live(f[x].until, t)} |-> f[s]]

(* f with the links in S retired at d. *)
Retired(f, S, d) ==
  [s \in DOMAIN f |-> IF s \in S THEN [f[s] EXCEPT !.until = Earlier(@, d)]
                                 ELSE f[s]]

(* f with a fresh link s of n. *)
With(f, s, n) == [x \in DOMAIN f \cup {s} |->
                    IF x = s THEN [owner |-> n, until |-> Forever] ELSE f[x]]

Owned(n) == {s \in DOMAIN table : table[s].owner = n}

(* The link of n that nobody has retired. *)
Current(n) == {s \in Owned(n) : table[s].until = Forever}

-----------------------------------------------------------------------------
Init ==
  /\ now \in Nat
  /\ table \in [used -> [owner : Names \cup {Main}, until : {Forever}]]

Tick ==
  /\ now' > now
  /\ table' = Pruned(table, now')
  /\ used' = used

(* A fresh link for n, which has no other current one. *)
Issue(n) ==
  \E s \in Secrets \ used :
    /\ Current(n) = {}
    /\ table' = With(table, s, n)
    /\ used' = used \cup {s} /\ now' = now

(* Every link of n stops working at d. *)
Revoke(n) ==
  \E d \in Times :
    /\ table' = Pruned(Retired(table, Owned(n), d), now)
    /\ UNCHANGED <<now, used>>

(* A fresh link takes the place of one link of n, the current one if there *)
(* is one, which stops at d.                                               *)
Rotate(n) ==
  \E s \in Secrets \ used, d \in Times, old \in Owned(n) :
    /\ Current(n) \subseteq {old}
    /\ table' = With(Pruned(Retired(table, {old}, d), now), s, n)
    /\ used' = used \cup {s} /\ now' = now

(* A secret that was drawn and never reached anybody. *)
Discard ==
  /\ used' \in SUBSET Secrets /\ used \subseteq used'
  /\ UNCHANGED <<now, table>>

Next == Tick \/ Discard \/ \E n \in Names \cup {Main} : Issue(n) \/ Revoke(n) \/ Rotate(n)

Spec == Init /\ [][Next]_vars

(* No command gives a link more time than it had, or brings one back.      *)
Kept ==
  \A s \in used : s \in DOMAIN table' =>
    /\ s \in DOMAIN table
    /\ Earlier(table[s].until, table'[s].until) = table'[s].until

NeverExtended == [][Kept]_vars
=============================================================================
