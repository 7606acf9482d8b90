------------------------ MODULE SubscriptionListener ------------------------
(***************************************************************************)
(* A subscription listener: the connections it accepts, the permits they   *)
(* hold and the request each may charge to its address's budget.           *)
(*                                                                         *)
(* One task accepts; every accepted connection is a task of its own on     *)
(* another thread.  The semaphore and the table of peers are separate, so  *)
(* taking and returning a permit are two steps each.                       *)
(***************************************************************************)
EXTENDS RequestBudget

CONSTANTS
  Connections,
  MaxConcurrent,   \* MAX_CONCURRENT_CONNECTIONS
  MaxPerPeer       \* MAX_CONNECTIONS_PER_PEER

ASSUME ListenerAssumption ==
  /\ IsFiniteSet(Connections)
  /\ Absent \notin Peers
  /\ MaxConcurrent \in Nat \ {0} /\ MaxPerPeer \in Nat \ {0}

VARIABLES
  available,   \* permits left in the semaphore
  counts,      \* connections of each peer that has any
  phase,       \* of every connection
  from         \* ... and its peer

listenerVars == <<available, counts, phase, from>>

servingVars == <<budgetVars, listenerVars>>

Phases == {"closed", "permitted", "open", "answered", "leaving"}

Becomes(c, where) == phase' = [phase EXCEPT ![c] = where]

Close(c) == Becomes(c, "closed") /\ from' = [from EXCEPT ![c] = Absent]

CountOf(p) == IF p \in DOMAIN counts THEN counts[p] ELSE 0

(* A peer is in the table only as long as it has a connection.             *)
Counted(p, n) ==
  counts' = [q \in IF n = 0 THEN DOMAIN counts \ {p} ELSE DOMAIN counts \cup {p} |->
               IF q = p THEN n ELSE counts[q]]

InitListener ==
  /\ InitBudget
  /\ available = MaxConcurrent
  /\ counts = [p \in {} |-> 0]
  /\ phase = [c \in Connections |-> "closed"]
  /\ from = [c \in Connections |-> Absent]

(* The accepting task takes a permit of the semaphore; without one the     *)
(* connection is dropped.                                                  *)
TakePermit(c, p) ==
  /\ phase[c] = "closed" /\ \A d \in Connections : phase[d] # "permitted"
  /\ available > 0 /\ available' = available - 1
  /\ Becomes(c, "permitted") /\ from' = [from EXCEPT ![c] = p]
  /\ UNCHANGED <<budgetVars, counts>>

(* ... and counts its peer; a peer with too many is refused.               *)
CountPeer(c) ==
  /\ phase[c] = "permitted"
  /\ CountOf(from[c]) < MaxPerPeer
  /\ Counted(from[c], CountOf(from[c]) + 1)
  /\ Becomes(c, "open")
  /\ UNCHANGED <<budgetVars, available, from>>

RefusePeerLeaking(c) ==
  /\ phase[c] = "permitted"
  /\ CountOf(from[c]) >= MaxPerPeer
  /\ Close(c)
  /\ UNCHANGED <<budgetVars, available, counts>>

RefusePeer(c) ==
  /\ phase[c] = "permitted"
  /\ CountOf(from[c]) >= MaxPerPeer
  /\ available' = available + 1
  /\ Close(c)
  /\ UNCHANGED <<budgetVars, counts>>

(* The connection's one request, charged before it is looked at.           *)
Serve(c) ==
  /\ phase[c] = "open"
  /\ Request(from[c])
  /\ Becomes(c, "answered")
  /\ UNCHANGED <<available, counts, from>>

(* The task ends: answered, failed, past its deadline or aborted.          *)
Disconnect(c) ==
  /\ phase[c] \in {"open", "answered"}
  /\ Counted(from[c], CountOf(from[c]) - 1)
  /\ Becomes(c, "leaving")
  /\ UNCHANGED <<budgetVars, available, from>>

ReturnPermit(c) ==
  /\ phase[c] = "leaving"
  /\ available' = available + 1
  /\ Close(c)
  /\ UNCHANGED <<budgetVars, counts>>

NextListener ==
  \/ \E c \in Connections :
       \/ \E p \in Peers : TakePermit(c, p)
       \/ CountPeer(c) \/ RefusePeer(c)
       \/ Serve(c)
       \/ Disconnect(c) \/ ReturnPermit(c)
  \/ (Elapse \/ Watch) /\ UNCHANGED listenerVars

SpecListener == InitListener /\ [][NextListener]_servingVars

-----------------------------------------------------------------------------
Holding == {c \in Connections : phase[c] # "closed"}

OpenOf(p) == {c \in Connections : from[c] = p /\ phase[c] \in {"open", "answered"}}

(* Types; a connection has a peer exactly while it is not closed, and a    *)
(* peer is in the table only with a count above zero (ConnectionPermit).   *)
ListenerTypeOK ==
  /\ BudgetTypeOK
  /\ available \in 0..MaxConcurrent
  /\ DOMAIN counts \subseteq Peers /\ counts \in [DOMAIN counts -> Nat \ {0}]
  /\ phase \in [Connections -> Phases]
  /\ from \in [Connections -> Peers \cup {Absent}]
  /\ \A c \in Connections : phase[c] = "closed" <=> from[c] = Absent

(* No permit is lost or returned twice on any way out, refused, answered,  *)
(* timed out or aborted, and every peer is charged for exactly its open    *)
(* connections (ConnectionLimits::try_acquire, ConnectionPermit::drop).    *)
PermitsAccounted ==
  /\ available + Cardinality(Holding) = MaxConcurrent
  /\ \A p \in Peers :
       CountOf(p) = Cardinality(OpenOf(p)) /\ CountOf(p) <= MaxPerPeer
=============================================================================
