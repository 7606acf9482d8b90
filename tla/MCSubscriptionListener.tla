----------------------- MODULE MCSubscriptionListener -----------------------
EXTENDS SubscriptionListener, TLC

(* Addresses and connections are interchangeable.                          *)
Symmetry == Permutations(Peers) \cup Permutations(Connections)
=============================================================================
