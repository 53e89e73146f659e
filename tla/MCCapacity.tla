----------------------------- MODULE MCCapacity -----------------------------
(***************************************************************************)
(* Instances of Capacity for TLC.                                          *)
(***************************************************************************)
EXTENDS Capacity, TLC

CONSTANT Small    \* the berths with the smaller rating

\* A demand of two blocks fits the berths that are not small, and is then
\* the whole of a shore of two.
MCCapacityKVA == [b \in Berth |-> IF b \in Small THEN 1 ELSE 2]

\* The request goroutines are interchangeable.
MCClients == Permutations(Client)

=============================================================================
