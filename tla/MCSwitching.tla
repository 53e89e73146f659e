----------------------------- MODULE MCSwitching ----------------------------
(***************************************************************************)
(* Instances of Switching for TLC.                                         *)
(***************************************************************************)
EXTENDS Switching, TLC

\* Every berth can carry the whole shore.
MCSwitchingKVA == [b \in Berth |-> Shore]

\* The request goroutines are interchangeable.
MCSwitchingClients == Permutations(Client)

=============================================================================
