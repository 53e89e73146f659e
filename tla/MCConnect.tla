----------------------------- MODULE MCConnect ------------------------------
(***************************************************************************)
(* Instances of Connect for TLC.                                           *)
(***************************************************************************)
EXTENDS Connect, TLC

\* Every berth can carry the whole shore.
MCConnectKVA == [b \in Berth |-> Shore]

\* The request goroutines are interchangeable, and so are the vessels.
MCConnectClients == Permutations(Client) \cup Permutations(Vessel)

=============================================================================
