-------------------------------- MODULE KVA ---------------------------------
(***************************************************************************)
(* Sums of kVA figures.  A figure is a natural number of blocks; a map f   *)
(* from the members of S to figures stands for the blocks <<s, 1>> ..      *)
(* <<s, f[s]>> of every s, and its sum is their number.  The loops over    *)
(* the map used in UsedTotal and remainingLocked compute this sum.         *)
(***************************************************************************)
EXTENDS Naturals, FiniteSets

Blocks(S, f) == UNION {{s} \X (1 .. f[s]) : s \in S}

SumKVA(S, f) == Cardinality(Blocks(S, f))

=============================================================================
