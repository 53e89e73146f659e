---------------------------- MODULE CapacityPool ----------------------------
(***************************************************************************)
(* What the allocator promises, without the goroutines: a pool of Shore    *)
(* blocks of which each berth holds some or none.  A berth that holds      *)
(* nothing may be given a positive amount that still fits, in one step,    *)
(* and a berth that holds something may lose all of it; nothing else ever  *)
(* happens.  In particular an amount is never changed in place.            *)
(***************************************************************************)
EXTENDS KVA

CONSTANTS
  Holder,         \* the berths
  Shore           \* the blocks there are

VARIABLE held     \* held[h]: the blocks of h

PoolInit == held = [h \in Holder |-> 0]

Take(h, need) ==
  /\ held[h] = 0
  /\ need > 0
  /\ need + SumKVA(Holder, held) <= Shore
  /\ held' = [held EXCEPT ![h] = need]

GiveBack(h) ==
  /\ held[h] > 0
  /\ held' = [held EXCEPT ![h] = 0]

PoolNext ==
  \E h \in Holder : GiveBack(h) \/ \E need \in 1 .. Shore : Take(h, need)

PoolSpec == PoolInit /\ [][PoolNext]_held

\* The pool never gives out more than there is.
PoolBound == SumKVA(Holder, held) <= Shore

=============================================================================
