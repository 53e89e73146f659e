------------------------- MODULE CapacityPoolProof --------------------------
(***************************************************************************)
(* The pool never gives out more blocks than there are.                    *)
(***************************************************************************)
EXTENDS CapacityPool, KVAProof

PoolTypeOK == held \in [Holder -> Nat]

\* Whoever implements the pool never exceeds it.
THEOREM PoolBoundHolds ==
  ASSUME Shore \in Nat, IsFiniteSet(Holder)
  PROVE  PoolSpec => []PoolBound
<1> DEFINE PoolInv == PoolTypeOK /\ PoolBound
<1>1. PoolInit => PoolInv
  BY SumZero DEF PoolInit, PoolTypeOK, PoolBound
<1>2. PoolInv /\ [PoolNext]_held => PoolInv'
  <2> SUFFICES ASSUME PoolTypeOK, PoolBound, [PoolNext]_held
               PROVE  PoolTypeOK' /\ PoolBound'
    OBVIOUS
  <2>1. /\ held \in [Holder -> Nat]
        /\ SumKVA(Holder, held) \in Nat
        /\ SumKVA(Holder, held) <= Shore
    BY BlocksFinite DEF PoolTypeOK, PoolBound
  <2>2. ASSUME NEW h \in Holder, NEW need \in 1 .. Shore, Take(h, need)
        PROVE  PoolTypeOK' /\ PoolBound'
    <3>1. held[h] = 0 /\ held' = [held EXCEPT ![h] = need] /\ need \in Nat
      BY <2>2 DEF Take
    <3>2. SumKVA(Holder, held') = SumKVA(Holder, held) + need
      <4>1. IsFiniteSet(Holder)
        OBVIOUS
      <4>2. SumKVA(Holder, [held EXCEPT ![h] = need])
              = SumKVA(Holder, held) + need
        BY ONLY <2>1, <3>1, <4>1, h \in Holder, SumTake
      <4> QED
        BY <3>1, <4>2
    <3> QED
      BY <2>1, <2>2, <3>1, <3>2
         DEF PoolTypeOK, PoolBound, Take
  <2>3. ASSUME NEW h \in Holder, GiveBack(h)
        PROVE  PoolTypeOK' /\ PoolBound'
    <3>1. held' = [held EXCEPT ![h] = 0]
      BY <2>3 DEF GiveBack
    <3>2. held' \in [Holder -> Nat]
      BY <2>1, <3>1
    <3>3. SumKVA(Holder, held') <= SumKVA(Holder, held)
      BY <2>1, <3>1, SumDrop
    <3>4. SumKVA(Holder, held') \in Nat
      BY <3>2, BlocksFinite
    <3> QED
      BY <2>1, <3>2, <3>3, <3>4 DEF PoolTypeOK, PoolBound
  <2>4. CASE UNCHANGED held
    BY <2>4 DEF PoolTypeOK, PoolBound
  <2> QED
    BY <2>2, <2>3, <2>4 DEF PoolNext
<1>3. PoolInv => PoolBound
  OBVIOUS
<1> QED
  BY <1>1, <1>2, <1>3, PTL DEF PoolSpec

=============================================================================
