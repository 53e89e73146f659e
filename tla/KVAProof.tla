------------------------------ MODULE KVAProof ------------------------------
(***************************************************************************)
(* What the sum of a map does when one entry is set or cleared.            *)
(***************************************************************************)
EXTENDS KVA, FiniteSetTheorems, TLAPS

\* The blocks of a map over a finite set are finitely many, so their number
\* is a natural number: the sum of remainingLocked is well defined.
LEMMA BlocksFinite ==
  ASSUME NEW S, IsFiniteSet(S), NEW f \in [S -> Nat]
  PROVE  /\ IsFiniteSet(Blocks(S, f))
         /\ SumKVA(S, f) \in Nat
<1> DEFINE Column(s) == {s} \X (1 .. f[s])
           Columns   == {Column(s) : s \in S}
           column    == [s \in S |-> Column(s)]
<1>1. IsFiniteSet(Columns)
  <2>1. column \in Surjection(S, Columns)
    BY DEF Surjection
  <2> QED
    BY <2>1, FS_Surjection
<1>2. ASSUME NEW s \in S
      PROVE  IsFiniteSet(Column(s))
  <2>1. IsFiniteSet({s})
    BY FS_Singleton
  <2>2. IsFiniteSet(1 .. f[s])
    BY FS_Interval
  <2> QED
    BY <2>1, <2>2, FS_Product
<1>3. \A C \in Columns : IsFiniteSet(C)
  BY <1>2
<1>4. IsFiniteSet(UNION Columns)
  BY <1>1, <1>3, FS_UNION
<1>5. Blocks(S, f) = UNION Columns
  BY DEF Blocks
<1> QED
  BY <1>4, <1>5, FS_CardinalityType DEF SumKVA

\* Clearing or lowering an entry never raises the sum (Release, Refresh).
LEMMA SumDrop ==
  ASSUME NEW S, IsFiniteSet(S), NEW f \in [S -> Nat], NEW s \in S
  PROVE  SumKVA(S, [f EXCEPT ![s] = 0]) <= SumKVA(S, f)
<1> DEFINE g == [f EXCEPT ![s] = 0]
<1>1. Blocks(S, g) \subseteq Blocks(S, f)
  <2> SUFFICES ASSUME NEW t \in S, NEW i \in 1 .. g[t]
               PROVE  i \in 1 .. f[t]
    BY DEF Blocks
  <2>1. CASE t = s
    BY <2>1
  <2>2. CASE t # s
    BY <2>2
  <2> QED
    BY <2>1, <2>2
<1>2. IsFiniteSet(Blocks(S, f))
  BY BlocksFinite
<1> QED
  BY <1>1, <1>2, FS_Subset DEF SumKVA

\* Setting an entry that was 0 adds exactly its value (the grant).
LEMMA SumTake ==
  ASSUME NEW S, IsFiniteSet(S), NEW f \in [S -> Nat], NEW s \in S,
         f[s] = 0, NEW k \in Nat
  PROVE  SumKVA(S, [f EXCEPT ![s] = k]) = SumKVA(S, f) + k
<1> DEFINE g == [f EXCEPT ![s] = k]
           C == {s} \X (1 .. k)
<1>1. Blocks(S, g) = Blocks(S, f) \cup C
  <2>1. ASSUME NEW t \in S
        PROVE  1 .. g[t] = IF t = s THEN 1 .. k ELSE 1 .. f[t]
    OBVIOUS
  <2>2. 1 .. f[s] = {}
    OBVIOUS
  <2>3. ASSUME NEW x \in Blocks(S, g)
        PROVE  x \in Blocks(S, f) \cup C
    <3>1. PICK t \in S : x \in {t} \X (1 .. g[t])
      BY DEF Blocks
    <3>2. CASE t = s
      BY <2>1, <3>1, <3>2
    <3>3. CASE t # s
      BY <2>1, <3>1, <3>3 DEF Blocks
    <3> QED
      BY <3>2, <3>3
  <2>4. ASSUME NEW x \in Blocks(S, f)
        PROVE  x \in Blocks(S, g)
    <3>1. PICK t \in S : x \in {t} \X (1 .. f[t])
      BY DEF Blocks
    <3>2. t # s
      BY <2>2, <3>1
    <3> QED
      BY <2>1, <3>1, <3>2 DEF Blocks
  <2>5. C \subseteq Blocks(S, g)
    BY <2>1 DEF Blocks
  <2> QED
    BY <2>3, <2>4, <2>5
<1>2. Blocks(S, f) \cap C = {}
  <2> SUFFICES ASSUME NEW x \in Blocks(S, f), x \in C
               PROVE  FALSE
    OBVIOUS
  <2>1. PICK t \in S : x \in {t} \X (1 .. f[t])
    BY DEF Blocks
  <2>2. t = s
    BY <2>1
  <2> QED
    BY <2>1, <2>2
<1>3. IsFiniteSet(C) /\ Cardinality(C) = k
  <2>1. IsFiniteSet({s}) /\ Cardinality({s}) = 1
    BY FS_Singleton
  <2>2. /\ IsFiniteSet(1 .. k)
        /\ Cardinality(1 .. k) = IF 1 > k THEN 0 ELSE k - 1 + 1
    BY 1 \in Int, k \in Int, FS_Interval
  <2>3. Cardinality(1 .. k) = k
    BY <2>2
  <2>4. IsFiniteSet(C) /\ Cardinality(C) = 1 * Cardinality(1 .. k)
    BY <2>1, <2>2, FS_Product
  <2> QED
    BY <2>3, <2>4
<1>4. /\ IsFiniteSet(Blocks(S, f))
      /\ Cardinality(Blocks(S, f)) \in Nat
  BY BlocksFinite DEF SumKVA
<1>5. Cardinality(Blocks(S, f) \cup C) = Cardinality(Blocks(S, f)) + k
  <2>1. Cardinality(Blocks(S, f) \cup C)
          = Cardinality(Blocks(S, f)) + Cardinality(C)
              - Cardinality(Blocks(S, f) \cap C)
    BY <1>3, <1>4, FS_Union
  <2>2. Cardinality(Blocks(S, f) \cap C) = 0
    BY <1>2, FS_EmptySet
  <2> QED
    BY <1>3, <1>4, <2>1, <2>2
<1> QED
  BY <1>1, <1>5 DEF SumKVA

\* The sum of the empty books is 0.
LEMMA SumZero ==
  ASSUME NEW S
  PROVE  SumKVA(S, [s \in S |-> 0]) = 0
<1>1. Blocks(S, [s \in S |-> 0]) = {}
  BY DEF Blocks
<1> QED
  BY <1>1, FS_EmptySet DEF SumKVA

=============================================================================
