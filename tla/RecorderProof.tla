---------------------------- MODULE RecorderProof ---------------------------
(***************************************************************************)
(* Lemmas about the run log of Recorder, for logs of any length: what the  *)
(* scan of a file keeps, and what a write does to the lines that are there *)
(* already.                                                                *)
(***************************************************************************)
EXTENDS Recorder, WellFoundedInduction, FiniteSetTheorems, TLAPS

---------------------------------------------------------------------------
(* The scan of Resume, by induction on the number of lines.                *)

\* A set of numbers that is not empty has a least element.
LEMMA LeastNat ==
  ASSUME NEW T, T \subseteq Nat, T # {}
  PROVE  \E m \in T : \A i \in T : m <= i
<1> DEFINE less == OpToRel(<, Nat)
<1>1. IsWellFoundedOn(less, Nat)
  BY NatLessThanWellFounded
<1>2. \A i, m \in Nat : i < m => <<i, m>> \in less
  BY DEF OpToRel
<1> HIDE DEF less
<1>3. \E m \in T : \A i \in T : ~ (<<i, m>> \in less)
  BY <1>1, WFMin, Zenon
<1>4. PICK m \in T : \A i \in T : ~ (<<i, m>> \in less)
  BY <1>3
<1>5. \A i \in T : ~ (i < m)
  BY <1>2, <1>4
<1> QED BY <1>5

\* What is kept of the first n lines.
IsScan(kept, lines, n) ==
  kept = [i \in 0 .. n |->
            IF i = 0 THEN <<>>
            ELSE IF IsEntry(lines[i]) THEN Append(kept[i - 1], lines[i])
            ELSE kept[i - 1]]

LEMMA ScanExists ==
  ASSUME NEW lines, NEW n \in Nat
  PROVE  \E kept : IsScan(kept, lines, n)
<1> DEFINE bad == {i \in Nat : ~\E kept : IsScan(kept, lines, i)}
<1> SUFFICES ASSUME bad # {} PROVE FALSE
  OBVIOUS
<1>1. PICK m \in bad : \A i \in bad : m <= i
  <2> HIDE DEF bad
  <2>1. bad \subseteq Nat
    BY DEF bad
  <2>2. \E m \in bad : \A i \in bad : m <= i
    BY <2>1, LeastNat
  <2> QED BY <2>2
<1>2. CASE m = 0
  <2>1. IsScan([i \in 0 .. 0 |-> <<>>], lines, 0)
    BY DEF IsScan
  <2> QED BY <1>2, <2>1
<1>3. CASE m # 0
  <2>1. m - 1 \in Nat /\ m - 1 \notin bad
    BY <1>1, <1>3
  <2>2. PICK kept : IsScan(kept, lines, m - 1)
    BY <2>1
  <2> DEFINE more == [i \in 0 .. m |->
                        IF i < m THEN kept[i]
                        ELSE IF IsEntry(lines[m]) THEN Append(kept[m - 1], lines[m])
                        ELSE kept[m - 1]]
  <2>3. \A i \in 0 .. m - 1 :
          kept[i] = IF i = 0 THEN <<>>
                    ELSE IF IsEntry(lines[i]) THEN Append(kept[i - 1], lines[i])
                    ELSE kept[i - 1]
    BY <2>1, <2>2 DEF IsScan
  <2>4. ASSUME NEW i \in 0 .. m
        PROVE more[i] = IF i = 0 THEN <<>>
                        ELSE IF IsEntry(lines[i]) THEN Append(more[i - 1], lines[i])
                        ELSE more[i - 1]
    <3>1. CASE i = 0
      BY <1>3, <2>1, <2>3, <3>1
    <3>2. CASE i # 0 /\ i < m
      BY <1>3, <2>1, <2>3, <3>2
    <3>3. CASE i = m
      BY <1>3, <2>1, <2>3, <3>3
    <3> QED BY <3>1, <3>2, <3>3
  <2>5. more = [i \in 0 .. m |->
                  IF i = 0 THEN <<>>
                  ELSE IF IsEntry(lines[i]) THEN Append(more[i - 1], lines[i])
                  ELSE more[i - 1]]
    <3> DEFINE other == [i \in 0 .. m |->
                  IF i = 0 THEN <<>>
                  ELSE IF IsEntry(lines[i]) THEN Append(more[i - 1], lines[i])
                  ELSE more[i - 1]]
    <3>1. \A i \in 0 .. m : more[i] = other[i]
      BY <2>4 DEF more
    <3> QED BY <3>1
  <2>6. IsScan(more, lines, m)
    BY <2>5 DEF IsScan
  <2> QED BY <1>1, <2>6
<1> QED BY <1>2, <1>3

LEMMA ReadableScan ==
  ASSUME NEW S, NEW lines \in Seq(S)
  PROVE  \E kept : IsScan(kept, lines, Len(lines)) /\ Readable(lines) = kept[Len(lines)]
<1>1. \E kept : IsScan(kept, lines, Len(lines))
  BY ScanExists
<1> DEFINE scan == CHOOSE kept : IsScan(kept, lines, Len(lines))
<1>2. IsScan(scan, lines, Len(lines))
  BY <1>1
<1>3. Readable(lines) = scan[Len(lines)]
  BY DEF Readable, IsScan
<1> QED BY <1>2, <1>3

\* The scan, one line further.
LEMMA ScanNext ==
  ASSUME NEW lines, NEW N \in Nat, NEW kept, IsScan(kept, lines, N),
         NEW n \in 0 .. N, n # N
  PROVE  kept[n + 1] = IF lines[n + 1] # Garbage THEN Append(kept[n], lines[n + 1])
                       ELSE kept[n]
<1>1. \A i \in 0 .. N :
        i # 0 => kept[i] = IF IsEntry(lines[i]) THEN Append(kept[i - 1], lines[i])
                           ELSE kept[i - 1]
  BY DEF IsScan
<1> DEFINE m == n + 1
<1>2. m \in 0 .. N /\ m # 0 /\ m - 1 = n
  OBVIOUS
<1> HIDE DEF m
<1>3. kept[m] = IF IsEntry(lines[m]) THEN Append(kept[n], lines[m]) ELSE kept[n]
  BY <1>1, <1>2
<1> QED BY <1>3 DEF m, IsEntry

\* A property of 0 that goes from each number below N to the next one holds
\* up to N.
LEMMA UpTo ==
  ASSUME NEW N \in Nat, NEW T, 0 \in T,
         \A n \in 0 .. N : n # N /\ n \in T => n + 1 \in T
  PROVE  \A n \in 0 .. N : n \in T
<1> DEFINE bad == {n \in 0 .. N : n \notin T}
<1> SUFFICES ASSUME bad # {} PROVE FALSE
  OBVIOUS
<1>1. bad \subseteq Nat
  OBVIOUS
<1>2. \E m \in bad : \A i \in bad : m <= i
  <2> HIDE DEF bad
  <2> QED BY <1>1, LeastNat
<1>3. PICK m \in bad : \A i \in bad : m <= i
  BY <1>2
<1>4. m # 0 /\ m - 1 \in 0 .. N /\ m - 1 # N /\ m - 1 \notin bad
  BY <1>3
<1>5. (m - 1) + 1 \in T
  BY <1>4
<1> QED BY <1>3, <1>5

\* The elements of a sequence with one more element.
LEMMA AppendRange ==
  ASSUME NEW S, NEW s \in Seq(S), NEW x \in S
  PROVE  /\ Append(s, x) \in Seq(S)
         /\ Range(Append(s, x)) = Range(s) \cup {x}
<1>1. /\ Len(s) \in Nat
      /\ DOMAIN s = 1 .. Len(s)
      /\ DOMAIN Append(s, x) = 1 .. Len(s) + 1
      /\ \A i \in 1 .. Len(s) : Append(s, x)[i] = s[i]
      /\ Append(s, x)[Len(s) + 1] = x
  OBVIOUS
<1>2. 1 .. Len(s) + 1 = (1 .. Len(s)) \cup {Len(s) + 1}
  BY <1>1
<1>3. Range(Append(s, x)) = Range(s) \cup {x}
  BY <1>1, <1>2 DEF Range
<1> QED BY <1>3

\* The entries read back are those of the lines that parse.
LEMMA ReadableEntries ==
  ASSUME NEW S, NEW lines \in Seq(S)
  PROVE  /\ Readable(lines) \in Seq(S \ {Garbage})
         /\ Range(Readable(lines)) = Range(lines) \ {Garbage}
<1> DEFINE N == Len(lines)
           First(n) == {lines[i] : i \in 1 .. n} \ {Garbage}
<1>1. PICK kept : IsScan(kept, lines, N) /\ Readable(lines) = kept[N]
  BY ReadableScan
<1> DEFINE P(n) == kept[n] \in Seq(S \ {Garbage}) /\ Range(kept[n]) = First(n)
           T == {n \in 0 .. N : P(n)}
<1>2. P(0)
  <2>1. kept[0] = <<>>
    BY <1>1 DEF IsScan
  <2> QED BY <2>1 DEF Range
<1>3. ASSUME NEW n \in 0 .. N, n # N, P(n)
      PROVE  P(n + 1)
  <2>1. n + 1 \in 1 .. N /\ lines[n + 1] \in S
    BY <1>3
  <2>2. kept[n + 1] = IF lines[n + 1] # Garbage THEN Append(kept[n], lines[n + 1])
                      ELSE kept[n]
    BY <1>1, <1>3, ScanNext
  <2>3. First(n + 1) = First(n) \cup ({lines[n + 1]} \ {Garbage})
    <3>1. 1 .. n + 1 = (1 .. n) \cup {n + 1}
      OBVIOUS
    <3> QED BY <3>1
  <2> HIDE DEF First
  <2>4. CASE lines[n + 1] # Garbage
    <3> DEFINE x == lines[n + 1]
    <3>1. kept[n] \in Seq(S \ {Garbage}) /\ x \in S \ {Garbage}
      BY <1>3, <2>1, <2>4
    <3>2. kept[n + 1] = Append(kept[n], x)
      BY <2>2, <2>4
    <3> HIDE DEF x
    <3>3. /\ kept[n + 1] \in Seq(S \ {Garbage})
          /\ Range(kept[n + 1]) = Range(kept[n]) \cup {x}
      BY <3>1, <3>2, AppendRange
    <3>4. First(n + 1) = First(n) \cup {x}
      BY <2>3, <2>4 DEF x
    <3> QED BY <1>3, <3>3, <3>4
  <2>5. CASE lines[n + 1] = Garbage
    <3>1. kept[n + 1] = kept[n] /\ First(n + 1) = First(n)
      BY <2>2, <2>3, <2>5
    <3> QED BY <1>3, <3>1
  <2> QED BY <2>4, <2>5
<1>4. N \in Nat /\ 0 \in 0 .. N
  OBVIOUS
<1>5. P(N)
  <2> HIDE DEF P
  <2>1. \A n \in 0 .. N : n # N /\ n \in T => n + 1 \in T
    BY <1>3, <1>4
  <2>2. 0 \in T
    BY <1>2, <1>4
  <2>3. N \in 0 .. N
    BY <1>4
  <2> HIDE DEF T, N
  <2>4. N \in T
    BY <1>4, <2>1, <2>2, <2>3, UpTo
  <2> QED BY <2>4 DEF T
<1>6. First(N) = Range(lines) \ {Garbage}
  BY DEF Range
<1> QED BY <1>1, <1>5, <1>6

\* When every line parses, nothing is left out.
LEMMA ReadableWhole ==
  ASSUME NEW S, NEW lines \in Seq(S), Garbage \notin Range(lines)
  PROVE  Readable(lines) = lines
<1> DEFINE N == Len(lines)
<1>1. PICK kept : IsScan(kept, lines, N) /\ Readable(lines) = kept[N]
  BY ReadableScan
<1> DEFINE P(n) == /\ kept[n] \in Seq(S)
                   /\ Len(kept[n]) = n
                   /\ \A i \in 1 .. n : kept[n][i] = lines[i]
           T == {n \in 0 .. N : P(n)}
<1>2. P(0)
  <2>1. kept[0] = <<>>
    BY <1>1 DEF IsScan
  <2> QED BY <2>1
<1>3. ASSUME NEW n \in 0 .. N, n # N, P(n)
      PROVE  P(n + 1)
  <2>1. n + 1 \in 1 .. N /\ lines[n + 1] \in S /\ lines[n + 1] # Garbage
    BY <1>3 DEF Range
  <2>2. kept[n + 1] = Append(kept[n], lines[n + 1])
    <3>1. kept[n + 1] = IF lines[n + 1] # Garbage THEN Append(kept[n], lines[n + 1])
                        ELSE kept[n]
      BY <1>1, <1>3, ScanNext
    <3> QED BY <2>1, <3>1
  <2> QED BY <1>3, <2>1, <2>2
<1>4. N \in Nat /\ 0 \in 0 .. N
  OBVIOUS
<1>5. P(N)
  <2> HIDE DEF P
  <2>1. \A n \in 0 .. N : n # N /\ n \in T => n + 1 \in T
    BY <1>3, <1>4
  <2>2. 0 \in T
    BY <1>2, <1>4
  <2>3. N \in 0 .. N
    BY <1>4
  <2> HIDE DEF T, N
  <2>4. N \in T
    BY <1>4, <2>1, <2>2, <2>3, UpTo
  <2> QED BY <2>4 DEF T
<1> QED BY <1>1, <1>5

\* Two files are scanned alike as far as their lines are the same.
LEMMA ScansAgree ==
  ASSUME NEW M \in Nat, NEW some, NEW k, IsScan(k, some, M),
         NEW N \in Nat, NEW other, NEW l, IsScan(l, other, N),
         NEW n \in Nat, n <= M, n <= N,
         \A i \in 1 .. n : some[i] = other[i]
  PROVE  k[n] = l[n]
<1> DEFINE T == {i \in 0 .. n : k[i] = l[i]}
<1>1. 0 \in T
  <2>1. k[0] = <<>> /\ l[0] = <<>>
    BY DEF IsScan
  <2> QED BY <2>1
<1>2. ASSUME NEW i \in 0 .. n, i # n, i \in T
      PROVE  i + 1 \in T
  <2>1. i \in 0 .. M /\ i # M /\ i \in 0 .. N /\ i # N /\ i + 1 \in 1 .. n
    BY <1>2
  <2>2. k[i + 1] = IF some[i + 1] # Garbage THEN Append(k[i], some[i + 1])
                   ELSE k[i]
    BY <2>1, ScanNext
  <2>3. l[i + 1] = IF other[i + 1] # Garbage THEN Append(l[i], other[i + 1])
                   ELSE l[i]
    BY <2>1, ScanNext
  <2>4. k[i] = l[i] /\ some[i + 1] = other[i + 1]
    BY <1>2, <2>1
  <2> QED BY <2>1, <2>2, <2>3, <2>4
<1>3. n \in T
  <2> HIDE DEF T
  <2> QED BY <1>1, <1>2, UpTo
<1> QED BY <1>3

\* The scan reads a file to its last line but one, and then that line.
LEMMA ReadableMore ==
  ASSUME NEW S, NEW lines \in Seq(S), lines # <<>>,
         NEW front \in Seq(S), Len(front) = Len(lines) - 1,
         \A i \in 1 .. Len(front) : front[i] = lines[i]
  PROVE  Readable(lines) = IF lines[Len(lines)] # Garbage
                           THEN Append(Readable(front), lines[Len(lines)])
                           ELSE Readable(front)
<1> DEFINE N == Len(lines)
           n == Len(front)
<1>1. N \in Nat /\ n \in Nat /\ n \in 0 .. N /\ n # N /\ n + 1 = N /\ n <= N
  OBVIOUS
<1>2. PICK k : IsScan(k, lines, N) /\ Readable(lines) = k[N]
  BY ReadableScan
<1>3. PICK l : IsScan(l, front, n) /\ Readable(front) = l[n]
  BY ReadableScan
<1>4. \A i \in 1 .. n : front[i] = lines[i]
  OBVIOUS
<1> HIDE DEF N, n
<1>5. k[n] = l[n]
  <2>1. n <= n
    BY <1>1
  <2> QED BY <1>1, <1>2, <1>3, <1>4, <2>1, ScansAgree
<1>6. k[n + 1] = IF lines[n + 1] # Garbage THEN Append(k[n], lines[n + 1])
                 ELSE k[n]
  BY <1>1, <1>2, ScanNext
<1> QED BY <1>1, <1>2, <1>3, <1>5, <1>6 DEF N

LEMMA ReadableAppend ==
  ASSUME NEW S, NEW lines \in Seq(S), NEW x \in S
  PROVE  Readable(Append(lines, x)) =
           IF x # Garbage THEN Append(Readable(lines), x) ELSE Readable(lines)
<1> DEFINE more == Append(lines, x)
<1>1. /\ more \in Seq(S) /\ more # <<>>
      /\ Len(lines) = Len(more) - 1
      /\ \A i \in 1 .. Len(lines) : lines[i] = more[i]
      /\ more[Len(more)] = x
  OBVIOUS
<1> HIDE DEF more
<1>2. Readable(more) = IF x # Garbage THEN Append(Readable(lines), x)
                       ELSE Readable(lines)
  BY <1>1, ReadableMore
<1> QED BY <1>2 DEF more

\* The last line of a file, against Garbage in its place.
LEMMA ReadableLast ==
  ASSUME NEW S, NEW lines \in Seq(S), lines # <<>>, Garbage \in S
  PROVE  Readable(lines) =
           IF lines[Len(lines)] # Garbage
           THEN Append(Readable(ReplaceLast(lines, Garbage)), lines[Len(lines)])
           ELSE Readable(ReplaceLast(lines, Garbage))
<1> DEFINE N == Len(lines)
           front == [i \in 1 .. N - 1 |-> lines[i]]
           spoilt == ReplaceLast(lines, Garbage)
<1>1. N \in Nat /\ N # 0 /\ lines \in [1 .. N -> S]
  OBVIOUS
<1>2. /\ front \in Seq(S) /\ Len(front) = N - 1
      /\ \A i \in 1 .. Len(front) : front[i] = lines[i]
  <2>1. N - 1 \in Nat /\ front \in [1 .. N - 1 -> S]
    BY <1>1
  <2>2. front \in Seq(S) /\ Len(front) = N - 1
    BY <2>1
  <2> QED BY <2>1, <2>2
<1>3. /\ spoilt \in Seq(S) /\ Len(spoilt) = N /\ spoilt # <<>>
      /\ \A i \in 1 .. Len(front) : front[i] = spoilt[i]
      /\ spoilt[N] = Garbage
  <2>1. spoilt = [lines EXCEPT ![N] = Garbage]
    BY DEF ReplaceLast
  <2>2. spoilt \in [1 .. N -> S]
    BY <1>1, <2>1
  <2>3. spoilt \in Seq(S) /\ Len(spoilt) = N
    BY <1>1, <2>2
  <2>4. ASSUME NEW i \in 1 .. N - 1
        PROVE  spoilt[i] = front[i]
    <3>1. i \in 1 .. N /\ i # N
      <4> HIDE DEF N, front, spoilt
      <4> QED BY <1>1
    <3>2. spoilt[i] = lines[i]
      BY <1>1, <2>1, <3>1
    <3> QED BY <3>2
  <2>5. N \in 1 .. N
    BY <1>1
  <2>6. spoilt[N] = Garbage
    BY <1>1, <2>1, <2>5
  <2> HIDE DEF spoilt
  <2> QED BY <1>1, <1>2, <2>3, <2>4, <2>6
<1> HIDE DEF front, spoilt, N
<1>4. Readable(spoilt) = Readable(front)
  BY <1>2, <1>3, ReadableMore
<1>5. Readable(lines) = IF lines[N] # Garbage
                        THEN Append(Readable(front), lines[N])
                        ELSE Readable(front)
  BY <1>2, ReadableMore DEF N
<1> QED BY <1>4, <1>5 DEF spoilt, N

\* The last line is spoilt, whatever it was, and once only.
LEMMA SpoilAppended ==
  ASSUME NEW S, NEW lines \in Seq(S), NEW x \in S, Garbage \in S
  PROVE  /\ Append(lines, x)[Len(Append(lines, x))] = x
         /\ ReplaceLast(Append(lines, x), Garbage) = Append(lines, Garbage)
<1> DEFINE N == Len(lines)
           more == Append(lines, x)
           other == Append(lines, Garbage)
<1>1. /\ N \in Nat
      /\ more \in Seq(S) /\ Len(more) = N + 1
      /\ other \in Seq(S) /\ Len(other) = N + 1
      /\ \A i \in 1 .. N : more[i] = other[i]
      /\ more[N + 1] = x /\ other[N + 1] = Garbage
  OBVIOUS
<1> HIDE DEF N, more, other
<1>2. more \in [1 .. N + 1 -> S] /\ other \in [1 .. N + 1 -> S]
  BY <1>1
<1>3. ReplaceLast(more, Garbage) = other
  <2> DEFINE new == [more EXCEPT ![N + 1] = Garbage]
  <2>1. new \in [1 .. N + 1 -> S]
    BY <1>2
  <2>2. ASSUME NEW i \in 1 .. N + 1
        PROVE  new[i] = other[i]
    <3>1. CASE i = N + 1
      BY <1>1, <1>2, <3>1
    <3>2. CASE i # N + 1
      <4>1. i \in 1 .. N
        BY <1>1, <3>2
      <4> QED BY <1>1, <1>2, <3>2, <4>1
    <3> QED BY <3>1, <3>2
  <2>3. new = other
    <3> HIDE DEF new
    <3>1. /\ new = [i \in 1 .. N + 1 |-> new[i]]
          /\ other = [i \in 1 .. N + 1 |-> other[i]]
      BY <1>2, <2>1
    <3> QED BY <2>2, <3>1, Zenon
  <2> QED BY <1>1, <2>3 DEF ReplaceLast
<1> QED BY <1>1, <1>3 DEF more, other

LEMMA SpoilTwice ==
  ASSUME NEW S, NEW lines \in Seq(S), lines # <<>>, Garbage \in S,
         NEW spoilt, spoilt = ReplaceLast(lines, Garbage)
  PROVE  /\ spoilt[Len(spoilt)] = Garbage
         /\ ReplaceLast(spoilt, Garbage) = spoilt
<1>1. PICK N \in Nat : N = Len(lines) /\ N # 0 /\ lines \in [1 .. N -> S]
  OBVIOUS
<1>2. spoilt = [lines EXCEPT ![N] = Garbage]
  BY <1>1 DEF ReplaceLast
<1>3. spoilt \in [1 .. N -> S] /\ spoilt[N] = Garbage
  <2>1. N \in 1 .. N
    BY <1>1
  <2> QED BY <1>1, <1>2, <2>1
<1>4. Len(spoilt) = N
  BY <1>1, <1>3
<1>5. [spoilt EXCEPT ![N] = Garbage] = spoilt
  BY <1>3
<1> QED BY <1>3, <1>4, <1>5 DEF ReplaceLast

---------------------------------------------------------------------------
(* What a write does to the lines.  LinesTorn is LinesWith(Garbage), so a  *)
(* write of a line y stands for every write there is.                      *)

\* The places of a line in the file, and those of them that end in a newline.
Copies(e) == {i \in DOMAIN disk : disk[i] = e}

Whole(e) == {i \in Copies(e) : ~(cut /\ i = Len(disk))}

\* A line goes to the end of the file, or spoils the last one if that is cut.
LEMMA WriteLines ==
  ASSUME NEW S, disk \in Seq(S), Garbage \in S, NEW y \in S,
         cut \in BOOLEAN, cut => disk # <<>>,
         disk' = LinesWith(y)
  PROVE  /\ disk' \in Seq(S) /\ disk' # <<>>
         /\ ~cut => /\ Len(disk') = Len(disk) + 1
                    /\ \A i \in DOMAIN disk : disk'[i] = disk[i]
                    /\ disk'[Len(disk')] = y
         /\ cut => /\ Len(disk') = Len(disk)
                   /\ \A i \in DOMAIN disk :
                        disk'[i] = IF i = Len(disk) THEN Garbage ELSE disk[i]
<1>1. CASE ~cut
  <2>1. disk' = Append(disk, y)
    BY <1>1 DEF LinesWith
  <2>2. /\ Append(disk, y) \in Seq(S)
        /\ Append(disk, y) # <<>>
        /\ Len(Append(disk, y)) = Len(disk) + 1
        /\ \A i \in DOMAIN disk : Append(disk, y)[i] = disk[i]
        /\ Append(disk, y)[Len(disk) + 1] = y
    OBVIOUS
  <2> QED BY <1>1, <2>1, <2>2
<1>2. CASE cut
  <2>1. disk' = [disk EXCEPT ![Len(disk)] = Garbage]
    BY <1>2 DEF LinesWith, ReplaceLast
  <2>2. PICK n \in Nat : disk \in [1 .. n -> S] /\ n = Len(disk) /\ n # 0
    BY <1>2
  <2>3. disk' \in [1 .. n -> S]
    BY <2>1, <2>2
  <2>4. disk' \in Seq(S) /\ Len(disk') = n
    BY <2>2, <2>3
  <2> QED BY <1>2, <2>1, <2>2, <2>4
<1> QED BY <1>1, <1>2

\* The copies of an entry: those that ended in a newline stay, and one comes
\* to them at most, that of the entry that was written.
LEMMA WriteCopies ==
  ASSUME NEW S, disk \in Seq(S), Garbage \in S, NEW y \in S,
         cut \in BOOLEAN, cut => disk # <<>>,
         disk' = LinesWith(y), cut' \in BOOLEAN,
         NEW e, e # Garbage
  PROVE  /\ Whole(e) \subseteq Copies(e)'
         /\ Copies(e)' \subseteq Whole(e) \cup {Len(disk) + 1}
         /\ e # y => Copies(e)' = Whole(e)
         /\ cut' => Whole(e)' = Whole(e)
<1>1. Len(disk) \in Nat /\ DOMAIN disk = 1 .. Len(disk)
  OBVIOUS
<1>2. disk' \in Seq(S) /\ DOMAIN disk' = 1 .. Len(disk')
  BY WriteLines
<1>3. CASE ~cut
  <2>1. /\ Len(disk') = Len(disk) + 1
        /\ \A i \in DOMAIN disk : disk'[i] = disk[i]
        /\ disk'[Len(disk) + 1] = y
    BY <1>3, WriteLines
  <2> QED BY <1>1, <1>2, <1>3, <2>1 DEF Copies, Whole
<1>4. CASE cut
  <2>1. /\ Len(disk') = Len(disk)
        /\ \A i \in DOMAIN disk :
             disk'[i] = IF i = Len(disk) THEN Garbage ELSE disk[i]
    BY <1>4, WriteLines
  <2> QED BY <1>1, <1>2, <1>4, <2>1 DEF Copies, Whole
<1> QED BY <1>3, <1>4

\* Of the entries in the file a write loses the last one at most, and that
\* only if it is cut; the entry written is there unless the file was cut.
LEMMA WriteKeeps ==
  ASSUME NEW S, disk \in Seq(S), Garbage \in S, NEW y \in S,
         cut \in BOOLEAN, cut => disk # <<>>,
         disk' = LinesWith(y)
  PROVE  /\ \A e \in Range(disk) :
              e \in Range(disk') \/ (cut /\ e = disk[Len(disk)])
         /\ Range(disk') \subseteq Range(disk) \cup {y, Garbage}
         /\ ~cut => Range(disk') = Range(disk) \cup {y}
         /\ cut => disk'[Len(disk')] = Garbage
         /\ ~cut => disk'[Len(disk')] = y
<1>1. /\ Len(disk) \in Nat /\ DOMAIN disk = 1 .. Len(disk)
      /\ cut => Len(disk) # 0
  OBVIOUS
<1>2. disk' \in Seq(S) /\ DOMAIN disk' = 1 .. Len(disk')
  BY WriteLines
<1>3. CASE ~cut
  <2>1. /\ Len(disk') = Len(disk) + 1
        /\ \A i \in DOMAIN disk : disk'[i] = disk[i]
        /\ disk'[Len(disk) + 1] = y
    BY <1>3, WriteLines
  <2> QED BY <1>1, <1>2, <1>3, <2>1 DEF Range
<1>4. CASE cut
  <2>1. /\ Len(disk') = Len(disk)
        /\ \A i \in DOMAIN disk :
             disk'[i] = IF i = Len(disk) THEN Garbage ELSE disk[i]
    BY <1>4, WriteLines
  <2> QED BY <1>1, <1>2, <1>4, <2>1 DEF Range
<1> QED BY <1>3, <1>4

\* The copies of a line are finitely many.
LEMMA CopiesFinite ==
  ASSUME NEW S, disk \in Seq(S), NEW e
  PROVE  /\ IsFiniteSet(Copies(e)) /\ Cardinality(Copies(e)) \in Nat
         /\ IsFiniteSet(Whole(e)) /\ Cardinality(Whole(e)) \in Nat
         /\ Cardinality(Whole(e)) <= Cardinality(Copies(e))
<1>1. IsFiniteSet(1 .. Len(disk))
  BY FS_Interval
<1>2. Copies(e) \subseteq 1 .. Len(disk) /\ Whole(e) \subseteq Copies(e)
  BY DEF Copies, Whole
<1>3. IsFiniteSet(Copies(e))
  BY <1>1, <1>2, FS_Subset
<1>4. IsFiniteSet(Whole(e)) /\ Cardinality(Whole(e)) <= Cardinality(Copies(e))
  BY <1>2, <1>3, FS_Subset
<1> QED BY <1>3, <1>4, FS_CardinalityType

\* The count of the copies of an entry after a write.
LEMMA WriteCount ==
  ASSUME NEW S, disk \in Seq(S), Garbage \in S, NEW y \in S,
         cut \in BOOLEAN, cut => disk # <<>>,
         disk' = LinesWith(y), cut' \in BOOLEAN,
         NEW e, e # Garbage
  PROVE  /\ Cardinality(Copies(e)') \in Nat /\ Cardinality(Whole(e)') \in Nat
         /\ Cardinality(Copies(e)') <= Cardinality(Whole(e)) + 1
         /\ Cardinality(Whole(e)') <= Cardinality(Copies(e)')
         /\ e # y => Cardinality(Copies(e)') = Cardinality(Whole(e))
         /\ cut' => Cardinality(Whole(e)') = Cardinality(Whole(e))
<1>1. /\ IsFiniteSet(Whole(e)) /\ Cardinality(Whole(e)) \in Nat
  BY CopiesFinite
<1>2. /\ Copies(e)' \subseteq Whole(e) \cup {Len(disk) + 1}
      /\ e # y => Copies(e)' = Whole(e)
      /\ cut' => Whole(e)' = Whole(e)
  BY WriteCopies
<1>3. /\ IsFiniteSet(Whole(e) \cup {Len(disk) + 1})
      /\ Cardinality(Whole(e) \cup {Len(disk) + 1}) <= Cardinality(Whole(e)) + 1
  <2>1. IsFiniteSet(Whole(e) \cup {Len(disk) + 1})
        /\ Cardinality(Whole(e) \cup {Len(disk) + 1})
              = IF Len(disk) + 1 \in Whole(e) THEN Cardinality(Whole(e))
                ELSE Cardinality(Whole(e)) + 1
    BY <1>1, FS_AddElement
  <2> QED BY <1>1, <2>1
<1>4. /\ IsFiniteSet(Copies(e)') /\ Cardinality(Copies(e)') \in Nat
      /\ Cardinality(Copies(e)') <= Cardinality(Whole(e) \cup {Len(disk) + 1})
  BY <1>2, <1>3, FS_Subset, FS_CardinalityType
<1>5. Cardinality(Whole(e) \cup {Len(disk) + 1}) \in Nat
  BY <1>3, FS_CardinalityType
<1>6. Whole(e)' \subseteq Copies(e)'
  BY DEF Whole
<1>7. /\ IsFiniteSet(Whole(e)') /\ Cardinality(Whole(e)') \in Nat
      /\ Cardinality(Whole(e)') <= Cardinality(Copies(e)')
  BY <1>4, <1>6, FS_Subset, FS_CardinalityType
<1> QED BY <1>1, <1>2, <1>3, <1>4, <1>5, <1>7

=============================================================================
