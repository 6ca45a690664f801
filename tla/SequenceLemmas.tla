----------------------------- MODULE SequenceLemmas ----------------------------
(***************************************************************************)
(* Induction over the natural numbers by the least counterexample, and     *)
(* what it gives about FlattenSeq, with which the models concatenate what  *)
(* the code collects in a loop, about lists of sets of numbers, about sums *)
(* of sequences, about sequences that enumerate a set or share it, about   *)
(* sequences of indices applied to another, about total orders, which give *)
(* each of finitely many elements a place of its own, about SplitBySize    *)
(* and Chunk, which cut a sequence into pieces of one size, and about the  *)
(* places that the sequences of a list have in their concatenation.        *)
(***************************************************************************)
EXTENDS Integers, DataProto, SequencesExt, SequenceTheorems, FiniteSetTheorems, WellFoundedInduction, TLAPS

(* A set of natural numbers that is not empty has a least element.           *)
LEMMA LeastExists ==
  ASSUME NEW T, T \subseteq Nat, T # {}
  PROVE  \E x \in T : \A y \in T : x <= y
<1>1. PICK x \in T : \A y \in T : ~(<<y, x>> \in OpToRel(<, Nat))
  BY NatLessThanWellFounded, WFMin
<1>2. \A y \in T : ~(y < x)
  BY <1>1 DEF OpToRel
<1>3. \A y \in T : x \in Nat /\ y \in Nat
  OBVIOUS
<1>4. \A y \in T : x <= y
  BY <1>2, <1>3
<1> QED BY <1>4

(* Induction up to a bound.                                                  *)
LEMMA UpTo ==
  ASSUME NEW n \in Nat, NEW T, 0 \in T, \A k \in 1 .. n : k - 1 \in T => k \in T
  PROVE  \A k \in 0 .. n : k \in T
<1> SUFFICES ASSUME NEW m \in 0 .. n, m \notin T PROVE FALSE
  OBVIOUS
<1> DEFINE B == {k \in 0 .. n : k \notin T}
<1>1. B \subseteq Nat /\ B # {}
  OBVIOUS
<1>2. PICK x \in B : \A y \in B : x <= y
  BY <1>1, LeastExists
<1>3. x \in 1 .. n /\ x - 1 \in 0 .. n /\ x - 1 \notin B
  BY <1>2
<1> QED BY <1>3

-----------------------------------------------------------------------------
(* FlattenSeq.                                                               *)

(* What the function inside FlattenSeq has to satisfy.                       *)
Flattens(f, seqs, n) ==
  f = [i \in 1 .. n |-> IF i = 1 THEN seqs[i] ELSE f[i - 1] \o seqs[i]]

(* There is such a function.                                                 *)
LEMMA FlattensExists ==
  ASSUME NEW seqs, NEW n \in Nat PROVE \E f : Flattens(f, seqs, n)
<1> DEFINE T == {k \in Nat : \E f : Flattens(f, seqs, k)}
<1>1. 0 \in T
  <2> DEFINE f == [i \in 1 .. 0 |-> seqs[i]]
  <2>1. \A i \in 1 .. 0 : FALSE
    OBVIOUS
  <2>2. Flattens(f, seqs, 0)
    BY <2>1 DEF Flattens
  <2> QED BY <2>2
<1>2. ASSUME NEW k \in 1 .. n, k - 1 \in T PROVE k \in T
  <2>1. PICK f : Flattens(f, seqs, k - 1)
    BY <1>2
  <2> DEFINE g == [i \in 1 .. k |-> IF i = 1 THEN seqs[i] ELSE f[i - 1] \o seqs[i]]
  <2>2. \A i \in 1 .. (k - 1) : f[i] = IF i = 1 THEN seqs[i] ELSE f[i - 1] \o seqs[i]
    BY <2>1 DEF Flattens
  <2>3. \A i \in 1 .. (k - 1) : g[i] = f[i]
    BY <2>2
  <2>4. \A i \in 1 .. k : i # 1 => i - 1 \in 1 .. (k - 1)
    OBVIOUS
  <2>5. \A i \in 1 .. k : g[i] = IF i = 1 THEN seqs[i] ELSE g[i - 1] \o seqs[i]
    BY <2>3, <2>4
  <2>6. DOMAIN g = 1 .. k
    OBVIOUS
  <2>7. g = [i \in 1 .. k |-> g[i]]
    OBVIOUS
  <2> HIDE DEF g
  <2>8. Flattens(g, seqs, k)
    BY <2>5, <2>7 DEF Flattens
  <2> QED BY <2>8
<1> HIDE DEF T
<1>3. n \in T
  BY <1>1, <1>2, UpTo
<1> QED BY <1>3 DEF T

(* The parts of a list of sequences, concatenated one after the other: the   *)
(* last of them is FlattenSeq.                                               *)
LEMMA FlattenParts ==
  ASSUME NEW S, NEW n \in Nat, NEW seqs \in [1 .. n -> Seq(S)]
  PROVE  \E F \in [0 .. n -> Seq(S)] :
           /\ F[0] = <<>>
           /\ \A k \in 1 .. n : F[k] = F[k - 1] \o seqs[k]
           /\ F[n] = FlattenSeq(seqs)
<1>1. Len(seqs) = n
  OBVIOUS
<1>2. <<>> \in Seq(S)
  OBVIOUS
<1>3. CASE n = 0
  <2>1. FlattenSeq(seqs) = <<>>
    BY <1>1, <1>3 DEF FlattenSeq
  <2> DEFINE F == [k \in 0 .. n |-> <<>>]
  <2>2. F \in [0 .. n -> Seq(S)] /\ F[0] = <<>> /\ F[n] = FlattenSeq(seqs)
    BY <1>2, <1>3, <2>1
  <2> HIDE DEF F
  <2>3. \A k \in 1 .. n : FALSE
    BY <1>3
  <2> QED BY <2>2, <2>3
<1>4. CASE n # 0
  <2> DEFINE f == CHOOSE f : Flattens(f, seqs, n)
  <2>1. Flattens(f, seqs, n)
    BY FlattensExists
  <2>2. FlattenSeq(seqs) = f[n]
    BY <1>1, <1>4 DEF FlattenSeq, Flattens
  <2> HIDE DEF f
  <2>3. \A i \in 1 .. n : f[i] = IF i = 1 THEN seqs[i] ELSE f[i - 1] \o seqs[i]
    BY <2>1 DEF Flattens
  <2> DEFINE T == {k \in 0 .. n : k # 0 => f[k] \in Seq(S)}
  <2>4. 0 \in T
    OBVIOUS
  <2>5. ASSUME NEW k \in 1 .. n, k - 1 \in T PROVE k \in T
    <3>1. CASE k = 1
      BY <2>3, <3>1
    <3>2. CASE k # 1
      <4>1. k - 1 # 0 /\ seqs[k] \in Seq(S)
        BY <3>2
      <4>2. f[k - 1] \in Seq(S)
        BY <2>5, <4>1
      <4>3. f[k] = f[k - 1] \o seqs[k]
        BY <2>3, <3>2
      <4>4. f[k] \in Seq(S)
        BY <4>1, <4>2, <4>3
      <4> QED BY <4>4
    <3> QED BY <3>1, <3>2
  <2> HIDE DEF T
  <2>6. \A k \in 0 .. n : k \in T
    BY <2>4, <2>5, UpTo
  <2> DEFINE F == [k \in 0 .. n |-> IF k = 0 THEN <<>> ELSE f[k]]
  <2>7. F \in [0 .. n -> Seq(S)]
    BY <1>2, <2>6 DEF T
  <2>8. ASSUME NEW k \in 1 .. n PROVE F[k] = F[k - 1] \o seqs[k]
    <3>1. CASE k = 1
      <4>1. F[0] = <<>> /\ F[1] = f[1] /\ f[1] = seqs[1] /\ seqs[1] \in Seq(S)
        BY <2>3, <3>1
      <4>2. <<>> \o seqs[1] = seqs[1]
        BY <4>1, ConcatEmptySeq
      <4> QED BY <3>1, <4>1, <4>2
    <3>2. CASE k # 1
      <4>1. F[k] = f[k] /\ F[k - 1] = f[k - 1]
        BY <3>2
      <4>2. f[k] = f[k - 1] \o seqs[k]
        BY <2>3, <3>2
      <4> QED BY <4>1, <4>2
    <3> QED BY <3>1, <3>2
  <2>9. F[0] = <<>> /\ F[n] = FlattenSeq(seqs)
    BY <1>4, <2>2
  <2> HIDE DEF F
  <2> QED BY <2>7, <2>8, <2>9
<1> QED BY <1>3, <1>4

(* A sequence more at the end of the list is concatenated at the end.        *)
LEMMA FlattenAppend ==
  ASSUME NEW S, NEW seqs \in Seq(Seq(S)), NEW s \in Seq(S)
  PROVE  /\ FlattenSeq(seqs) \in Seq(S)
         /\ FlattenSeq(Append(seqs, s)) = FlattenSeq(seqs) \o s
<1> DEFINE n == Len(seqs)
           new == Append(seqs, s)
<1>1. n \in Nat /\ n + 1 \in Nat /\ seqs \in [1 .. n -> Seq(S)]
  OBVIOUS
<1>2. new \in Seq(Seq(S)) /\ Len(new) = n + 1
  OBVIOUS
<1>3. new \in [1 .. n + 1 -> Seq(S)]
  BY <1>2, LenProperties
<1>4. new[n + 1] = s /\ \A k \in 1 .. n : new[k] = seqs[k]
  OBVIOUS
<1> HIDE DEF n, new
<1>5. PICK F \in [0 .. n -> Seq(S)] :
           /\ F[0] = <<>>
           /\ \A k \in 1 .. n : F[k] = F[k - 1] \o seqs[k]
           /\ F[n] = FlattenSeq(seqs)
  BY <1>1, FlattenParts
<1>6. PICK H \in [0 .. (n + 1) -> Seq(S)] :
           /\ H[0] = <<>>
           /\ \A k \in 1 .. (n + 1) : H[k] = H[k - 1] \o new[k]
           /\ H[n + 1] = FlattenSeq(new)
  <2> DEFINE m == n + 1
  <2>1. m \in Nat /\ new \in [1 .. m -> Seq(S)]
    BY <1>1, <1>3
  <2> HIDE DEF m
  <2>2. \E H \in [0 .. m -> Seq(S)] :
           /\ H[0] = <<>>
           /\ \A k \in 1 .. m : H[k] = H[k - 1] \o new[k]
           /\ H[m] = FlattenSeq(new)
    BY <2>1, FlattenParts
  <2> QED BY <2>2 DEF m
<1> DEFINE T == {k \in 0 .. n : H[k] = F[k]}
<1>7. 0 \in T
  BY <1>1, <1>5, <1>6
<1>8. ASSUME NEW k \in 1 .. n, k - 1 \in T PROVE k \in T
  <2>1. k \in 1 .. n + 1 /\ k \in 0 .. n
    BY <1>1
  <2>2. H[k - 1] = F[k - 1]
    BY <1>8
  <2>3. H[k] = H[k - 1] \o new[k] /\ F[k] = F[k - 1] \o seqs[k] /\ new[k] = seqs[k]
    BY <1>4, <1>5, <1>6, <2>1
  <2> QED BY <2>1, <2>2, <2>3
<1> HIDE DEF T
<1>9. n \in T
  <2>1. n \in 0 .. n
    BY <1>1
  <2> QED BY <1>1, <1>7, <1>8, <2>1, UpTo
<1>10. H[n] = F[n]
  BY <1>9 DEF T
<1>11. n + 1 \in 1 .. (n + 1) /\ (n + 1) - 1 = n
  BY <1>1
<1>12. H[n + 1] = H[n] \o s
  BY <1>4, <1>6, <1>11
<1>13. F[n] \in Seq(S)
  BY <1>1, <1>5
<1> QED BY <1>5, <1>6, <1>10, <1>12, <1>13 DEF new

(* The positions of the elements with a tag.                                 *)
Positions(q, tag, t) == {p \in 1 .. Len(q) : tag[q[p]] = t}

(* Concatenating elements that all have one tag adds as many to its          *)
(* positions and leaves those of the other tags.                             *)
LEMMA PositionsConcat ==
  ASSUME NEW S, NEW q \in Seq(S), NEW s \in Seq(S), NEW tag, NEW k \in Nat,
         \A j \in 1 .. Len(s) : tag[s[j]] = k
  PROVE  /\ Cardinality(Positions(q \o s, tag, k)) = Cardinality(Positions(q, tag, k)) + Len(s)
         /\ \A t \in Nat : t # k => Positions(q \o s, tag, t) = Positions(q, tag, t)
<1> DEFINE new == q \o s
           L   == Len(q)
           M   == Len(s)
           a   == L + 1
           b   == L + M
<1>1. /\ L \in Nat /\ M \in Nat /\ Len(new) = L + M
      /\ \A p \in 1 .. L : new[p] = q[p]
      /\ \A p \in a .. b : new[p] = s[p - L] /\ p - L \in 1 .. M
  OBVIOUS
<1>2. a \in Int /\ b \in Int /\ (IF a > b THEN 0 ELSE b - a + 1) = M
  BY <1>1
<1>3. 1 .. Len(new) = (1 .. L) \cup (a .. b) /\ (1 .. L) \cap (a .. b) = {}
  BY <1>1
<1>4. \A p \in a .. b : tag[new[p]] = k
  BY <1>1
<1> HIDE DEF new, L, M, a, b
<1>5. Positions(new, tag, k) = Positions(q, tag, k) \cup (a .. b)
  BY <1>1, <1>3, <1>4 DEF Positions, L
<1>6. Positions(q, tag, k) \cap (a .. b) = {}
  BY <1>3 DEF Positions, L
<1>7. IsFiniteSet(Positions(q, tag, k)) /\ IsFiniteSet(a .. b) /\ Cardinality(a .. b) = M
  <2>1. IsFiniteSet(1 .. L)
    BY <1>1, FS_Interval
  <2>2. Positions(q, tag, k) \subseteq 1 .. L
    BY DEF Positions, L
  <2>3. IsFiniteSet(Positions(q, tag, k))
    BY <2>1, <2>2, FS_Subset
  <2>4. IsFiniteSet(a .. b) /\ Cardinality(a .. b) = IF a > b THEN 0 ELSE b - a + 1
    BY <1>2, FS_Interval
  <2> QED BY <1>2, <2>3, <2>4
<1>8. Cardinality(Positions(new, tag, k)) = Cardinality(Positions(q, tag, k)) + M
  <2>1. Cardinality({}) = 0 /\ Cardinality(Positions(q, tag, k)) \in Nat
    BY <1>7, FS_EmptySet, FS_CardinalityType
  <2>2. Cardinality(Positions(q, tag, k) \cup (a .. b)) =
          Cardinality(Positions(q, tag, k)) + Cardinality(a .. b)
            - Cardinality(Positions(q, tag, k) \cap (a .. b))
    BY <1>7, FS_Union
  <2>3. Cardinality(Positions(q, tag, k) \cap (a .. b)) = 0
    BY <1>6, <2>1
  <2>4. Cardinality(Positions(new, tag, k)) = Cardinality(Positions(q, tag, k) \cup (a .. b))
    BY <1>5
  <2> DEFINE before == Cardinality(Positions(q, tag, k))
             after  == Cardinality(Positions(new, tag, k))
  <2>5. before \in Nat /\ M \in Nat /\ after = before + M - 0
    BY <1>1, <1>7, <2>1, <2>2, <2>3, <2>4
  <2> HIDE DEF before, after
  <2>6. after = before + M
    BY <2>5
  <2> QED BY <2>6 DEF before, after
<1>9. ASSUME NEW t \in Nat, t # k PROVE Positions(new, tag, t) = Positions(q, tag, t)
  BY <1>1, <1>3, <1>4, <1>9 DEF Positions, L
<1> QED BY <1>8, <1>9 DEF new, M

(* The tag of an element says which sequence of a list it is of.             *)
TagsTell(tag, seqs, n) == \A k \in 1 .. n : \A j \in 1 .. Len(seqs[k]) : tag[seqs[k][j]] = k

(* Every element of a sequence is one of the sequence its tag says.          *)
Drawn(q, tag, seqs) ==
  \A p \in 1 .. Len(q) : \E j \in 1 .. Len(seqs[tag[q[p]]]) : q[p] = seqs[tag[q[p]]][j]

(* It stays so when one of the list is concatenated.                         *)
LEMMA DrawnConcat ==
  ASSUME NEW S, NEW q \in Seq(S), NEW n, NEW k \in 1 .. n, NEW seqs, seqs[k] \in Seq(S),
         NEW tag, TagsTell(tag, seqs, n), Drawn(q, tag, seqs)
  PROVE  Drawn(q \o seqs[k], tag, seqs)
<1> DEFINE new == q \o seqs[k]
<1>1. \A j \in 1 .. Len(seqs[k]) : tag[seqs[k][j]] = k
  BY DEF TagsTell
<1> SUFFICES ASSUME NEW p \in 1 .. Len(new)
             PROVE  \E j \in 1 .. Len(seqs[tag[new[p]]]) : new[p] = seqs[tag[new[p]]][j]
  BY DEF Drawn
<1>2. CASE p \in 1 .. Len(q)
  <2>1. new[p] = q[p]
    BY <1>2
  <2> HIDE DEF new
  <2> QED BY <1>2, <2>1 DEF Drawn
<1>3. CASE p \notin 1 .. Len(q)
  <2> DEFINE i == p - Len(q)
  <2>1. i \in 1 .. Len(seqs[k]) /\ new[p] = seqs[k][i]
    BY <1>3
  <2> HIDE DEF new, i
  <2>2. tag[new[p]] = k
    BY <1>1, <2>1
  <2> QED BY <2>1, <2>2
<1> QED BY <1>2, <1>3

(* Every element of the result is one of a sequence of the list, and of each *)
(* sequence there are as many as it is long.                                 *)
LEMMA FlattenCounts ==
  ASSUME NEW S, NEW n \in Nat, NEW seqs \in [1 .. n -> Seq(S)], NEW tag, TagsTell(tag, seqs, n)
  PROVE  /\ FlattenSeq(seqs) \in Seq(S)
         /\ Drawn(FlattenSeq(seqs), tag, seqs)
         /\ \A t \in 1 .. n :
              Cardinality(Positions(FlattenSeq(seqs), tag, t)) = Len(seqs[t])
<1>1. PICK F \in [0 .. n -> Seq(S)] :
           /\ F[0] = <<>>
           /\ \A k \in 1 .. n : F[k] = F[k - 1] \o seqs[k]
           /\ F[n] = FlattenSeq(seqs)
  BY FlattenParts
<1> DEFINE Count(k, t) == Cardinality(Positions(F[k], tag, t))
           Good(k) == \A t \in 1 .. n : Count(k, t) = IF t <= k THEN Len(seqs[t]) ELSE 0
           T == {k \in 0 .. n : Drawn(F[k], tag, seqs) /\ Good(k)}
<1>2. 0 \in T
  <2>1. Len(F[0]) = 0 /\ 1 .. 0 = {}
    BY <1>1
  <2>2. Drawn(F[0], tag, seqs) /\ \A t \in 1 .. n : Positions(F[0], tag, t) = {}
    BY <2>1 DEF Drawn, Positions
  <2>3. \A t \in 1 .. n : Count(0, t) = 0
    BY <2>2, FS_EmptySet
  <2>4. \A t \in 1 .. n : ~(t <= 0)
    OBVIOUS
  <2> HIDE DEF Count
  <2>5. Good(0)
    BY <2>3, <2>4
  <2> HIDE DEF Good
  <2> QED BY <2>2, <2>5
<1>3. ASSUME NEW k \in 1 .. n, k - 1 \in T PROVE k \in T
  <2>1. F[k - 1] \in Seq(S) /\ seqs[k] \in Seq(S)
    OBVIOUS
  <2>2. F[k] = F[k - 1] \o seqs[k]
    BY <1>1
  <2>3. \A j \in 1 .. Len(seqs[k]) : tag[seqs[k][j]] = k
    BY DEF TagsTell
  <2>4. /\ Count(k, k) = Count(k - 1, k) + Len(seqs[k])
        /\ \A t \in Nat : t # k => Count(k, t) = Count(k - 1, t)
    <3> DEFINE q == F[k - 1]
               s == seqs[k]
    <3>1. q \in Seq(S) /\ s \in Seq(S) /\ k \in Nat /\ \A j \in 1 .. Len(s) : tag[s[j]] = k
      BY <2>1, <2>3
    <3> HIDE DEF q, s
    <3>2. /\ Cardinality(Positions(q \o s, tag, k)) = Cardinality(Positions(q, tag, k)) + Len(s)
          /\ \A t \in Nat : t # k => Positions(q \o s, tag, t) = Positions(q, tag, t)
      BY ONLY <3>1, PositionsConcat, ZenonT(40)
    <3>3. /\ Cardinality(Positions(F[k], tag, k)) = Cardinality(Positions(q, tag, k)) + Len(s)
          /\ \A t \in Nat : t # k => Positions(F[k], tag, t) = Positions(q, tag, t)
      BY <2>2, <3>2 DEF q, s
    <3> QED BY <3>3 DEF q, s
  <2> HIDE DEF Count
  <2>5. \A t \in 1 .. n : Count(k - 1, t) = IF t <= k - 1 THEN Len(seqs[t]) ELSE 0
    BY <1>3
  <2>6. Good(k)
    <3> SUFFICES ASSUME NEW t \in 1 .. n
                 PROVE  Count(k, t) = IF t <= k THEN Len(seqs[t]) ELSE 0
      OBVIOUS
    <3>1. Len(seqs[k]) \in Nat
      BY <2>1
    <3>2. CASE t = k
      BY <2>4, <2>5, <3>1, <3>2
    <3>3. CASE t # k
      <4>1. Count(k, t) = Count(k - 1, t)
        BY <2>4, <3>3
      <4>2. t <= k <=> t <= k - 1
        BY <3>3
      <4> QED BY <2>5, <4>1, <4>2
    <3> QED BY <3>2, <3>3
  <2>7. Drawn(F[k], tag, seqs)
    <3>1. Drawn(F[k - 1], tag, seqs)
      BY <1>3
    <3> DEFINE q == F[k - 1]
    <3>2. q \in Seq(S) /\ Drawn(q, tag, seqs)
      BY <2>1, <3>1
    <3> HIDE DEF q
    <3>3. Drawn(q \o seqs[k], tag, seqs)
      BY ONLY <2>1, <3>2, k \in 1 .. n, TagsTell(tag, seqs, n), DrawnConcat
    <3> QED BY <2>2, <3>3 DEF q
  <2> HIDE DEF Good
  <2> QED BY <2>6, <2>7
<1>4. n \in T
  <2> HIDE DEF T
  <2>1. n \in 0 .. n
    OBVIOUS
  <2> QED BY <1>2, <1>3, <2>1, UpTo
<1>5. \A t \in 1 .. n : Count(n, t) = Len(seqs[t])
  <2> HIDE DEF Count
  <2> QED BY <1>4
<1>6. FlattenSeq(seqs) \in Seq(S)
  BY <1>1
<1> QED BY <1>1, <1>4, <1>5, <1>6

-----------------------------------------------------------------------------
(* Sequences that are made of blocks of one size.                            *)

(* The position of element j of block b.                                     *)
Place(b, j, size) == (b - 1) * size + j

(* A product grows with its first factor.                                    *)
LEMMA ProductMonotonic ==
  ASSUME NEW a \in Nat, NEW b \in Nat, a <= b, NEW size \in Nat
  PROVE  a * size \in Nat /\ b * size \in Nat /\ a * size <= b * size
<1>1. b * size = a * size + (b - a) * size
  OBVIOUS
<1>2. (b - a) * size \in Nat /\ a * size \in Nat
  OBVIOUS
<1> QED BY <1>1, <1>2

(* Blocks lie one behind the other, ...                                      *)
LEMMA PlaceBounds ==
  ASSUME NEW m \in Nat, NEW size \in Nat \ {0}, NEW b \in 1 .. m, NEW j \in 1 .. size
  PROVE  Place(b, j, size) \in 1 .. (m * size) /\ Place(b, j, size) \in Nat
<1>1. (b - 1) * size \in Nat /\ (b - 1) * size <= (m - 1) * size
  BY ProductMonotonic
<1>2. m * size = (m - 1) * size + size /\ (m - 1) * size \in Nat
  OBVIOUS
<1> DEFINE x == (b - 1) * size
           y == (m - 1) * size
<1> HIDE DEF x, y
<1>3. x \in Nat /\ y \in Nat /\ x <= y /\ m * size = y + size
  BY <1>1, <1>2 DEF x, y
<1>4. x + j \in 1 .. (y + size) /\ x + j \in Nat
  BY <1>3
<1> QED BY <1>3, <1>4 DEF Place, x

(* ... without overlapping ...                                               *)
LEMMA PlaceUnique ==
  ASSUME NEW size \in Nat \ {0}, NEW b \in Nat \ {0}, NEW c \in Nat \ {0},
         NEW i \in 1 .. size, NEW j \in 1 .. size, Place(b, i, size) = Place(c, j, size)
  PROVE  b = c /\ i = j
<1>1. ASSUME NEW p \in Nat \ {0}, NEW q \in Nat \ {0}, NEW k \in 1 .. size, NEW l \in 1 .. size,
             p < q
      PROVE  Place(p, k, size) < Place(q, l, size)
  <2>1. p * size <= (q - 1) * size /\ p * size \in Nat /\ (q - 1) * size \in Nat
    BY <1>1, ProductMonotonic
  <2>2. p * size = (p - 1) * size + size /\ (p - 1) * size \in Nat
    OBVIOUS
  <2> DEFINE x == (p - 1) * size
             y == (q - 1) * size
  <2> HIDE DEF x, y
  <2>3. x \in Nat /\ y \in Nat /\ x + size <= y
    BY <2>1, <2>2 DEF x, y
  <2>4. x + k < y + l
    BY <2>3
  <2> QED BY <2>4 DEF Place, x, y
<1>2. Place(b, i, size) \in Nat /\ Place(c, j, size) \in Nat
  <2>1. (b - 1) * size \in Nat /\ (c - 1) * size \in Nat
    OBVIOUS
  <2> QED BY <2>1 DEF Place
<1>3. b = c
  BY <1>1, <1>2
<1>4. (b - 1) * size \in Nat
  OBVIOUS
<1> DEFINE x == (b - 1) * size
<1> HIDE DEF x
<1>5. x \in Nat /\ x + i = x + j
  BY <1>3, <1>4 DEF Place, x
<1> QED BY <1>3, <1>5

(* ... and leave nothing out.                                                *)
LEMMA PlaceExists ==
  ASSUME NEW m \in Nat, NEW size \in Nat \ {0}, NEW p \in 1 .. (m * size)
  PROVE  \E b \in 1 .. m, j \in 1 .. size : p = Place(b, j, size)
<1> DEFINE B == {k \in 0 .. m : p <= k * size}
<1>1. m \in B
  OBVIOUS
<1>2. B # {}
  BY <1>1
<1>3. PICK b \in B : \A c \in B : b <= c
  <2>1. B \subseteq Nat
    OBVIOUS
  <2> HIDE DEF B
  <2> QED BY <1>2, <2>1, LeastExists
<1>4. b # 0
  <2>1. 0 * size = 0
    OBVIOUS
  <2> QED BY <2>1
<1>5. b - 1 \in 0 .. m /\ b - 1 \notin B
  BY <1>3, <1>4
<1>6. b * size = (b - 1) * size + size /\ (b - 1) * size \in Nat
  BY <1>4
<1> DEFINE x == (b - 1) * size
<1>7. p > x /\ p <= x + size
  BY <1>5, <1>6
<1> HIDE DEF x
<1>8. x \in Nat
  BY <1>6 DEF x
<1>9. p - x \in 1 .. size /\ p = x + (p - x)
  BY <1>7, <1>8
<1>10. p = Place(b, p - x, size)
  BY <1>9 DEF Place, x
<1> QED BY <1>4, <1>9, <1>10

(* Blocks behind m others.                                                   *)
LEMMA PlaceShift ==
  ASSUME NEW m \in Nat, NEW size \in Nat, NEW b \in Nat \ {0}, NEW j \in Nat
  PROVE  /\ m * size + Place(b, j, size) = Place(m + b, j, size)
         /\ m * size + b * size = (m + b) * size
         /\ m * size + j = Place(m + 1, j, size)
<1>1. m * size + ((b - 1) * size + j) = ((m + b) - 1) * size + j
  OBVIOUS
<1>2. m * size + j = ((m + 1) - 1) * size + j
  OBVIOUS
<1>3. m * size + b * size = (m + b) * size
  OBVIOUS
<1> QED BY <1>1, <1>2, <1>3 DEF Place

(* The block of a position, counted from 0.                                  *)
LEMMA PlaceBlock ==
  ASSUME NEW size \in Nat \ {0}, NEW b \in Nat \ {0}, NEW j \in 1 .. size
  PROVE  (Place(b, j, size) - 1) \div size = b - 1
<1> DEFINE x == (b - 1) * size
           q == (Place(b, j, size) - 1) \div size
<1>1. x \in Nat
  OBVIOUS
<1>2. (x + j - 1) \in Nat
  BY <1>1
<1>3. q = (x + j - 1) \div size
  BY DEF Place
<1> QED BY <1>1, <1>2, <1>3

(* The blocks of q are the sequences of a list that g names, in the order of *)
(* the list.                                                                 *)
MadeOf(q, size, m, g, seqs) ==
  /\ Len(q) = m * size
  /\ \A b, c \in 1 .. m : b < c => g[b] < g[c]
  /\ \A b \in 1 .. m : /\ Len(seqs[g[b]]) = size
                       /\ \A j \in 1 .. size : q[Place(b, j, size)] = seqs[g[b]][j]

(* One block more.                                                           *)
LEMMA MadeOfConcat ==
  ASSUME NEW S, NEW q \in Seq(S), NEW size \in Nat \ {0}, NEW k \in Nat \ {0}, NEW seqs,
         seqs[k] \in Seq(S), Len(seqs[k]) = size, NEW m \in Nat, NEW g \in [1 .. m -> 1 .. (k - 1)],
         MadeOf(q, size, m, g, seqs)
  PROVE  \E h \in [1 .. (m + 1) -> 1 .. k] : MadeOf(q \o seqs[k], size, m + 1, h, seqs)
<1> DEFINE new == q \o seqs[k]
           h   == [b \in 1 .. (m + 1) |-> IF b = m + 1 THEN k ELSE g[b]]
           s   == seqs[k]
<1>1. s \in Seq(S) /\ Len(s) = size /\ new = q \o s
  OBVIOUS
<1>2. h \in [1 .. (m + 1) -> 1 .. k]
  <2>1. ASSUME NEW b \in 1 .. (m + 1) PROVE h[b] \in 1 .. k
    <3>1. CASE b = m + 1
      BY <3>1
    <3>2. CASE b # m + 1
      <4>1. b \in 1 .. m
        BY <3>2
      <4>2. g[b] \in 1 .. (k - 1)
        BY <4>1
      <4> QED BY <3>2, <4>2
    <3> QED BY <3>1, <3>2
  <2> QED BY <2>1
<1>3. h[m + 1] = k /\ \A b \in 1 .. m : h[b] = g[b] /\ g[b] \in 1 .. (k - 1)
  OBVIOUS
<1>4. \A b \in 1 .. (m + 1) : b \in 1 .. m \/ b = m + 1
  OBVIOUS
<1> HIDE DEF h
<1>5. Len(q) = m * size /\ m * size \in Nat
  BY DEF MadeOf
<1>6. Len(new) = (m + 1) * size
  <2>1. (m + 1) * size = m * size + size
    OBVIOUS
  <2> HIDE DEF s
  <2>2. Len(q \o s) = Len(q) + Len(s)
    BY <1>1, ConcatProperties
  <2>3. Len(new) = Len(q) + size
    BY <1>1, <2>2
  <2> QED BY <1>5, <2>1, <2>3
<1>7. \A b, c \in 1 .. (m + 1) : b < c => h[b] < h[c]
  <2> SUFFICES ASSUME NEW b \in 1 .. (m + 1), NEW c \in 1 .. (m + 1), b < c PROVE h[b] < h[c]
    OBVIOUS
  <2>1. b \in 1 .. m
    OBVIOUS
  <2>2. CASE c = m + 1
    BY <1>3, <2>1, <2>2
  <2>3. CASE c \in 1 .. m
    <3>1. g[b] < g[c]
      BY <2>1, <2>3 DEF MadeOf
    <3> QED BY <1>3, <2>1, <2>3, <3>1
  <2> QED BY <1>4, <2>2, <2>3
<1>8. ASSUME NEW b \in 1 .. (m + 1)
      PROVE  Len(seqs[h[b]]) = size /\ \A j \in 1 .. size : new[Place(b, j, size)] = seqs[h[b]][j]
  <2>1. CASE b \in 1 .. m
    <3>1. Len(seqs[g[b]]) = size /\ \A j \in 1 .. size : q[Place(b, j, size)] = seqs[g[b]][j]
      BY <2>1 DEF MadeOf
    <3>2. ASSUME NEW j \in 1 .. size PROVE new[Place(b, j, size)] = q[Place(b, j, size)]
      <4>1. Place(b, j, size) \in 1 .. (m * size)
        BY <2>1, PlaceBounds
      <4> DEFINE p == Place(b, j, size)
      <4> HIDE DEF p
      <4>2. p \in 1 .. Len(q)
        BY <1>5, <4>1 DEF p
      <4>3. new[p] = q[p]
        BY <1>1, <4>2
      <4> QED BY <4>3 DEF p
    <3> HIDE DEF new
    <3> QED BY <1>3, <2>1, <3>1, <3>2
  <2>2. CASE b = m + 1
    <3>1. ASSUME NEW j \in 1 .. size PROVE new[Place(b, j, size)] = s[j]
      <4>1. m * size + j = Place(m + 1, j, size)
        BY PlaceShift
      <4> DEFINE p == Place(b, j, size)
      <4>2. p = Len(q) + j
        BY <1>5, <2>2, <4>1
      <4> HIDE DEF p
      <4>3. new[p] = s[j]
        BY <1>1, <4>2
      <4> QED BY <4>3 DEF p
    <3> HIDE DEF new
    <3>2. h[b] = k
      BY <1>3, <2>2
    <3> QED BY <1>1, <3>1, <3>2
  <2> QED BY <1>4, <2>1, <2>2
<1>9. MadeOf(new, size, m + 1, h, seqs)
  BY <1>6, <1>7, <1>8 DEF MadeOf
<1> QED BY <1>2, <1>9

(* The blocks are some of the first k sequences of a list.                   *)
InBlocks(q, size, k, seqs) ==
  \E m \in 0 .. k : \E g \in [1 .. m -> 1 .. k] : MadeOf(q, size, m, g, seqs)

(* It stays so when the next one is concatenated.                            *)
LEMMA InBlocksConcat ==
  ASSUME NEW S, NEW q \in Seq(S), NEW size \in Nat \ {0}, NEW k \in Nat \ {0}, NEW seqs,
         seqs[k] \in Seq(S), Len(seqs[k]) \in {0, size}, InBlocks(q, size, k - 1, seqs)
  PROVE  InBlocks(q \o seqs[k], size, k, seqs)
<1>1. PICK m \in 0 .. (k - 1) : \E g \in [1 .. m -> 1 .. (k - 1)] :
        MadeOf(q, size, m, g, seqs)
  BY DEF InBlocks
<1>2. PICK g \in [1 .. m -> 1 .. (k - 1)] : MadeOf(q, size, m, g, seqs)
  BY <1>1
<1>3. CASE Len(seqs[k]) = 0
  <2>1. seqs[k] = <<>>
    BY <1>3, EmptySeq
  <2>2. q \o <<>> = q
    BY ConcatEmptySeq
  <2>3. MadeOf(q \o seqs[k], size, m, g, seqs)
    BY <1>2, <2>1, <2>2
  <2>4. g \in [1 .. m -> 1 .. k] /\ m \in 0 .. k
    OBVIOUS
  <2> QED BY <2>3, <2>4 DEF InBlocks
<1>4. CASE Len(seqs[k]) = size
  <2>1. m \in Nat
    OBVIOUS
  <2>2. \E h \in [1 .. (m + 1) -> 1 .. k] : MadeOf(q \o seqs[k], size, m + 1, h, seqs)
    BY <1>2, <1>4, <2>1, MadeOfConcat
  <2>3. m + 1 \in 0 .. k
    OBVIOUS
  <2> QED BY <2>2, <2>3 DEF InBlocks
<1> QED BY <1>3, <1>4

(* Empty sequences and sequences of one size, concatenated.                  *)
LEMMA FlattenBlocks ==
  ASSUME NEW S, NEW n \in Nat, NEW size \in Nat \ {0}, NEW seqs \in [1 .. n -> Seq(S)],
         \A k \in 1 .. n : Len(seqs[k]) \in {0, size}
  PROVE  /\ FlattenSeq(seqs) \in Seq(S)
         /\ InBlocks(FlattenSeq(seqs), size, n, seqs)
<1>1. PICK F \in [0 .. n -> Seq(S)] :
           /\ F[0] = <<>>
           /\ \A k \in 1 .. n : F[k] = F[k - 1] \o seqs[k]
           /\ F[n] = FlattenSeq(seqs)
  BY FlattenParts
<1> DEFINE T == {k \in 0 .. n : InBlocks(F[k], size, k, seqs)}
<1>2. 0 \in T
  <2>1. Len(F[0]) = 0 /\ 0 * size = 0
    BY <1>1
  <2> DEFINE g == [b \in 1 .. 0 |-> 1]
  <2>2. \A b \in 1 .. 0 : FALSE
    OBVIOUS
  <2>3. g \in [1 .. 0 -> 1 .. 0]
    BY <2>2
  <2> HIDE DEF g
  <2>4. MadeOf(F[0], size, 0, g, seqs)
    BY <2>1, <2>2 DEF MadeOf
  <2>5. 0 \in 0 .. 0
    OBVIOUS
  <2>6. InBlocks(F[0], size, 0, seqs)
    BY ONLY <2>3, <2>4, <2>5 DEF InBlocks
  <2> QED BY <2>6
<1>3. ASSUME NEW k \in 1 .. n, k - 1 \in T PROVE k \in T
  <2> DEFINE q == F[k - 1]
  <2>1. q \in Seq(S) /\ seqs[k] \in Seq(S)
    OBVIOUS
  <2>2. F[k] = q \o seqs[k]
    BY <1>1
  <2>3. InBlocks(q, size, k - 1, seqs) /\ k \in Nat \ {0} /\ Len(seqs[k]) \in {0, size}
    BY <1>3
  <2> HIDE DEF q
  <2>4. InBlocks(q \o seqs[k], size, k, seqs)
    BY ONLY <2>1, <2>3, size \in Nat \ {0}, InBlocksConcat
  <2>5. InBlocks(F[k], size, k, seqs)
    BY ONLY <2>2, <2>4
  <2> HIDE DEF q
  <2> QED BY <2>5
<1>4. n \in T
  <2> HIDE DEF T
  <2>1. n \in 0 .. n
    OBVIOUS
  <2> QED BY <1>2, <1>3, <2>1, UpTo
<1>5. FlattenSeq(seqs) \in Seq(S)
  BY <1>1
<1> QED BY <1>1, <1>4, <1>5

-----------------------------------------------------------------------------
(* Concatenation and images.                                                 *)

(* The elements of a sequence with one more. *)
LEMMA AppendElements ==
  ASSUME NEW S, NEW s \in Seq(S), NEW e \in S, NEW n \in Nat, Len(s) = n
  PROVE  Append(s, e) = [k \in 1 .. (n + 1) |-> IF k = n + 1 THEN e ELSE s[k]]
<1> DEFINE q == Append(s, e)
<1>1. /\ q \in Seq(S) /\ Len(q) = n + 1 /\ q[n + 1] = e
      /\ \A k \in 1 .. n : q[k] = s[k]
  OBVIOUS
<1> HIDE DEF q
<1>2. q = [k \in 1 .. (n + 1) |-> q[k]]
  BY <1>1
<1>3. \A k \in 1 .. (n + 1) : q[k] = IF k = n + 1 THEN e ELSE s[k]
  BY <1>1
<1>4. q = [k \in 1 .. (n + 1) |-> IF k = n + 1 THEN e ELSE s[k]]
  BY <1>2, <1>3
<1> QED BY <1>4 DEF q

(* The elements of a concatenation. *)
LEMMA ConcatElements ==
  ASSUME NEW S, NEW s \in Seq(S), NEW t \in Seq(S), NEW n, NEW N, Len(s) = n, Len(t) = N
  PROVE  /\ s \o t \in Seq(S) /\ Len(s \o t) = n + N
         /\ \A p \in 1 .. (n + N) : (s \o t)[p] = IF p <= n THEN s[p] ELSE t[p - n]
  OBVIOUS

(* q is s, which has n elements, then t, which has N. *)
Joined(q, s, t, n, N) ==
  Len(q) = n + N /\ \A p \in 1 .. (n + N) : q[p] = IF p <= n THEN s[p] ELSE t[p - n]

LEMMA ConcatJoins ==
  ASSUME NEW S, NEW s \in Seq(S), NEW t \in Seq(S), NEW n, NEW N, Len(s) = n, Len(t) = N
  PROVE  Joined(s \o t, s, t, n, N)
BY ConcatElements DEF Joined

(* q is s, which has n elements, and one element more. *)
OneMore(q, s, n, e) == Len(q) = n + 1 /\ q[n + 1] = e /\ \A j \in 1 .. n : q[j] = s[j]

LEMMA ConcatSingle ==
  ASSUME NEW S, NEW s \in Seq(S), NEW t \in Seq(S), NEW n \in Nat, Len(s) = n, Len(t) = 1
  PROVE  OneMore(s \o t, s, n, t[1])
<1> DEFINE q == s \o t
           N == 1
<1>1. N \in Nat /\ Len(t) = N /\ N = 1
  OBVIOUS
<1> HIDE DEF N
<1>2. Joined(q, s, t, n, N)
  BY <1>1, ConcatJoins
<1> HIDE DEF q
<1>3. /\ Len(q) = n + N
      /\ \A p \in 1 .. (n + N) : q[p] = IF p <= n THEN s[p] ELSE t[p - n]
  BY <1>2 DEF Joined
<1>4. n + 1 \in 1 .. (n + N) /\ ~(n + 1 <= n) /\ (n + 1) - n = 1
  BY <1>1
<1>5. q[n + 1] = t[1]
  BY <1>3, <1>4
<1>6. \A j \in 1 .. n : q[j] = s[j]
  BY <1>1, <1>3
<1>7. Len(q) = n + 1
  BY <1>1, <1>3
<1>8. OneMore(q, s, n, t[1])
  BY <1>5, <1>6, <1>7 DEF OneMore
<1> QED BY <1>8 DEF q

(* Of the n sequences of a list the first m have one element, the others     *)
(* none.                                                                     *)
Singles(seqs, n, m) == \A k \in 1 .. n : Len(seqs[k]) = IF k <= m THEN 1 ELSE 0

(* q is made of the first elements of m sequences.                           *)
Firsts(q, seqs, m) == Len(q) = m /\ \A j \in 1 .. m : q[j] = seqs[j][1]

LEMMA FlattenSingles ==
  ASSUME NEW S, NEW n \in Nat, NEW seqs \in [1 .. n -> Seq(S)], NEW m \in 0 .. n,
         Singles(seqs, n, m)
  PROVE  FlattenSeq(seqs) \in Seq(S) /\ Firsts(FlattenSeq(seqs), seqs, m)
<1> USE DEF Singles, Firsts
<1>1. PICK F \in [0 .. n -> Seq(S)] :
           /\ F[0] = <<>>
           /\ \A k \in 1 .. n : F[k] = F[k - 1] \o seqs[k]
           /\ F[n] = FlattenSeq(seqs)
  BY FlattenParts
<1> DEFINE cut(k) == IF k <= m THEN k ELSE m
           Good(k) == Len(F[k]) = cut(k) /\ \A j \in 1 .. cut(k) : F[k][j] = seqs[j][1]
           T == {k \in 0 .. n : Good(k)}
<1>2. 0 \in T
  <2>1. Len(F[0]) = 0
    <3>1. Len(<<>>) = 0
      OBVIOUS
    <3> QED BY <1>1, <3>1
  <2>2. cut(0) = 0 /\ 0 \in 0 .. n
    OBVIOUS
  <2>3. 1 .. cut(0) = {}
    BY <2>2
  <2> HIDE DEF cut
  <2> QED BY <2>1, <2>2, <2>3
<1>3. ASSUME NEW k \in 1 .. n, k - 1 \in T PROVE k \in T
  <2> DEFINE p == F[k - 1]
             s == seqs[k]
             q == p \o s
  <2>1. p \in Seq(S) /\ s \in Seq(S) /\ F[k] = q
    <3>1. k - 1 \in 0 .. n
      OBVIOUS
    <3>2. F[k] = F[k - 1] \o seqs[k]
      BY <1>1
    <3> QED BY <3>1, <3>2
  <2>2. Len(p) = cut(k - 1) /\ \A j \in 1 .. cut(k - 1) : p[j] = seqs[j][1]
    BY <1>3
  <2>3. Good(k)
    <3>1. CASE k <= m
      <4>1. cut(k) = k /\ cut(k - 1) = k - 1 /\ Len(s) = 1
        BY <3>1
      <4> HIDE DEF p, cut
      <4>2. Len(p) = k - 1 /\ \A j \in 1 .. (k - 1) : p[j] = seqs[j][1]
        BY <2>2, <4>1
      <4> HIDE DEF s
      <4>3. /\ Len(q) = k /\ q[k] = s[1]
            /\ \A j \in 1 .. (k - 1) : q[j] = p[j]
        <5> DEFINE K == k - 1
        <5>1. K \in Nat /\ k = K + 1
          OBVIOUS
        <5>2. p \in Seq(S) /\ s \in Seq(S) /\ Len(p) = K /\ Len(s) = 1
          BY <2>1, <4>1, <4>2
        <5> HIDE DEF K
        <5>3. OneMore(p \o s, p, K, s[1])
          BY <5>1, <5>2, ConcatSingle
        <5> HIDE DEF q
        <5>4. OneMore(q, p, K, s[1])
          BY <5>3 DEF q
        <5> QED BY <5>1, <5>4 DEF K, OneMore
      <4> HIDE DEF q
      <4>4. \A j \in 1 .. k : q[j] = seqs[j][1]
        <5> SUFFICES ASSUME NEW j \in 1 .. k PROVE q[j] = seqs[j][1]
          OBVIOUS
        <5>1. CASE j = k
          BY <4>3, <5>1 DEF s
        <5>2. CASE j # k
          <6>1. j \in 1 .. (k - 1)
            BY <5>2
          <6> QED BY <4>2, <4>3, <6>1
        <5> QED BY <5>1, <5>2
      <4> QED BY <2>1, <4>1, <4>3, <4>4
    <3>2. CASE ~(k <= m)
      <4>1. cut(k) = m /\ cut(k - 1) = m /\ Len(s) = 0
        BY <3>2
      <4> HIDE DEF p, s
      <4>2. q = p
        BY <2>1, <4>1
      <4> HIDE DEF q, cut
      <4> QED BY <2>1, <2>2, <4>1, <4>2
    <3> QED BY <3>1, <3>2
  <2> HIDE DEF Good
  <2> QED BY <2>3
<1> HIDE DEF T
<1>4. n \in T
  <2>1. n \in 0 .. n
    OBVIOUS
  <2> QED BY <1>2, <1>3, <2>1, UpTo
<1>5. Good(n) /\ cut(n) = m
  BY <1>4 DEF T
<1> HIDE DEF cut
<1> QED BY <1>1, <1>5

(* An injective image of a finite set is as large as the set. *)
LEMMA InjectiveImage ==
  ASSUME NEW S, IsFiniteSet(S), NEW f, \A x, y \in S : f[x] = f[y] => x = y
  PROVE  IsFiniteSet({f[x] : x \in S}) /\ Cardinality({f[x] : x \in S}) = Cardinality(S)
<1> DEFINE T == {f[x] : x \in S}
           h == [x \in S |-> f[x]]
<1>1. h \in [S -> T] /\ (\A x, y \in S : h[x] = h[y] => x = y) /\ \A t \in T : \E x \in S : h[x] = t
  OBVIOUS
<1> HIDE DEF h, T
<1>2. h \in Bijection(S, T)
  BY <1>1 DEF Bijection, Injection, Surjection, IsInjective
<1>3. ExistsBijection(S, T)
  BY <1>2 DEF ExistsBijection
<1> QED BY <1>3, FS_Bijection DEF T

-----------------------------------------------------------------------------
(* The order in which FlattenSeq concatenates.                               *)

(* Elements with one tag come in the order of their places.                  *)
Rising(q, tag, place) ==
  \A p, r \in 1 .. Len(q) :
    p < r /\ tag[q[p]] = tag[q[r]] => place[q[p]] < place[q[r]]

(* The elements of the first k sequences are in q, with their tags.          *)
Covers(q, tag, seqs, k) ==
  /\ \A p \in 1 .. Len(q) : tag[q[p]] \in 1 .. k
  /\ \A t \in 1 .. k : \A j \in 1 .. Len(seqs[t]) : \E p \in 1 .. Len(q) : q[p] = seqs[t][j]

(* It stays so when the next sequence is concatenated, as places rise in it. *)
LEMMA RisingConcat ==
  ASSUME NEW S, NEW q \in Seq(S), NEW k \in Nat \ {0}, NEW seqs, seqs[k] \in Seq(S), NEW tag,
         NEW place, \A j \in 1 .. Len(seqs[k]) : tag[seqs[k][j]] = k,
         \A i, j \in 1 .. Len(seqs[k]) : i < j => place[seqs[k][i]] < place[seqs[k][j]],
         Rising(q, tag, place), Covers(q, tag, seqs, k - 1)
  PROVE  Rising(q \o seqs[k], tag, place) /\ Covers(q \o seqs[k], tag, seqs, k)
<1> DEFINE s   == seqs[k]
           n   == Len(q)
           N   == Len(s)
           new == q \o s
<1>1. n \in Nat /\ N \in Nat /\ s \in Seq(S)
  OBVIOUS
<1>2. Len(new) = n + N /\ \A p \in 1 .. (n + N) : new[p] = IF p <= n THEN q[p] ELSE s[p - n]
  BY <1>1, ConcatElements
<1>3. \A j \in 1 .. N : tag[s[j]] = k
  OBVIOUS
<1>4. \A i, j \in 1 .. N : i < j => place[s[i]] < place[s[j]]
  OBVIOUS
<1> HIDE DEF new
<1>5. /\ \A p \in 1 .. n : p \in 1 .. (n + N) /\ new[p] = q[p]
      /\ \A j \in 1 .. N : n + j \in 1 .. (n + N) /\ new[n + j] = s[j]
  <2> HIDE DEF n, N, s
  <2>1. \A p \in 1 .. n : p \in 1 .. (n + N) /\ p <= n
    BY <1>1
  <2>2. \A j \in 1 .. N : n + j \in 1 .. (n + N) /\ ~(n + j <= n) /\ (n + j) - n = j
    BY <1>1
  <2> QED BY <1>2, <2>1, <2>2
<1> HIDE DEF n, N, s
<1>6. \A p \in 1 .. (n + N) : p \in 1 .. n \/ \E j \in 1 .. N : p = n + j
  <2> SUFFICES ASSUME NEW p \in 1 .. (n + N), p \notin 1 .. n PROVE \E j \in 1 .. N : p = n + j
    OBVIOUS
  <2>1. p - n \in 1 .. N /\ p = n + (p - n)
    BY <1>1
  <2> QED BY <2>1
<1>7. \A p \in 1 .. n : tag[new[p]] \in 1 .. (k - 1)
  BY <1>5 DEF Covers, n
<1>8. \A j \in 1 .. N : tag[new[n + j]] = k
  BY <1>3, <1>5
<1>9. Rising(new, tag, place)
  <2> SUFFICES ASSUME NEW p \in 1 .. (n + N), NEW r \in 1 .. (n + N), p < r,
                      tag[new[p]] = tag[new[r]]
               PROVE  place[new[p]] < place[new[r]]
    BY <1>2 DEF Rising
  <2>1. CASE r \in 1 .. n
    <3>1. p \in 1 .. n
      BY <1>1, <2>1
    <3>2. new[p] = q[p] /\ new[r] = q[r]
      BY <1>5, <2>1, <3>1
    <3> QED BY <2>1, <3>1, <3>2 DEF Rising, n
  <2>2. ASSUME NEW j \in 1 .. N, r = n + j PROVE place[new[p]] < place[new[r]]
    <3>1. tag[new[p]] = k
      BY <1>8, <2>2
    <3>2. p \notin 1 .. n
      BY <1>7, <3>1
    <3>3. PICK i \in 1 .. N : p = n + i
      BY <1>6, <3>2
    <3>4. i < j
      BY <1>1, <2>2, <3>3
    <3>5. new[p] = s[i] /\ new[r] = s[j]
      BY <1>5, <2>2, <3>3
    <3> QED BY <1>4, <3>4, <3>5
  <2> QED BY <1>6, <2>1, <2>2
<1>10. Covers(new, tag, seqs, k)
  <2>1. \A p \in 1 .. Len(new) : tag[new[p]] \in 1 .. k
    BY <1>2, <1>6, <1>7, <1>8
  <2>2. ASSUME NEW t \in 1 .. k, NEW j \in 1 .. Len(seqs[t])
        PROVE  \E p \in 1 .. Len(new) : new[p] = seqs[t][j]
    <3>1. CASE t = k
      <4>1. j \in 1 .. N /\ seqs[t][j] = s[j]
        BY <3>1 DEF N, s
      <4> QED BY <1>2, <1>5, <4>1
    <3>2. CASE t # k
      <4>1. t \in 1 .. (k - 1)
        BY <3>2
      <4>2. PICK p \in 1 .. n : q[p] = seqs[t][j]
        BY <4>1 DEF Covers, n
      <4> QED BY <1>2, <1>5, <4>2
    <3> QED BY <3>1, <3>2
  <2> QED BY <2>1, <2>2 DEF Covers
<1> QED BY <1>9, <1>10 DEF new, s

LEMMA FlattenRises ==
  ASSUME NEW S, NEW n \in Nat, NEW seqs \in [1 .. n -> Seq(S)], NEW tag, TagsTell(tag, seqs, n),
         NEW place, \A k \in 1 .. n : \A i, j \in 1 .. Len(seqs[k]) :
                      i < j => place[seqs[k][i]] < place[seqs[k][j]]
  PROVE  /\ FlattenSeq(seqs) \in Seq(S)
         /\ Drawn(FlattenSeq(seqs), tag, seqs)
         /\ Rising(FlattenSeq(seqs), tag, place)
         /\ Covers(FlattenSeq(seqs), tag, seqs, n)
<1>1. PICK F \in [0 .. n -> Seq(S)] :
           /\ F[0] = <<>>
           /\ \A k \in 1 .. n : F[k] = F[k - 1] \o seqs[k]
           /\ F[n] = FlattenSeq(seqs)
  BY FlattenParts
<1> DEFINE T == {k \in 0 .. n : Rising(F[k], tag, place) /\ Covers(F[k], tag, seqs, k)}
<1>2. 0 \in T
  <2>1. 1 .. Len(F[0]) = {} /\ 1 .. 0 = {} /\ 0 \in 0 .. n
    BY <1>1
  <2> QED BY <2>1 DEF Rising, Covers
<1>3. ASSUME NEW k \in 1 .. n, k - 1 \in T PROVE k \in T
  <2> DEFINE q == F[k - 1]
  <2>1. q \in Seq(S) /\ seqs[k] \in Seq(S) /\ k \in Nat \ {0}
    OBVIOUS
  <2>2. Rising(q, tag, place) /\ Covers(q, tag, seqs, k - 1)
    BY <1>3
  <2>3. F[k] = q \o seqs[k]
    BY <1>1
  <2>4. \A j \in 1 .. Len(seqs[k]) : tag[seqs[k][j]] = k
    BY DEF TagsTell
  <2>5. \A i, j \in 1 .. Len(seqs[k]) : i < j => place[seqs[k][i]] < place[seqs[k][j]]
    OBVIOUS
  <2> HIDE DEF q
  <2>6. Rising(q \o seqs[k], tag, place) /\ Covers(q \o seqs[k], tag, seqs, k)
    BY ONLY <2>1, <2>2, <2>4, <2>5, RisingConcat
  <2>7. Rising(F[k], tag, place) /\ Covers(F[k], tag, seqs, k)
    BY ONLY <2>3, <2>6
  <2>8. k \in 0 .. n
    OBVIOUS
  <2> QED BY ONLY <2>7, <2>8
<1> HIDE DEF T
<1>4. n \in T
  <2>1. n \in 0 .. n
    OBVIOUS
  <2> QED BY <1>2, <1>3, <2>1, UpTo
<1>5. FlattenSeq(seqs) \in Seq(S) /\ Drawn(FlattenSeq(seqs), tag, seqs)
  BY FlattenCounts
<1> QED BY <1>1, <1>4, <1>5 DEF T

-----------------------------------------------------------------------------
(* Finite sets of numbers.                                                   *)

(* They have a greatest element.                                             *)
LEMMA GreatestExists ==
  ASSUME NEW T, T \subseteq Nat, T # {}, NEW n \in Nat, \A x \in T : x <= n
  PROVE  \E x \in T : \A y \in T : y <= x
<1> DEFINE B == {k \in Nat : \A x \in T : x <= k}
<1>1. B \subseteq Nat /\ B # {}
  OBVIOUS
<1>2. PICK b \in B : \A c \in B : b <= c
  BY <1>1, LeastExists
<1>3. CASE b \in T
  BY <1>3
<1>4. CASE b \notin T
  <2>1. b # 0
    <3> SUFFICES ASSUME b = 0 PROVE FALSE
      OBVIOUS
    <3>1. PICK x \in T : x \in Nat
      OBVIOUS
    <3>2. x <= 0
      BY <3>1
    <3>3. x = b
      BY <3>1, <3>2
    <3> QED BY <1>4, <3>3
  <2>2. b - 1 \in Nat /\ \A x \in T : x <= b - 1
    BY <1>4, <2>1
  <2>3. b - 1 \in B
    BY <2>2
  <2> QED BY <1>2, <2>3
<1> QED BY <1>3, <1>4

(* s lists the numbers of S, the smallest first.                             *)
Lists(s, S, n) ==
  /\ s \in [1 .. n -> S]
  /\ \A i, j \in 1 .. n : i < j => s[i] < s[j]

(* There is such a list: the least number comes first.                       *)
LEMMA ListExists ==
  ASSUME NEW n \in Nat
  PROVE  \A S \in SUBSET Nat : IsFiniteSet(S) /\ Cardinality(S) = n => \E s : Lists(s, S, n)
<1> DEFINE Good(k) == \A S \in SUBSET Nat : IsFiniteSet(S) /\ Cardinality(S) = k =>
                                              \E s : Lists(s, S, k)
           T == {k \in Nat : Good(k)}
<1>1. 0 \in T
  <2> SUFFICES ASSUME NEW S \in SUBSET Nat PROVE \E s : Lists(s, S, 0)
    OBVIOUS
  <2> DEFINE s == [i \in 1 .. 0 |-> 0]
  <2>1. \A i \in 1 .. 0 : FALSE
    OBVIOUS
  <2>2. s \in [1 .. 0 -> S]
    BY <2>1
  <2> HIDE DEF s
  <2>3. Lists(s, S, 0)
    BY <2>1, <2>2 DEF Lists
  <2> QED BY <2>3
<1>2. ASSUME NEW k \in 1 .. n, k - 1 \in T PROVE k \in T
  <2> SUFFICES ASSUME NEW S \in SUBSET Nat, IsFiniteSet(S), Cardinality(S) = k
               PROVE  \E s : Lists(s, S, k)
    OBVIOUS
  <2>1. S # {}
    BY FS_EmptySet
  <2>2. PICK least \in S : \A x \in S : least <= x
    BY <2>1, LeastExists
  <2> DEFINE R == S \ {least}
  <2>3. IsFiniteSet(R) /\ Cardinality(R) = k - 1
    BY FS_RemoveElement
  <2>4. PICK t : Lists(t, R, k - 1)
    <3>1. R \in SUBSET Nat /\ Good(k - 1)
      BY <1>2
    <3> HIDE DEF R
    <3> QED BY <2>3, <3>1
  <2> DEFINE s == [i \in 1 .. k |-> IF i = 1 THEN least ELSE t[i - 1]]
  <2>5. t \in [1 .. (k - 1) -> R] /\ \A i, j \in 1 .. (k - 1) : i < j => t[i] < t[j]
    BY <2>4 DEF Lists
  <2>6. s[1] = least /\ \A i \in 1 .. k : i # 1 => /\ i - 1 \in 1 .. (k - 1)
                                                   /\ s[i] = t[i - 1] /\ s[i] \in R
    BY <2>5
  <2>7. s \in [1 .. k -> S]
    <3>1. \A i \in 1 .. k : s[i] \in S
      BY <2>6
    <3> QED BY <3>1
  <2> HIDE DEF s
  <2>8. ASSUME NEW i \in 1 .. k, NEW j \in 1 .. k, i < j PROVE s[i] < s[j]
    <3>1. j # 1 /\ s[j] = t[j - 1] /\ s[j] \in R /\ j - 1 \in 1 .. (k - 1)
      BY <2>6, <2>8
    <3>2. CASE i = 1
      <4>1. least <= s[j] /\ s[j] # least /\ least \in Nat /\ s[j] \in Nat
        BY <2>2, <3>1
      <4> QED BY <2>6, <3>2, <4>1
    <3>3. CASE i # 1
      <4>1. s[i] = t[i - 1] /\ i - 1 \in 1 .. (k - 1) /\ i - 1 < j - 1
        BY <2>6, <2>8, <3>3
      <4> QED BY <2>5, <3>1, <4>1
    <3> QED BY <3>2, <3>3
  <2> QED BY <2>7, <2>8 DEF Lists
<1> HIDE DEF T
<1>3. n \in T
  <2>1. n \in 0 .. n
    OBVIOUS
  <2> QED BY <1>1, <1>2, <2>1, UpTo
<1> QED BY <1>3 DEF T

(* A list has every number of the set, and has it once.                      *)
LEMMA ListIsWhole ==
  ASSUME NEW S \in SUBSET Nat, IsFiniteSet(S), NEW s, Lists(s, S, Cardinality(S))
  PROVE  /\ Cardinality(S) \in Nat
         /\ \A i, j \in 1 .. Cardinality(S) : s[i] = s[j] => i = j
         /\ \A x \in S : \E i \in 1 .. Cardinality(S) : s[i] = x
<1> DEFINE n == Cardinality(S)
           D == 1 .. n
<1>1. n \in Nat
  BY FS_CardinalityType
<1>2. IsFiniteSet(D) /\ Cardinality(D) = n
  BY <1>1, FS_Interval
<1>3. s \in [D -> S] /\ \A i, j \in D : i < j => s[i] < s[j]
  BY DEF Lists
<1>4. ASSUME NEW i \in D, NEW j \in D, s[i] = s[j] PROVE i = j
  <2>1. s[i] \in Nat
    BY <1>3
  <2>2. ~(i < j) /\ ~(j < i)
    BY <1>3, <1>4, <2>1
  <2> QED BY <1>1, <2>2
<1>5. s \in Injection(D, S)
  BY <1>3, <1>4 DEF Injection, IsInjective
<1> HIDE DEF D
<1>6. s \in Surjection(D, S)
  BY <1>2, <1>5, FS_Injection
<1> QED BY <1>1, <1>4, <1>6 DEF Surjection, D

-----------------------------------------------------------------------------
(* The sum of a sequence.                                                    *)

LEMMA MaxIsGreatest ==
  ASSUME NEW n \in Nat, NEW T \in SUBSET (0 .. n), T # {}
  PROVE  Max(T) \in T /\ \A y \in T : y <= Max(T)
<1>1. T \subseteq Nat /\ \A x \in T : x <= n
  OBVIOUS
<1>2. \E x \in T : \A y \in T : y <= x
  BY <1>1, GreatestExists
<1>3. \E x \in T : \A y \in T : x >= y
  BY <1>1, <1>2
<1>4. Max(T) \in T /\ \A y \in T : Max(T) >= y
  BY <1>3 DEF Max
<1> QED BY <1>1, <1>4

(* f sums any of the first n elements of s, the way FoldLeft does.           *)
Sums(f, s, n) ==
  f = [T \in SUBSET (1 .. n) |-> IF T = {} THEN 0 ELSE f[T \ {Max(T)}] + s[Max(T)]]

LEMMA SumsExist ==
  ASSUME NEW s, NEW n \in Nat PROVE \E f : Sums(f, s, n)
<1> DEFINE T == {k \in 0 .. n : \E f : Sums(f, s, k)}
<1>1. 0 \in T
  <2> DEFINE f == [U \in SUBSET (1 .. 0) |-> 0]
  <2>1. \A U \in SUBSET (1 .. 0) : U = {}
    OBVIOUS
  <2>2. Sums(f, s, 0)
    BY <2>1 DEF Sums
  <2> QED BY <2>2
<1>2. ASSUME NEW k \in 1 .. n, k - 1 \in T PROVE k \in T
  <2>1. PICK f : Sums(f, s, k - 1)
    BY <1>2
  <2> DEFINE h == [U \in SUBSET (1 .. k) |-> IF k \in U THEN f[U \ {k}] + s[k] ELSE f[U]]
             g == [U \in SUBSET (1 .. k) |->
                     IF U = {} THEN 0 ELSE h[U \ {Max(U)}] + s[Max(U)]]
  <2>2. \A U \in SUBSET (1 .. (k - 1)) :
          f[U] = IF U = {} THEN 0 ELSE f[U \ {Max(U)}] + s[Max(U)]
    BY <2>1 DEF Sums
  <2>3. \A U \in SUBSET (1 .. k) : k \notin U => U \in SUBSET (1 .. (k - 1))
    OBVIOUS
  <2>4. \A U \in SUBSET (1 .. k) : h[U] = IF k \in U THEN f[U \ {k}] + s[k] ELSE f[U]
    OBVIOUS
  <2>5. DOMAIN h = SUBSET (1 .. k) /\ h = [U \in SUBSET (1 .. k) |-> h[U]]
    OBVIOUS
  <2> HIDE DEF h
  <2>6. ASSUME NEW U \in SUBSET (1 .. k)
        PROVE  h[U] = IF U = {} THEN 0 ELSE h[U \ {Max(U)}] + s[Max(U)]
    <3>1. CASE U = {}
      BY <2>2, <2>3, <2>4, <3>1
    <3>2. CASE U # {}
      <4>1. Max(U) \in U /\ \A y \in U : y <= Max(U)
        <5>1. U \in SUBSET (0 .. k) /\ k \in Nat
          OBVIOUS
        <5> QED BY <3>2, <5>1, MaxIsGreatest
      <4>2. U \ {Max(U)} \in SUBSET (1 .. k)
        OBVIOUS
      <4>3. CASE k \in U
        <5>1. Max(U) = k
          <6>1. Max(U) \in 1 .. k /\ k <= Max(U)
            BY <4>1, <4>3
          <6> QED BY <6>1
        <5>2. h[U \ {k}] = f[U \ {k}]
          BY <2>4, <4>2, <5>1
        <5> QED BY <2>4, <3>2, <4>3, <5>1, <5>2
      <4>4. CASE k \notin U
        <5>1. f[U] = f[U \ {Max(U)}] + s[Max(U)]
          BY <2>2, <2>3, <3>2, <4>4
        <5>2. h[U \ {Max(U)}] = f[U \ {Max(U)}]
          BY <2>4, <4>2, <4>4
        <5> QED BY <2>4, <3>2, <4>4, <5>1, <5>2
      <4> QED BY <4>3, <4>4
    <3> QED BY <3>1, <3>2
  <2>7. Sums(h, s, k)
    BY <2>5, <2>6 DEF Sums
  <2> QED BY <2>7
<1> HIDE DEF T
<1>3. \A k \in 0 .. n : k \in T
  BY <1>1, <1>2, UpTo
<1> QED BY <1>3 DEF T

(* The sum of numbers is a number. *)
LEMMA SumIsNumber ==
  ASSUME NEW s \in Seq(Int)
  PROVE  FoldLeft(+, 0, s) \in Int
<1> DEFINE n == Len(s)
<1>1. n \in Nat /\ DOMAIN s = 1 .. n /\ \A i \in 1 .. n : s[i] \in Int
  OBVIOUS
<1> HIDE DEF n
<1>2. \E f : Sums(f, s, n)
  BY <1>1, SumsExist
<1>3. \E f : Sums(f, s, n) /\ FoldLeft(+, 0, s) = f[1 .. n]
  BY <1>1, <1>2 DEF FoldLeft, MapThenFoldSet, Sums
<1>4. PICK f : Sums(f, s, n) /\ FoldLeft(+, 0, s) = f[1 .. n]
  BY <1>3
<1> DEFINE T == {k \in 0 .. n : \A U \in SUBSET (1 .. k) : f[U] \in Int}
<1>5. \A U \in SUBSET (1 .. n) : f[U] = IF U = {} THEN 0 ELSE f[U \ {Max(U)}] + s[Max(U)]
  BY <1>4 DEF Sums
<1>6. 0 \in T
  <2>1. \A U \in SUBSET (1 .. 0) : U = {} /\ U \in SUBSET (1 .. n)
    OBVIOUS
  <2>2. ASSUME NEW U \in SUBSET (1 .. 0) PROVE f[U] \in Int
    <3>1. U = {} /\ U \in SUBSET (1 .. n)
      BY <2>1
    <3>2. f[U] = 0
      BY <1>5, <3>1
    <3> QED BY <3>2
  <2>3. 0 \in 0 .. n
    BY <1>1
  <2> QED BY <2>2, <2>3
<1>7. ASSUME NEW k \in 1 .. n, k - 1 \in T PROVE k \in T
  <2>1. \A U \in SUBSET (1 .. (k - 1)) : f[U] \in Int
    BY <1>7
  <2>2. ASSUME NEW U \in SUBSET (1 .. k) PROVE f[U] \in Int
    <3>1. U \in SUBSET (1 .. n)
      BY <1>1
    <3>2. CASE k \notin U
      <4>1. \A y \in U : y \in 1 .. k /\ y # k
        BY <3>2
      <4>2. \A y \in U : y \in 1 .. (k - 1)
        BY <4>1
      <4> QED BY <2>1, <4>2
    <3>3. CASE k \in U
      <4>1. Max(U) \in U /\ \A y \in U : y <= Max(U)
        <5>1. U \in SUBSET (0 .. k) /\ U # {} /\ k \in Nat
          BY <3>3
        <5> QED BY <5>1, MaxIsGreatest
      <4>2. Max(U) = k
        <5>1. Max(U) \in 1 .. k /\ k <= Max(U)
          BY <3>3, <4>1
        <5> QED BY <5>1
      <4>3. U \ {k} \in SUBSET (1 .. (k - 1))
        OBVIOUS
      <4>4. f[U] = f[U \ {k}] + s[k]
        BY <1>5, <3>1, <3>3, <4>2
      <4> QED BY <1>1, <2>1, <4>3, <4>4
    <3> QED BY <3>2, <3>3
  <2> QED BY <2>2
<1> HIDE DEF T
<1>8. \A k \in 0 .. n : k \in T
  BY <1>1, <1>6, <1>7, UpTo
<1>9. n \in 0 .. n /\ 1 .. n \in SUBSET (1 .. n)
  BY <1>1
<1>10. n \in T
  BY <1>8, <1>9
<1> QED BY <1>4, <1>9, <1>10 DEF T

(* It is the last of the sums of the first elements.                         *)
LEMMA RunningSum ==
  ASSUME NEW s \in Seq(Nat)
  PROVE  \E g \in [0 .. Len(s) -> Nat] :
           /\ g[0] = 0
           /\ \A k \in 1 .. Len(s) : g[k] = g[k - 1] + s[k]
           /\ FoldLeft(+, 0, s) = g[Len(s)]
<1> DEFINE n == Len(s)
<1>1. n \in Nat /\ DOMAIN s = 1 .. n /\ \A i \in 1 .. n : s[i] \in Nat
  OBVIOUS
<1> HIDE DEF n
<1>2. \E f : Sums(f, s, n)
  BY <1>1, SumsExist
<1>3. \E f : Sums(f, s, n) /\ FoldLeft(+, 0, s) = f[1 .. n]
  BY <1>1, <1>2 DEF FoldLeft, MapThenFoldSet, Sums
<1>4. PICK f : Sums(f, s, n) /\ FoldLeft(+, 0, s) = f[1 .. n]
  BY <1>3
<1> DEFINE g == [k \in 0 .. n |-> f[1 .. k]]
<1>5. \A U \in SUBSET (1 .. n) : f[U] = IF U = {} THEN 0 ELSE f[U \ {Max(U)}] + s[Max(U)]
  BY <1>4 DEF Sums
<1>6. g[0] = 0
  <2>1. 1 .. 0 = {} /\ 1 .. 0 \in SUBSET (1 .. n)
    OBVIOUS
  <2>2. f[1 .. 0] = 0
    BY <1>5, <2>1
  <2> QED BY <1>1, <2>2
<1>7. ASSUME NEW k \in 1 .. n PROVE g[k] = g[k - 1] + s[k]
  <2> DEFINE U == 1 .. k
  <2>1. U \in SUBSET (1 .. n) /\ k \in U /\ U # {}
    BY <1>1
  <2>2. Max(U) \in U /\ \A y \in U : y <= Max(U)
    <3>1. U \in SUBSET (0 .. k) /\ k \in Nat
      BY <1>1
    <3> HIDE DEF U
    <3> QED BY <2>1, <3>1, MaxIsGreatest
  <2>3. Max(U) = k
    <3>1. Max(U) \in 1 .. k /\ k <= Max(U)
      BY <2>1, <2>2
    <3> QED BY <3>1
  <2>4. U \ {k} = 1 .. (k - 1)
    BY <1>1
  <2>5. f[U] = f[1 .. (k - 1)] + s[k]
    BY <1>5, <2>1, <2>3, <2>4
  <2>6. g[k] = f[U] /\ g[k - 1] = f[1 .. (k - 1)]
    BY <1>1
  <2> QED BY <2>5, <2>6
<1>8. \A k \in 0 .. n : g[k] \in Nat
  <2> HIDE DEF g
  <2> DEFINE T == {k \in 0 .. n : g[k] \in Nat}
  <2>1. 0 \in T
    BY <1>1, <1>6
  <2>2. ASSUME NEW k \in 1 .. n, k - 1 \in T PROVE k \in T
    BY <1>1, <1>7, <2>2
  <2> HIDE DEF T
  <2>3. \A k \in 0 .. n : k \in T
    BY <1>1, <2>1, <2>2, UpTo
  <2> QED BY <2>3 DEF T
<1>9. g \in [0 .. n -> Nat] /\ g[n] = f[1 .. n]
  BY <1>1, <1>8
<1> HIDE DEF g
<1>10. \E h \in [0 .. n -> Nat] :
         h[0] = 0 /\ (\A k \in 1 .. n : h[k] = h[k - 1] + s[k]) /\ FoldLeft(+, 0, s) = h[n]
  BY <1>4, <1>6, <1>7, <1>9
<1> QED BY <1>10 DEF n

-----------------------------------------------------------------------------
(* Cutting a sequence up, and applying a function to all of its elements.    *)

LEMMA SubSeqElements ==
  ASSUME NEW S, NEW x \in Seq(S), NEW a \in Nat, NEW b \in Nat, a <= b, b <= Len(x)
  PROVE  /\ SubSeq(x, a + 1, b) \in Seq(S) /\ Len(SubSeq(x, a + 1, b)) = b - a
         /\ \A i \in 1 .. (b - a) : SubSeq(x, a + 1, b)[i] = x[a + i]
<1> DEFINE q == SubSeq(x, a + 1, b)
           m == a + 1
<1>1. m \in 1 .. (Len(x) + 1) /\ b \in (m - 1) .. Len(x)
  OBVIOUS
<1>2. q = SubSeq(x, m, b)
  OBVIOUS
<1>3. m = a + 1
  OBVIOUS
<1> HIDE DEF m, q
<1>4. /\ q \in Seq(S) /\ Len(q) = b - m + 1
      /\ \A i \in 1 .. (b - m + 1) : q[i] = x[m + i - 1]
  BY <1>1, <1>2, SubSeqProperties
<1>5. b - m + 1 = b - a /\ \A i \in Int : m + i - 1 = a + i
  BY <1>3
<1>6. \A i \in 1 .. (b - a) : q[i] = x[a + i]
  BY <1>4, <1>5
<1> QED BY <1>4, <1>5, <1>6 DEF q

(* The first k elements.                                                     *)
LEMMA StartElements ==
  ASSUME NEW S, NEW x \in Seq(S), NEW k \in 0 .. Len(x)
  PROVE  /\ SubSeq(x, 1, k) \in Seq(S) /\ Len(SubSeq(x, 1, k)) = k
         /\ \A i \in 1 .. k : SubSeq(x, 1, k)[i] = x[i]
OBVIOUS

(* A function that lists elements is a sequence of them.                     *)
LEMMA SequenceOf ==
  ASSUME NEW S, NEW n \in Nat, NEW f, f = [k \in 1 .. n |-> f[k]], \A k \in 1 .. n : f[k] \in S
  PROVE  f \in Seq(S) /\ Len(f) = n
<1>1. f \in [1 .. n -> S]
  OBVIOUS
<1> QED BY <1>1

(* The pieces of a sequence, concatenated, are the sequence: c[k] is where   *)
(* the k-th piece ends.                                                      *)
LEMMA FlattenPieces ==
  ASSUME NEW S, NEW x \in Seq(S), NEW n \in Nat, NEW c \in [0 .. n -> 0 .. Len(x)],
         c[0] = 0, c[n] = Len(x), \A k \in 1 .. n : c[k - 1] <= c[k]
  PROVE  FlattenSeq([k \in 1 .. n |-> SubSeq(x, c[k - 1] + 1, c[k])]) = x
<1> DEFINE seqs == [k \in 1 .. n |-> SubSeq(x, c[k - 1] + 1, c[k])]
           m == Len(x)
<1>1. m \in Nat /\ \A k \in 0 .. n : c[k] \in 0 .. m
  OBVIOUS
<1>2. ASSUME NEW k \in 1 .. n
      PROVE  /\ seqs[k] \in Seq(S) /\ Len(seqs[k]) = c[k] - c[k - 1]
             /\ \A i \in 1 .. (c[k] - c[k - 1]) : seqs[k][i] = x[c[k - 1] + i]
  <2>1. c[k] \in 0 .. m /\ c[k - 1] \in 0 .. m /\ c[k - 1] <= c[k]
    BY <1>1
  <2> DEFINE a == c[k - 1]
             b == c[k]
             q == SubSeq(x, a + 1, b)
  <2>2. seqs[k] = q
    OBVIOUS
  <2> HIDE DEF a, b, seqs
  <2>3. a \in 0 .. m /\ b \in 0 .. m /\ a <= b
    BY <2>1 DEF a, b
  <2>4. /\ q \in Seq(S) /\ Len(q) = b - a
        /\ \A i \in 1 .. (b - a) : q[i] = x[a + i]
    <3>1. a \in Nat /\ b \in Nat /\ a <= b /\ b <= Len(x)
      BY <2>3
    <3> QED BY <3>1, SubSeqElements
  <2> QED BY <2>2, <2>4 DEF a, b
<1>3. seqs \in [1 .. n -> Seq(S)]
  BY <1>2
<1> HIDE DEF seqs
<1>4. PICK F \in [0 .. n -> Seq(S)] :
           /\ F[0] = <<>>
           /\ \A k \in 1 .. n : F[k] = F[k - 1] \o seqs[k]
           /\ F[n] = FlattenSeq(seqs)
  BY <1>3, FlattenParts
<1> DEFINE T == {k \in 0 .. n : Len(F[k]) = c[k] /\ \A i \in 1 .. c[k] : F[k][i] = x[i]}
<1> HIDE DEF m
<1>5. 0 \in T
  <2>1. Len(F[0]) = 0
    BY <1>4
  <2>2. \A i \in 1 .. c[0] : FALSE
    OBVIOUS
  <2> QED BY <2>1, <2>2
<1>6. ASSUME NEW k \in 1 .. n, k - 1 \in T PROVE k \in T
  <2> DEFINE a == c[k - 1]
             d == c[k] - c[k - 1]
             q == F[k - 1]
             t == seqs[k]
  <2>1. a \in Nat /\ d \in Nat /\ a + d = c[k]
    BY <1>1
  <2>2. q \in Seq(S) /\ Len(q) = a /\ \A i \in 1 .. a : q[i] = x[i]
    BY <1>4, <1>6
  <2>3. t \in Seq(S) /\ Len(t) = d /\ \A i \in 1 .. d : t[i] = x[a + i]
    BY <1>2
  <2>4. F[k] = q \o t
    BY <1>4
  <2> HIDE DEF a, d, q, t
  <2>5. /\ Len(q \o t) = a + d
        /\ \A i \in 1 .. (a + d) : (q \o t)[i] = IF i <= a THEN q[i] ELSE t[i - a]
    <3>1. q \in Seq(S) /\ t \in Seq(S) /\ Len(q) = a /\ Len(t) = d
      BY <2>2, <2>3
    <3>2. Joined(q \o t, q, t, a, d)
      BY <3>1, ConcatJoins
    <3> QED BY <3>2 DEF Joined
  <2>6. ASSUME NEW i \in 1 .. (a + d) PROVE (q \o t)[i] = x[i]
    <3>1. CASE i <= a
      BY <2>1, <2>2, <2>5, <3>1
    <3>2. CASE ~(i <= a)
      <4>1. i - a \in 1 .. d /\ a + (i - a) = i
        BY <2>1, <3>2
      <4>2. t[i - a] = x[a + (i - a)]
        BY <2>3, <4>1
      <4>3. (q \o t)[i] = t[i - a]
        BY <2>5, <3>2
      <4> QED BY <4>1, <4>2, <4>3
    <3> QED BY <3>1, <3>2
  <2>7. k \in 0 .. n /\ Len(F[k]) = c[k]
    BY <2>1, <2>4, <2>5
  <2>8. \A i \in 1 .. c[k] : F[k][i] = x[i]
    BY <2>1, <2>4, <2>6
  <2> QED BY <2>7, <2>8
<1> HIDE DEF T
<1>7. n \in T
  <2>1. n \in 0 .. n
    OBVIOUS
  <2> QED BY <1>5, <1>6, <2>1, UpTo
<1>8. F[n] \in Seq(S) /\ Len(F[n]) = m /\ \A i \in 1 .. m : F[n][i] = x[i]
  BY <1>4, <1>7 DEF T, m
<1>9. F[n] = x
  <2>1. x \in [1 .. m -> S]
    BY DEF m
  <2>2. F[n] \in [1 .. m -> S]
    BY <1>8
  <2> QED BY <1>8, <2>1, <2>2
<1> QED BY <1>4, <1>9 DEF seqs

(* f applied to the elements of q.                                           *)
Applied(f, q) == [i \in DOMAIN q |-> f[q[i]]]

Into(f, D, E) == \A d \in D : f[d] \in E

LEMMA AppliedElements ==
  ASSUME NEW D, NEW E, NEW f, Into(f, D, E), NEW q \in Seq(D)
  PROVE  /\ Applied(f, q) \in Seq(E) /\ Len(Applied(f, q)) = Len(q)
         /\ \A i \in 1 .. Len(q) : Applied(f, q)[i] = f[q[i]]
<1> DEFINE m == Len(q)
<1>1. m \in Nat /\ DOMAIN q = 1 .. m /\ \A i \in 1 .. m : q[i] \in D
  OBVIOUS
<1>2. Applied(f, q) = [i \in 1 .. m |-> f[q[i]]]
  BY <1>1 DEF Applied
<1> HIDE DEF m
<1>3. \A i \in 1 .. m : f[q[i]] \in E
  BY <1>1 DEF Into
<1>4. [i \in 1 .. m |-> f[q[i]]] \in Seq(E) /\ Len([i \in 1 .. m |-> f[q[i]]]) = m
  BY <1>1, <1>3
<1> QED BY <1>1, <1>2, <1>4 DEF m

LEMMA AppliedConcat ==
  ASSUME NEW D, NEW E, NEW f, Into(f, D, E), NEW q \in Seq(D), NEW t \in Seq(D)
  PROVE  Applied(f, q \o t) = Applied(f, q) \o Applied(f, t)
<1> DEFINE n == Len(q)
           N == Len(t)
           u == q \o t
           x == Applied(f, q)
           y == Applied(f, t)
           z == Applied(f, u)
<1>1. n \in Nat /\ N \in Nat /\ u \in Seq(D) /\ Len(q) = n /\ Len(t) = N
  OBVIOUS
<1> HIDE DEF n, N, x, y, z
<1>2. Len(u) = n + N /\ \A i \in 1 .. (n + N) : u[i] = IF i <= n THEN q[i] ELSE t[i - n]
  BY <1>1, ConcatElements
<1> HIDE DEF u
<1>3. x \in Seq(E) /\ Len(x) = n /\ \A i \in 1 .. n : x[i] = f[q[i]]
  <2>1. q \in Seq(D)
    OBVIOUS
  <2>2. x \in Seq(E) /\ Len(x) = Len(q) /\ \A i \in 1 .. Len(q) : x[i] = f[q[i]]
    BY <2>1, AppliedElements DEF x
  <2> QED BY <1>1, <2>2
<1>4. y \in Seq(E) /\ Len(y) = N /\ \A i \in 1 .. N : y[i] = f[t[i]]
  <2>1. t \in Seq(D)
    OBVIOUS
  <2>2. y \in Seq(E) /\ Len(y) = Len(t) /\ \A i \in 1 .. Len(t) : y[i] = f[t[i]]
    BY <2>1, AppliedElements DEF y
  <2> QED BY <1>1, <2>2
<1>5. z \in Seq(E) /\ Len(z) = n + N /\ \A i \in 1 .. (n + N) : z[i] = f[u[i]]
  <2>1. /\ z \in Seq(E) /\ Len(z) = Len(u)
        /\ \A i \in 1 .. Len(u) : z[i] = f[u[i]]
    BY <1>1, AppliedElements DEF z
  <2> QED BY <1>2, <2>1
<1>6. Len(x \o y) = n + N /\ \A i \in 1 .. (n + N) : (x \o y)[i] = IF i <= n THEN x[i] ELSE y[i - n]
  <2>1. x \in Seq(E) /\ y \in Seq(E) /\ Len(x) = n /\ Len(y) = N
    BY <1>3, <1>4
  <2> QED BY <2>1, ConcatElements
<1>7. ASSUME NEW i \in 1 .. (n + N) PROVE (x \o y)[i] = z[i]
  <2>1. CASE i <= n
    <3>1. i \in 1 .. n
      BY <1>1, <2>1
    <3> QED BY <1>2, <1>3, <1>5, <1>6, <2>1, <3>1
  <2>2. CASE ~(i <= n)
    <3>1. i - n \in 1 .. N
      BY <1>1, <2>2
    <3> QED BY <1>2, <1>4, <1>5, <1>6, <2>2, <3>1
  <2> QED BY <2>1, <2>2
<1>8. z \in [1 .. (n + N) -> E] /\ x \o y \in [1 .. (n + N) -> E]
  <2>1. x \o y \in Seq(E)
    BY <1>3, <1>4
  <2>2. \A w \in Seq(E) : w \in [1 .. Len(w) -> E]
    OBVIOUS
  <2>3. Len(z) = n + N /\ Len(x \o y) = n + N
    BY <1>5, <1>6
  <2> QED BY <1>5, <2>1, <2>2, <2>3
<1>9. x \o y = z
  <2> DEFINE M == n + N
             xy == x \o y
  <2>1. z \in [1 .. M -> E] /\ xy \in [1 .. M -> E] /\ \A i \in 1 .. M : xy[i] = z[i]
    BY <1>7, <1>8
  <2> HIDE DEF M, xy
  <2>2. xy = [i \in 1 .. M |-> xy[i]] /\ z = [i \in 1 .. M |-> z[i]]
    BY <2>1
  <2>3. [i \in 1 .. M |-> xy[i]] = [i \in 1 .. M |-> z[i]]
    BY <2>1
  <2> QED BY <2>2, <2>3 DEF xy
<1> QED BY <1>9 DEF u, x, y, z

(* A function can be applied before or after the concatenation.              *)
LEMMA FlattenApplied ==
  ASSUME NEW D, NEW E, NEW f, Into(f, D, E), NEW n \in Nat,
         NEW seqs \in [1 .. n -> Seq(D)]
  PROVE  FlattenSeq([k \in 1 .. n |-> Applied(f, seqs[k])]) = Applied(f, FlattenSeq(seqs))
<1> DEFINE maps == [k \in 1 .. n |-> Applied(f, seqs[k])]
<1>1. \A k \in 1 .. n : maps[k] = Applied(f, seqs[k]) /\ maps[k] \in Seq(E)
  <2> SUFFICES ASSUME NEW k \in 1 .. n PROVE Applied(f, seqs[k]) \in Seq(E)
    OBVIOUS
  <2>1. seqs[k] \in Seq(D)
    OBVIOUS
  <2> QED BY <2>1, AppliedElements
<1>2. maps \in [1 .. n -> Seq(E)]
  BY <1>1
<1> HIDE DEF maps
<1>3. PICK F \in [0 .. n -> Seq(D)] :
           /\ F[0] = <<>>
           /\ \A k \in 1 .. n : F[k] = F[k - 1] \o seqs[k]
           /\ F[n] = FlattenSeq(seqs)
  BY FlattenParts
<1>4. PICK G \in [0 .. n -> Seq(E)] :
           /\ G[0] = <<>>
           /\ \A k \in 1 .. n : G[k] = G[k - 1] \o maps[k]
           /\ G[n] = FlattenSeq(maps)
  BY <1>2, FlattenParts
<1> DEFINE T == {k \in 0 .. n : G[k] = Applied(f, F[k])}
<1>5. 0 \in T
  <2>1. Applied(f, <<>>) = <<>>
    BY DEF Applied
  <2> QED BY <1>3, <1>4, <2>1
<1>6. ASSUME NEW k \in 1 .. n, k - 1 \in T PROVE k \in T
  <2>1. F[k - 1] \in Seq(D) /\ seqs[k] \in Seq(D)
    OBVIOUS
  <2>2. Applied(f, F[k - 1] \o seqs[k]) = Applied(f, F[k - 1]) \o Applied(f, seqs[k])
    <3> DEFINE q == F[k - 1]
               t == seqs[k]
    <3>1. q \in Seq(D) /\ t \in Seq(D)
      BY <2>1
    <3> HIDE DEF q, t
    <3>2. Applied(f, q \o t) = Applied(f, q) \o Applied(f, t)
      BY <3>1, AppliedConcat, SMTT(30)
    <3> QED BY <3>2 DEF q, t
  <2>3. G[k - 1] = Applied(f, F[k - 1])
    BY <1>6
  <2>4. G[k] = Applied(f, F[k])
    BY <1>1, <1>3, <1>4, <2>2, <2>3
  <2> QED BY <2>4
<1> HIDE DEF T
<1>7. n \in T
  <2>1. n \in 0 .. n
    OBVIOUS
  <2> QED BY <1>5, <1>6, <2>1, UpTo
<1> QED BY <1>3, <1>4, <1>7 DEF T, maps

-----------------------------------------------------------------------------
(* Sequences that hold every element of a set once.                          *)

Enumerates(q, D) ==
  /\ q \in Seq(D)
  /\ \A i, j \in 1 .. Len(q) : q[i] = q[j] => i = j
  /\ \A d \in D : \E i \in 1 .. Len(q) : q[i] = d

(* The sequences of a family hold every element of a set once between them.  *)
Shares(seqs, I, D) ==
  /\ \A k \in I : seqs[k] \in Seq(D)
  /\ \A k, l \in I : \A i \in 1 .. Len(seqs[k]), j \in 1 .. Len(seqs[l]) :
       seqs[k][i] = seqs[l][j] => k = l /\ i = j
  /\ \A d \in D : \E k \in I : \E i \in 1 .. Len(seqs[k]) : seqs[k][i] = d

(* Then their concatenation does.                                            *)
LEMMA FlattenEnumerates ==
  ASSUME NEW D, NEW n \in Nat, NEW seqs \in [1 .. n -> Seq(D)], Shares(seqs, 1 .. n, D)
  PROVE  Enumerates(FlattenSeq(seqs), D)
<1> DEFINE tag   == [d \in D |-> CHOOSE k \in 1 .. n : \E i \in 1 .. Len(seqs[k]) : seqs[k][i] = d]
           place == [d \in D |-> CHOOSE i \in Nat : /\ i \in 1 .. Len(seqs[tag[d]])
                                                    /\ seqs[tag[d]][i] = d]
           q     == FlattenSeq(seqs)
<1>1. ASSUME NEW d \in D
      PROVE  tag[d] \in 1 .. n /\ place[d] \in 1 .. Len(seqs[tag[d]]) /\ seqs[tag[d]][place[d]] = d
  <2>1. \E k \in 1 .. n : \E i \in 1 .. Len(seqs[k]) : seqs[k][i] = d
    BY DEF Shares
  <2>2. tag[d] \in 1 .. n /\ \E i \in 1 .. Len(seqs[tag[d]]) : seqs[tag[d]][i] = d
    BY <2>1
  <2> HIDE DEF tag
  <2>3. \E i \in Nat : i \in 1 .. Len(seqs[tag[d]]) /\ seqs[tag[d]][i] = d
    BY <2>2
  <2>4. place[d] \in 1 .. Len(seqs[tag[d]]) /\ seqs[tag[d]][place[d]] = d
    BY <2>3
  <2> QED BY <2>2, <2>4
<1> HIDE DEF tag, place
<1>2. ASSUME NEW k \in 1 .. n, NEW i \in 1 .. Len(seqs[k])
      PROVE  tag[seqs[k][i]] = k /\ place[seqs[k][i]] = i
  <2> DEFINE d == seqs[k][i]
  <2>1. d \in D
    <3>1. seqs[k] \in Seq(D)
      OBVIOUS
    <3> QED BY <3>1
  <2> DEFINE l == tag[d]
             j == place[d]
  <2>2. l \in 1 .. n /\ j \in 1 .. Len(seqs[l]) /\ seqs[l][j] = seqs[k][i]
    BY <1>1, <2>1
  <2> HIDE DEF l, j
  <2>3. l = k /\ j = i
    BY <2>2 DEF Shares
  <2> QED BY <2>3 DEF l, j
<1>3. TagsTell(tag, seqs, n)
  BY <1>2 DEF TagsTell
<1>4. \A k \in 1 .. n : \A i, j \in 1 .. Len(seqs[k]) :
        i < j => place[seqs[k][i]] < place[seqs[k][j]]
  BY <1>2
<1>5. /\ FlattenSeq(seqs) \in Seq(D)
      /\ Drawn(FlattenSeq(seqs), tag, seqs)
      /\ Rising(FlattenSeq(seqs), tag, place)
      /\ Covers(FlattenSeq(seqs), tag, seqs, n)
  BY <1>3, <1>4, FlattenRises
<1>6. q \in Seq(D) /\ Rising(q, tag, place) /\ Covers(q, tag, seqs, n)
  BY <1>5
<1> HIDE DEF q
<1>7. ASSUME NEW p \in 1 .. Len(q), NEW r \in 1 .. Len(q), q[p] = q[r], p < r PROVE FALSE
  <2>1. q[p] \in D
    BY <1>6
  <2>2. place[q[p]] \in Nat
    BY <1>1, <2>1
  <2>3. place[q[p]] < place[q[r]]
    BY <1>6, <1>7 DEF Rising
  <2> QED BY <1>7, <2>2, <2>3
<1>8. \A p, r \in 1 .. Len(q) : q[p] = q[r] => p = r
  <2> SUFFICES ASSUME NEW p \in 1 .. Len(q), NEW r \in 1 .. Len(q), q[p] = q[r], p # r PROVE FALSE
    OBVIOUS
  <2>1. Len(q) \in Nat
    BY <1>6
  <2>2. p < r \/ r < p
    BY <2>1
  <2> QED BY <1>7, <2>2
<1>9. ASSUME NEW d \in D PROVE \E p \in 1 .. Len(q) : q[p] = d
  <2>1. tag[d] \in 1 .. n /\ place[d] \in 1 .. Len(seqs[tag[d]]) /\ seqs[tag[d]][place[d]] = d
    BY <1>1
  <2> QED BY <1>6, <2>1, ZenonT(40) DEF Covers
<1> QED BY <1>6, <1>8, <1>9 DEF Enumerates, q

(* Such a sequence is as long as the set is large.                           *)
LEMMA EnumerationSize ==
  ASSUME NEW m \in Nat, NEW q, Enumerates(q, 1 .. m)
  PROVE  Len(q) = m
<1> DEFINE D == 1 .. m
           n == Len(q)
           N == 1 .. n
<1>1. n \in Nat /\ q \in [N -> D]
  <2>1. q \in Seq(D)
    BY DEF Enumerates
  <2> HIDE DEF D
  <2> QED BY <2>1
<1>2. /\ \A i, j \in N : q[i] = q[j] => i = j
      /\ \A d \in D : \E i \in N : q[i] = d
  BY DEF Enumerates
<1>3. IsFiniteSet(N) /\ Cardinality(N) = n /\ Cardinality(D) = m
  <2>1. 1 \in Int /\ n \in Int /\ m \in Int
    BY <1>1
  <2>2. /\ IsFiniteSet(N) /\ Cardinality(N) = IF 1 > n THEN 0 ELSE n - 1 + 1
        /\ Cardinality(D) = IF 1 > m THEN 0 ELSE m - 1 + 1
    BY <2>1, FS_Interval
  <2>3. (IF 1 > n THEN 0 ELSE n - 1 + 1) = n /\ (IF 1 > m THEN 0 ELSE m - 1 + 1) = m
    BY <1>1
  <2> QED BY <2>2, <2>3
<1> HIDE DEF N, D, n
<1>4. q \in Bijection(N, D)
  BY <1>1, <1>2 DEF Bijection, Injection, Surjection, IsInjective
<1>5. ExistsBijection(N, D)
  BY <1>4 DEF ExistsBijection
<1>6. Cardinality(D) = Cardinality(N)
  BY <1>3, <1>5, FS_Bijection
<1> QED BY <1>3, <1>6 DEF n

-----------------------------------------------------------------------------
(* Sorting: R orders the numbers up to n, and the place of one is how many   *)
(* do not come behind it.                                                    *)

Orders(R, n) ==
  /\ \A i, j \in 1 .. n : <<i, j>> \in R \/ <<j, i>> \in R
  /\ \A i, j \in 1 .. n : <<i, j>> \in R /\ <<j, i>> \in R => i = j
  /\ \A i, j, k \in 1 .. n : <<i, j>> \in R /\ <<j, k>> \in R => <<i, k>> \in R

PlaceIn(R, n, j) == Cardinality({i \in 1 .. n : <<i, j>> \in R})

(* Whoever has the k-th place comes before who has a later one.              *)
Arranges(p, R, n) ==
  /\ p \in [1 .. n -> 1 .. n]
  /\ \A k, l \in 1 .. n : p[k] = p[l] => k = l
  /\ \A j \in 1 .. n : \E k \in 1 .. n : p[k] = j
  /\ \A k, l \in 1 .. n : k < l => <<p[k], p[l]>> \in R

LEMMA PlacesArrange ==
  ASSUME NEW n \in Nat, NEW R, Orders(R, n)
  PROVE  Arranges([k \in 1 .. n |-> CHOOSE j \in 1 .. n : PlaceIn(R, n, j) = k], R, n)
<1> DEFINE D == 1 .. n
           Below(j) == {i \in D : <<i, j>> \in R}
           f == [j \in D |-> Cardinality(Below(j))]
           p == [k \in D |-> CHOOSE j \in D : f[j] = k]
<1>1. IsFiniteSet(D) /\ Cardinality(D) = n
  <2>1. 1 \in Int /\ n \in Int
    OBVIOUS
  <2>2. IsFiniteSet(D) /\ Cardinality(D) = IF 1 > n THEN 0 ELSE n - 1 + 1
    BY <2>1, FS_Interval
  <2> QED BY <2>2
<1>2. D \subseteq Nat
  OBVIOUS
<1>3. /\ \A i, j \in D : <<i, j>> \in R \/ <<j, i>> \in R
      /\ \A i, j \in D : <<i, j>> \in R /\ <<j, i>> \in R => i = j
      /\ \A i, j, k \in D : <<i, j>> \in R /\ <<j, k>> \in R => <<i, k>> \in R
  BY DEF Orders
<1>4. \A k \in Nat : k \in D <=> 1 <= k /\ k <= n
  OBVIOUS
<1> HIDE DEF D
<1>5. ASSUME NEW j \in D
      PROVE  /\ IsFiniteSet(Below(j)) /\ Cardinality(Below(j)) \in Nat
             /\ j \in Below(j) /\ Cardinality(Below(j)) \in D
  <2>1. Below(j) \in SUBSET D /\ j \in Below(j)
    BY <1>3
  <2> DEFINE B == Below(j)
  <2> HIDE DEF B
  <2>2. IsFiniteSet(B) /\ Cardinality(B) <= Cardinality(D)
    <3>1. B \in SUBSET D
      BY <2>1 DEF B
    <3> QED BY <1>1, <3>1, FS_Subset
  <2>3. Cardinality(B) \in Nat /\ Cardinality(B) # 0
    <3>1. Cardinality(B) \in Nat
      BY <2>2, FS_CardinalityType
    <3>2. B # {}
      BY <2>1 DEF B
    <3> QED BY <2>2, <3>1, <3>2, FS_EmptySet
  <2>4. Cardinality(B) \in D
    BY <1>1, <1>4, <2>2, <2>3
  <2> QED BY <2>1, <2>2, <2>3, <2>4 DEF B
<1>6. ASSUME NEW i \in D, NEW j \in D, i # j, <<i, j>> \in R
      PROVE  f[i] < f[j]
  <2> DEFINE A == Below(i)
             B == Below(j)
  <2>1. A \in SUBSET B /\ j \in B /\ j \notin A
    BY <1>3, <1>6
  <2>2. IsFiniteSet(A) /\ IsFiniteSet(B) /\ Cardinality(A) \in Nat /\ Cardinality(B) \in Nat
    BY <1>5
  <2>3. f[i] = Cardinality(A) /\ f[j] = Cardinality(B)
    OBVIOUS
  <2> HIDE DEF A, B, f
  <2>4. Cardinality(A) <= Cardinality(B) /\ (Cardinality(B) = Cardinality(A) => B = A)
    BY <2>1, <2>2, FS_Subset
  <2>5. Cardinality(A) # Cardinality(B)
    BY <2>1, <2>4
  <2> QED BY <2>2, <2>3, <2>4, <2>5
<1>7. \A j \in D : f[j] \in D /\ f[j] \in Nat /\ f[j] = Cardinality(Below(j))
  BY <1>5
<1>8. f \in [D -> D]
  BY <1>7
<1> HIDE DEF f, Below
<1>9. ASSUME NEW i \in D, NEW j \in D, f[i] = f[j] PROVE i = j
  <2> SUFFICES ASSUME i # j PROVE FALSE
    OBVIOUS
  <2>1. f[i] \in Nat /\ f[j] \in Nat
    BY <1>7
  <2>2. CASE <<i, j>> \in R
    BY <1>6, <1>9, <2>1, <2>2
  <2>3. CASE <<j, i>> \in R
    BY <1>6, <1>9, <2>1, <2>3
  <2> QED BY <1>3, <2>2, <2>3
<1>10. f \in Injection(D, D)
  BY <1>8, <1>9 DEF Injection, IsInjective
<1>11. f \in Surjection(D, D)
  BY <1>1, <1>10, FS_Injection
<1>12. ASSUME NEW k \in D PROVE p[k] \in D /\ f[p[k]] = k
  <2>1. \E j \in D : f[j] = k
    BY <1>11 DEF Surjection
  <2> QED BY <2>1
<1>13. p \in [D -> D]
  BY <1>12
<1>14. p = [k \in D |-> CHOOSE j \in D : Cardinality(Below(j)) = k]
  <2>1. \A k \in D : (CHOOSE j \in D : f[j] = k) = CHOOSE j \in D : Cardinality(Below(j)) = k
    <3> SUFFICES ASSUME NEW k \in D
                 PROVE  (CHOOSE j \in D : f[j] = k) = CHOOSE j \in D : Cardinality(Below(j)) = k
      OBVIOUS
    <3>1. \A j \in D : f[j] = k <=> Cardinality(Below(j)) = k
      BY <1>7
    <3>2. \A j : j \in D /\ f[j] = k <=> j \in D /\ Cardinality(Below(j)) = k
      BY <3>1
    <3> QED BY <3>2
  <2> QED BY <2>1
<1> HIDE DEF p
<1>15. \A k, l \in D : p[k] = p[l] => k = l
  BY <1>12
<1>16. ASSUME NEW j \in D PROVE \E k \in D : p[k] = j
  <2>1. f[j] \in D
    BY <1>7
  <2>2. p[f[j]] \in D /\ f[p[f[j]]] = f[j]
    BY <1>12, <2>1
  <2>3. p[f[j]] = j
    BY <1>9, <2>2
  <2> QED BY <2>1, <2>3
<1>17. ASSUME NEW k \in D, NEW l \in D, k < l PROVE <<p[k], p[l]>> \in R
  <2> SUFFICES ASSUME <<p[k], p[l]>> \notin R PROVE FALSE
    OBVIOUS
  <2>1. p[k] \in D /\ p[l] \in D /\ f[p[k]] = k /\ f[p[l]] = l
    BY <1>12
  <2>2. <<p[l], p[k]>> \in R /\ p[l] # p[k]
    BY <1>3, <2>1
  <2>3. l < k
    BY <1>6, <2>1, <2>2
  <2> QED BY <1>2, <1>17, <2>3
<1>18. Arranges(p, R, n)
  BY <1>13, <1>15, <1>16, <1>17 DEF Arranges, D
<1>19. p = [k \in 1 .. n |-> CHOOSE j \in 1 .. n : PlaceIn(R, n, j) = k]
  BY <1>14 DEF PlaceIn, D, Below
<1> QED BY <1>18, <1>19

-----------------------------------------------------------------------------
(* Sequences in pieces of one size, but for the last.                        *)

\* Quotient and remainder of natural numbers.
LEMMA DivMod ==
  ASSUME NEW a \in Nat, NEW d \in Nat \ {0}
  PROVE  a \div d \in Nat /\ a % d \in 0 .. (d - 1) /\ a = d * (a \div d) + (a % d)
OBVIOUS

\* How many pieces of z elements m elements make.
Pieces(m, z) == (m + z - 1) \div z

\* They are just enough for the elements.
LEMMA PiecesBounds ==
  ASSUME NEW m \in Nat, NEW z \in Nat \ {0}
  PROVE  /\ Pieces(m, z) \in Nat
         /\ m <= Pieces(m, z) * z
         /\ m # 0 <=> Pieces(m, z) # 0
         /\ Pieces(m, z) # 0 => (Pieces(m, z) - 1) * z < m
         /\ m % z = 0 => m = Pieces(m, z) * z
<1> DEFINE a == m + z - 1
           C == Pieces(m, z)
           r == a % z
<1>1. a \in Nat
  OBVIOUS
<1>2. C \in Nat /\ r \in 0 .. (z - 1) /\ a = z * C + r
  <2> HIDE DEF a
  <2>1. a \div z \in Nat /\ a % z \in 0 .. (z - 1) /\ a = z * (a \div z) + (a % z)
    BY <1>1, DivMod
  <2> QED BY <2>1 DEF Pieces, a
<1>3. (C - 1) * z = C * z - z /\ z * C = C * z /\ C * z \in Nat
  BY <1>2
<1>4. C = 0 => C * z = 0
  BY <1>2
<1>5. C # 0 => C * z >= z
  <2>1. C # 0 => (C - 1) * z >= 0
    BY <1>2
  <2> QED BY <1>2, <1>3, <2>1
<1> DEFINE x == C * z
<1> HIDE DEF C, r, x
<1>6. x \in Nat /\ m + z - 1 = x + r /\ r \in 0 .. (z - 1) /\ (C = 0 => x = 0) /\ (C # 0 => x >= z) /\ (C - 1) * z = x - z
  BY <1>2, <1>3, <1>4, <1>5 DEF x
<1>7. m <= x
  BY <1>6
<1>8. m # 0 <=> C # 0
  BY <1>6
<1>9. C # 0 => (C - 1) * z < m
  BY <1>6
<1>10. m % z = 0 => m = x
  <2> DEFINE d == m \div z
  <2>1. d \in Nat /\ m = z * d + (m % z)
    BY DivMod
  <2> HAVE m % z = 0
  <2>2. m = z * d
    BY <2>1
  <2> HIDE DEF d
  <2>3. CASE C <= d
    <3>1. C * z <= d * z
      BY <1>2, <2>1, <2>3, ProductMonotonic
    <3>2. x <= m
      BY <2>1, <2>2, <3>1 DEF x
    <3> QED BY <1>6, <1>7, <3>2
  <2>4. CASE d < C
    <3>1. d \in Nat /\ C - 1 \in Nat /\ d <= C - 1
      BY <1>2, <2>1, <2>4
    <3>2. d * z <= (C - 1) * z
      BY <3>1, ProductMonotonic
    <3>3. m <= (C - 1) * z
      BY <2>1, <2>2, <3>2
    <3> QED BY <1>6, <1>9, <2>1, <2>4, <3>3
  <2> QED BY <1>2, <2>1, <2>3, <2>4
<1> QED BY <1>2, <1>7, <1>8, <1>9, <1>10 DEF x, C

\* Where piece c ends.
PieceEnd(c, z, m) == IF c * z < m THEN c * z ELSE m

IsPiece(t, q, z, m, c) ==
  /\ Len(t) \in 1 .. z
  /\ Len(t) = PieceEnd(c, z, m) - PieceEnd(c - 1, z, m)
  /\ m % z = 0 => Len(t) = z
  /\ \A i \in 1 .. Len(t) : Place(c, i, z) \in 1 .. m /\ t[i] = q[Place(c, i, z)]

\* Pieces end one behind the other, the last where the sequence does.
LEMMA PieceEndBounds ==
  ASSUME NEW m \in Nat, NEW z \in Nat \ {0}, NEW c \in 1 .. Pieces(m, z)
  PROVE  /\ PieceEnd(c - 1, z, m) = (c - 1) * z /\ PieceEnd(c - 1, z, m) \in Nat
         /\ PieceEnd(c, z, m) \in Nat /\ PieceEnd(c, z, m) <= m
         /\ PieceEnd(c, z, m) - PieceEnd(c - 1, z, m) \in 1 .. z
         /\ m % z = 0 => PieceEnd(c, z, m) - PieceEnd(c - 1, z, m) = z
<1> DEFINE C == Pieces(m, z)
           x == (c - 1) * z
<1>1. C \in Nat /\ C # 0 /\ (C - 1) * z < m /\ (m % z = 0 => m = C * z)
  <2>1. C \in Nat /\ (C # 0 => (C - 1) * z < m) /\ (m % z = 0 => m = C * z)
    BY PiecesBounds
  <2>2. C # 0
    BY <2>1
  <2> QED BY <2>1, <2>2
<1>2. c - 1 \in Nat /\ C - 1 \in Nat /\ c - 1 <= C - 1 /\ c \in Nat /\ c <= C
  BY <1>1
<1> HIDE DEF C
<1>3. x <= (C - 1) * z /\ x \in Nat /\ (C - 1) * z \in Nat
  BY <1>2, ProductMonotonic
<1>4. c * z = x + z
  BY <1>2
<1>5. c * z <= C * z /\ C * z \in Nat
  BY <1>1, <1>2, ProductMonotonic
<1> HIDE DEF x
<1>6. x < m
  BY <1>1, <1>3
<1>7. PieceEnd(c - 1, z, m) = x
  BY <1>6 DEF PieceEnd, x
<1>8. PieceEnd(c, z, m) = IF x + z < m THEN x + z ELSE m
  BY <1>4 DEF PieceEnd
<1>9. m % z = 0 => x + z <= m
  BY <1>1, <1>4, <1>5
<1> DEFINE y == PieceEnd(c, z, m)
<1> HIDE DEF y
<1>10. y = IF x + z < m THEN x + z ELSE m
  BY <1>8 DEF y
<1>11. y \in Nat /\ y <= m /\ y - x \in 1 .. z /\ (m % z = 0 => y - x = z)
  BY <1>3, <1>6, <1>9, <1>10
<1> QED BY <1>3, <1>7, <1>11 DEF x, y

\* SplitBySize makes such pieces, which concatenated are the sequence.
LEMMA SplitPieces ==
  ASSUME NEW S, NEW q \in Seq(S), NEW z \in Nat \ {0}
  PROVE  /\ SplitBySize(q, z) \in [1 .. Pieces(Len(q), z) -> Seq(S)]
         /\ \A c \in 1 .. Pieces(Len(q), z) : IsPiece(SplitBySize(q, z)[c], q, z, Len(q), c)
         /\ Concat(SplitBySize(q, z)) = q
<1> DEFINE m == Len(q)
           C == Pieces(m, z)
           cut == [c \in 0 .. C |-> PieceEnd(c, z, m)]
           pieces == [c \in 1 .. C |-> SubSeq(q, cut[c - 1] + 1, cut[c])]
<1>1. m \in Nat
  OBVIOUS
<1>2. C \in Nat /\ m <= C * z /\ C * z \in Nat
  <2>1. C \in Nat /\ m <= C * z
    BY <1>1, PiecesBounds
  <2> QED BY <2>1
<1>3. \A c \in 0 .. C : cut[c] = PieceEnd(c, z, m)
  OBVIOUS
<1>4. ASSUME NEW c \in 1 .. C
      PROVE  /\ cut[c - 1] = (c - 1) * z /\ cut[c - 1] \in Nat /\ cut[c] \in Nat /\ cut[c] <= m
             /\ cut[c] - cut[c - 1] \in 1 .. z
             /\ m % z = 0 => cut[c] - cut[c - 1] = z
             /\ cut[c] = PieceEnd(c, z, m) /\ cut[c - 1] = PieceEnd(c - 1, z, m)
  <2>1. c \in 0 .. C /\ c - 1 \in 0 .. C
    BY <1>2
  <2>2. cut[c] = PieceEnd(c, z, m) /\ cut[c - 1] = PieceEnd(c - 1, z, m)
    BY <1>3, <2>1
  <2> HIDE DEF C, cut, m
  <2>3. /\ PieceEnd(c - 1, z, m) = (c - 1) * z /\ PieceEnd(c - 1, z, m) \in Nat
        /\ PieceEnd(c, z, m) \in Nat /\ PieceEnd(c, z, m) <= m
        /\ PieceEnd(c, z, m) - PieceEnd(c - 1, z, m) \in 1 .. z
        /\ m % z = 0 => PieceEnd(c, z, m) - PieceEnd(c - 1, z, m) = z
    BY <1>1, PieceEndBounds DEF C
  <2> QED BY <2>2, <2>3
<1>5. SplitBySize(q, z) = pieces
  <2>1. \A c \in 1 .. C : cut[c - 1] + 1 = (c - 1) * z + 1 /\ cut[c] = IF c * z < m THEN c * z ELSE m
    BY <1>4 DEF PieceEnd
  <2> HIDE DEF cut
  <2> QED BY <2>1 DEF SplitBySize, Pieces
<1>6. cut[0] = 0 /\ cut[C] = m
  <2>1. 0 \in 0 .. C /\ C \in 0 .. C
    BY <1>2
  <2>2. PieceEnd(0, z, m) = 0
    <3>1. 0 * z = 0
      OBVIOUS
    <3> QED BY <1>1, <3>1 DEF PieceEnd
  <2>3. PieceEnd(C, z, m) = m
    BY <1>1, <1>2 DEF PieceEnd
  <2> QED BY <1>3, <2>1, <2>2, <2>3
<1>7. cut \in [0 .. C -> 0 .. m]
  <2>1. \A c \in 0 .. C : cut[c] \in 0 .. m
    <3> SUFFICES ASSUME NEW c \in 0 .. C PROVE cut[c] \in 0 .. m
      OBVIOUS
    <3>1. CASE c = 0
      BY <1>1, <1>6, <3>1
    <3>2. CASE c # 0
      <4>1. c \in 1 .. C
        BY <1>2, <3>2
      <4>2. cut[c] \in Nat /\ cut[c] <= m
        BY <1>4, <4>1
      <4> HIDE DEF cut
      <4> QED BY <1>1, <4>2
    <3> QED BY <3>1, <3>2
  <2>2. cut = [c \in 0 .. C |-> cut[c]]
    OBVIOUS
  <2> HIDE DEF cut
  <2> QED BY <2>1, <2>2
<1>8. \A c \in 1 .. C : pieces[c] = SubSeq(q, cut[c - 1] + 1, cut[c])
  OBVIOUS
<1>9. DOMAIN pieces = 1 .. C /\ pieces = [c \in 1 .. C |-> pieces[c]]
  <2> HIDE DEF cut, C, m
  <2> QED OBVIOUS
<1>10. FlattenSeq(pieces) = q
  <2>1. \A c \in 1 .. C : cut[c - 1] <= cut[c]
    <3> SUFFICES ASSUME NEW c \in 1 .. C PROVE cut[c - 1] <= cut[c]
      OBVIOUS
    <3>1. cut[c - 1] \in Nat /\ cut[c] \in Nat /\ cut[c] - cut[c - 1] \in 1 .. z
      BY <1>4
    <3> HIDE DEF cut
    <3> QED BY <3>1
  <2> HIDE DEF cut, C
  <2> QED BY <1>2, <1>6, <1>7, <2>1, FlattenPieces
<1> HIDE DEF cut, pieces, m, C
<1>11. ASSUME NEW c \in 1 .. C
       PROVE  pieces[c] \in Seq(S) /\ IsPiece(pieces[c], q, z, m, c)
  <2> DEFINE a == cut[c - 1]
             b == cut[c]
             t == pieces[c]
  <2>1. a \in Nat /\ b \in Nat /\ b <= m /\ b - a \in 1 .. z /\ a = (c - 1) * z
    BY <1>4
  <2>2. t = SubSeq(q, a + 1, b)
    BY <1>8
  <2> HIDE DEF a, b, t
  <2>3. a <= b
    BY <2>1
  <2>4. t \in Seq(S) /\ Len(t) = b - a /\ \A i \in 1 .. (b - a) : t[i] = q[a + i]
    BY <2>1, <2>2, <2>3, SubSeqElements DEF m
  <2>5. \A i \in 1 .. Len(t) : Place(c, i, z) \in 1 .. m /\ t[i] = q[Place(c, i, z)]
    <3> SUFFICES ASSUME NEW i \in 1 .. Len(t) PROVE Place(c, i, z) \in 1 .. m /\ t[i] = q[Place(c, i, z)]
      OBVIOUS
    <3>1. Place(c, i, z) = a + i
      BY <2>1 DEF Place
    <3>2. i \in 1 .. (b - a) /\ a + i \in 1 .. m
      BY <1>1, <2>1, <2>4
    <3> QED BY <2>4, <3>1, <3>2
  <2>6. Len(t) \in 1 .. z /\ Len(t) = PieceEnd(c, z, m) - PieceEnd(c - 1, z, m) /\ (m % z = 0 => Len(t) = z)
    BY <1>4, <2>4 DEF a, b
  <2> QED BY <2>4, <2>5, <2>6 DEF t, IsPiece
<1>12. pieces \in [1 .. C -> Seq(S)]
  BY <1>9, <1>11
<1> QED BY <1>5, <1>10, <1>11, <1>12 DEF m, C, Concat

\* A multiple leaves no remainder.
LEMMA ProductMod ==
  ASSUME NEW w \in Nat, NEW z \in Nat \ {0}
  PROVE  (w * z) % z = 0
<1> DEFINE m == w * z
           d == m \div z
           r == m % z
<1>1. m \in Nat
  OBVIOUS
<1> HIDE DEF m
<1>2. d \in Nat /\ r \in 0 .. (z - 1) /\ m = z * d + r
  BY <1>1, DivMod
<1> HIDE DEF d, r
<1>3. CASE r = 0
  BY <1>3 DEF r, m
<1>4. CASE r # 0
  <2>1. r \in 1 .. z
    BY <1>2, <1>4
  <2>2. w # 0
    <3>1. z * d \in Nat
      BY <1>2
    <3>2. m # 0
      BY <1>2, <2>1, <3>1
    <3> QED BY <3>2 DEF m
  <2>3. Place(w, z, z) = m
    <3>1. (w - 1) * z + z = w * z
      OBVIOUS
    <3> QED BY <3>1 DEF Place, m
  <2>4. Place(d + 1, r, z) = m
    <3>1. ((d + 1) - 1) * z = z * d
      BY <1>2
    <3> QED BY <1>2, <3>1 DEF Place
  <2>5. w \in Nat \ {0} /\ d + 1 \in Nat \ {0} /\ z \in 1 .. z
    BY <1>2, <2>2
  <2>6. r = z
    BY <2>1, <2>3, <2>4, <2>5, PlaceUnique
  <2> QED BY <1>2, <2>6
<1> QED BY <1>3, <1>4

\* What two numbers divide together, the second one does alone.
LEMMA FactorDivides ==
  ASSUME NEW n \in Nat, NEW a \in Nat \ {0}, NEW b \in Nat \ {0}, n % (a * b) = 0
  PROVE  n % b = 0 /\ (n \div b) % a = 0 /\ (n # 0 => n \div b \in Nat \ {0})
<1> DEFINE p == a * b
           d == n \div p
           e == a * d
           f == n \div b
           r == n % b
<1>1. p \in Nat \ {0}
  OBVIOUS
<1>2. d \in Nat /\ n = p * d
  <2>1. n % p = 0
    OBVIOUS
  <2> HIDE DEF p, d
  <2>2. n \div p \in Nat /\ n = p * (n \div p) + (n % p)
    BY <1>1, DivMod
  <2>3. p * d \in Nat
    BY <1>1, <2>2 DEF d
  <2> QED BY <2>1, <2>2, <2>3 DEF d
<1> HIDE DEF d
<1>3. e \in Nat /\ n = e * b
  <2>1. e \in Nat
    BY <1>2
  <2>2. p * d = e * b
    BY <1>2
  <2> QED BY <1>2, <2>1, <2>2
<1> HIDE DEF e
<1>4. n % b = 0
  BY <1>3, ProductMod
<1>5. f \in Nat /\ n = b * f
  BY <1>4, DivMod
<1> HIDE DEF f
<1>6. e = f
  <2>1. b * f = f * b
    BY <1>5
  <2>2. e * b = f * b
    BY <1>3, <1>5, <2>1
  <2>3. Place(e + 1, b, b) = e * b + b /\ Place(f + 1, b, b) = f * b + b
    BY <1>3, <1>5 DEF Place
  <2>4. e + 1 \in Nat \ {0} /\ f + 1 \in Nat \ {0} /\ b \in 1 .. b
    BY <1>3, <1>5
  <2>5. e + 1 = f + 1
    BY <2>2, <2>3, <2>4, PlaceUnique
  <2> QED BY <1>3, <1>5, <2>5
<1>7. f % a = 0
  <2>1. f = d * a
    BY <1>2, <1>6 DEF e
  <2> QED BY <1>2, <2>1, ProductMod
<1>8. n # 0 => f # 0
  BY <1>5
<1> QED BY <1>4, <1>5, <1>7, <1>8 DEF f

\* Every chunk has z elements.
IsChunks(cs, q, w, z) ==
  \A c \in 1 .. w :
    /\ Len(cs[c]) = z
    /\ \A i \in 1 .. z : Place(c, i, z) \in 1 .. Len(q) /\ cs[c][i] = q[Place(c, i, z)]

\* Chunks are pieces of one size.
LEMMA ChunkPieces ==
  ASSUME NEW S, NEW q \in Seq(S), NEW w \in Nat \ {0}, q # <<>>, Len(q) % w = 0
  PROVE  /\ Len(q) \div w \in Nat \ {0}
         /\ Chunk(q, w) \in [1 .. w -> Seq(S)]
         /\ IsChunks(Chunk(q, w), q, w, Len(q) \div w)
         /\ Concat(Chunk(q, w)) = q
<1> DEFINE m == Len(q)
           z == m \div w
           p == SplitBySize(q, z)
           C == Pieces(m, z)
<1>1. m \in Nat /\ m # 0
  OBVIOUS
<1>2. z \in Nat /\ m = w * z
  <2>1. m % w = 0
    OBVIOUS
  <2> HIDE DEF m, z
  <2>2. m \div w \in Nat /\ m = w * (m \div w) + (m % w)
    BY <1>1, DivMod
  <2>3. w * z \in Nat
    BY <2>2 DEF z
  <2> QED BY <2>1, <2>2, <2>3 DEF z
<1> HIDE DEF z
<1>3. z # 0
  BY <1>1, <1>2
<1> HIDE DEF m
<1>4. m % z = 0
  BY <1>2, <1>3, ProductMod
<1>5. C = w
  <2>1. C \in Nat /\ m = C * z
    BY <1>1, <1>2, <1>3, <1>4, PiecesBounds
  <2> HIDE DEF C
  <2>2. w * z = C * z
    BY <1>2, <2>1
  <2>3. Place(w + 1, z, z) = w * z + z /\ Place(C + 1, z, z) = C * z + z
    BY <2>1, <1>2 DEF Place
  <2>4. w + 1 \in Nat \ {0} /\ C + 1 \in Nat \ {0} /\ z \in 1 .. z
    BY <1>2, <1>3, <2>1
  <2>5. w + 1 = C + 1
    BY <1>2, <1>3, <2>2, <2>3, <2>4, PlaceUnique
  <2> QED BY <2>1, <2>5
<1>6. /\ p \in [1 .. C -> Seq(S)]
      /\ \A c \in 1 .. C : IsPiece(p[c], q, z, m, c)
      /\ Concat(p) = q
  BY <1>2, <1>3, SplitPieces DEF m
<1>7. Chunk(q, w) = p
  <2> DEFINE ends == [c \in 1 .. w |-> IF c * z < m THEN c * z ELSE m]
  <2>1. \A c \in 1 .. w : c * z = IF c * z < m THEN c * z ELSE m
    <3> SUFFICES ASSUME NEW c \in 1 .. w, ~(c * z < m) PROVE c * z = m
      OBVIOUS
    <3>1. c * z \in Nat /\ c * z <= w * z
      BY <1>2, ProductMonotonic
    <3> QED BY <1>1, <1>2, <3>1
  <2>2. p = [c \in 1 .. w |-> SubSeq(q, (c - 1) * z + 1, IF c * z < m THEN c * z ELSE m)]
    BY <1>5 DEF SplitBySize, Pieces, m
  <2>3. Chunk(q, w) = [c \in 1 .. w |-> SubSeq(q, (c - 1) * z + 1, c * z)]
    BY DEF Chunk, z, m
  <2> HIDE DEF p
  <2> QED BY <2>1, <2>2, <2>3
<1>8. \A c \in 1 .. w :
        /\ Len(p[c]) = z
        /\ \A i \in 1 .. z : Place(c, i, z) \in 1 .. m /\ p[c][i] = q[Place(c, i, z)]
  <2> HIDE DEF p
  <2> QED BY <1>4, <1>5, <1>6 DEF IsPiece
<1> HIDE DEF p
<1>9. z = Len(q) \div w /\ m = Len(q)
  BY DEF z, m
<1>10. Chunk(q, w) \in [1 .. w -> Seq(S)] /\ Concat(Chunk(q, w)) = q
  BY <1>5, <1>6, <1>7
<1>11. IsChunks(Chunk(q, w), q, w, z)
  BY <1>7, <1>8, <1>9 DEF IsChunks
<1> QED BY <1>2, <1>3, <1>9, <1>10, <1>11

-----------------------------------------------------------------------------
(* Where the sequences of a list lie when they are concatenated.             *)

(* O[k] elements come before sequence k + 1.                                 *)
Offsets(O, seqs, n) ==
  /\ O \in [0 .. n -> Nat] /\ O[0] = 0
  /\ \A k \in 1 .. n : O[k] = O[k - 1] + Len(seqs[k])

\* So q is the sequences of the list, one after the other.
LiesAt(O, q, seqs, n) ==
  /\ Offsets(O, seqs, n)
  /\ Len(q) = O[n]
  /\ \A k \in 1 .. n : \A j \in 1 .. Len(seqs[k]) :
       O[k - 1] + j \in 1 .. O[n] /\ q[O[k - 1] + j] = seqs[k][j]
  /\ \A p \in 1 .. O[n] : \E k \in 1 .. n : \E j \in 1 .. Len(seqs[k]) : p = O[k - 1] + j

\* FlattenSeq lays a list out in this way.
LEMMA FlattenOffsets ==
  ASSUME NEW S, NEW n \in Nat, NEW seqs \in [1 .. n -> Seq(S)]
  PROVE  FlattenSeq(seqs) \in Seq(S) /\ \E O : LiesAt(O, FlattenSeq(seqs), seqs, n)
<1>1. PICK F \in [0 .. n -> Seq(S)] :
           /\ F[0] = <<>>
           /\ \A k \in 1 .. n : F[k] = F[k - 1] \o seqs[k]
           /\ F[n] = FlattenSeq(seqs)
  BY FlattenParts
<1> DEFINE O == [k \in 0 .. n |-> Len(F[k])]
           Holds(m) == /\ \A k \in 1 .. m : \A j \in 1 .. Len(seqs[k]) :
                            O[k - 1] + j \in 1 .. O[m] /\ F[m][O[k - 1] + j] = seqs[k][j]
                       /\ \A p \in 1 .. O[m] : \E k \in 1 .. m : \E j \in 1 .. Len(seqs[k]) : p = O[k - 1] + j
           T == {m \in 0 .. n : Holds(m)}
<1>2. \A k \in 0 .. n : O[k] = Len(F[k]) /\ O[k] \in Nat /\ F[k] \in Seq(S)
  BY <1>1
<1>3. \A k \in 1 .. n : seqs[k] \in Seq(S) /\ Len(seqs[k]) \in Nat
  OBVIOUS
<1>4. ASSUME NEW k \in 1 .. n
      PROVE  /\ O[k] = O[k - 1] + Len(seqs[k])
             /\ \A p \in 1 .. O[k] : F[k][p] = IF p <= O[k - 1] THEN F[k - 1][p]
                                                                ELSE seqs[k][p - O[k - 1]]
  <2>1. k \in 0 .. n /\ k - 1 \in 0 .. n
    OBVIOUS
  <2>2. F[k] = F[k - 1] \o seqs[k] /\ F[k - 1] \in Seq(S) /\ seqs[k] \in Seq(S)
    BY <1>1, <1>3, <2>1
  <2>3. Len(F[k - 1]) = O[k - 1] /\ Len(F[k]) = O[k]
    BY <1>2, <2>1
  <2> HIDE DEF O
  <2> QED BY <2>2, <2>3, ConcatElements
<1>5. O[0] = 0
  BY <1>1, <1>2
<1>6. O \in [0 .. n -> Nat]
  BY <1>2
<1> HIDE DEF O
<1>7. 0 \in T
  <2>1. \A k \in 1 .. 0 : FALSE
    OBVIOUS
  <2> QED BY <1>5, <2>1
<1>8. ASSUME NEW m \in 1 .. n, m - 1 \in T PROVE m \in T
  <2>1. Holds(m - 1)
    BY <1>8
  <2>2. m - 1 \in 0 .. n /\ m \in 0 .. n /\ O[m] = O[m - 1] + Len(seqs[m])
    BY <1>4
  <2>3. O[m - 1] \in Nat /\ O[m] \in Nat /\ Len(seqs[m]) \in Nat
    BY <1>2, <1>3, <2>2
  <2>4. ASSUME NEW k \in 1 .. m, NEW j \in 1 .. Len(seqs[k])
        PROVE  O[k - 1] + j \in 1 .. O[m] /\ F[m][O[k - 1] + j] = seqs[k][j]
    <3>1. k - 1 \in 0 .. n /\ k \in 1 .. n
      OBVIOUS
    <3>2. O[k - 1] \in Nat /\ Len(seqs[k]) \in Nat
      BY <1>2, <1>3, <3>1
    <3>3. CASE k = m
      <4> DEFINE a == O[m - 1]
      <4>1. a \in Nat /\ O[m] = a + Len(seqs[m]) /\ j \in 1 .. Len(seqs[m]) /\ O[k - 1] = a
        BY <2>2, <2>3, <3>3
      <4> HIDE DEF a
      <4>2. O[k - 1] + j = a + j /\ a + j \in 1 .. O[m] /\ ~(a + j <= a) /\ (a + j) - a = j
        BY <2>3, <4>1
      <4>3. F[m][a + j] = IF a + j <= a THEN F[m - 1][a + j] ELSE seqs[m][(a + j) - a]
        BY <1>4, <4>2 DEF a
      <4> QED BY <3>3, <4>2, <4>3
    <3>4. CASE k # m
      <4>1. k \in 1 .. (m - 1)
        BY <3>4
      <4>2. O[k - 1] + j \in 1 .. O[m - 1] /\ F[m - 1][O[k - 1] + j] = seqs[k][j]
        BY <2>1, <4>1
      <4> DEFINE a == O[k - 1] + j
                 b == O[m - 1]
      <4>3. a \in 1 .. b /\ b \in Nat /\ O[m] = b + Len(seqs[m])
        BY <2>2, <2>3, <4>2
      <4> HIDE DEF a, b
      <4>4. a \in 1 .. O[m] /\ a <= b
        BY <2>3, <4>3
      <4>5. F[m][a] = F[m - 1][a]
        BY <1>4, <4>4 DEF b
      <4> QED BY <4>2, <4>4, <4>5 DEF a
    <3> QED BY <3>3, <3>4
  <2>5. ASSUME NEW p \in 1 .. O[m]
        PROVE  \E k \in 1 .. m : \E j \in 1 .. Len(seqs[k]) : p = O[k - 1] + j
    <3>1. CASE p <= O[m - 1]
      <4>1. p \in 1 .. O[m - 1]
        BY <2>3, <3>1
      <4>2. PICK k \in 1 .. (m - 1) : \E j \in 1 .. Len(seqs[k]) : p = O[k - 1] + j
        BY <2>1, <4>1
      <4>3. k \in 1 .. m
        OBVIOUS
      <4> QED BY <4>2, <4>3
    <3>2. CASE ~(p <= O[m - 1])
      <4>1. p - O[m - 1] \in 1 .. Len(seqs[m]) /\ p = O[m - 1] + (p - O[m - 1])
        BY <2>2, <2>3, <3>2, SMTT(30)
      <4>2. m \in 1 .. m
        OBVIOUS
      <4> QED BY <4>1, <4>2
    <3> QED BY <3>1, <3>2
  <2> QED BY <2>2, <2>4, <2>5
<1>9. \A m \in 0 .. n : m \in T
  <2> HIDE DEF T
  <2> QED BY <1>7, <1>8, UpTo
<1>10. Holds(n)
  BY <1>9
<1>11. Offsets(O, seqs, n)
  BY <1>4, <1>5, <1>6 DEF Offsets
<1>12. FlattenSeq(seqs) \in Seq(S) /\ Len(FlattenSeq(seqs)) = O[n]
  BY <1>1, <1>2
<1>13. LiesAt(O, FlattenSeq(seqs), seqs, n)
  BY <1>1, <1>10, <1>11, <1>12 DEF LiesAt
<1> QED BY <1>12, <1>13

SameLengths(seqs, other, n) == \A k \in 1 .. n : Len(other[k]) = Len(seqs[k])

\* Lists of sequences of the same lengths have the same offsets.
LEMMA OffsetsOfLengths ==
  ASSUME NEW n \in Nat, NEW seqs, NEW other, SameLengths(seqs, other, n),
         NEW O, Offsets(O, seqs, n), NEW P, Offsets(P, other, n)
  PROVE  \A k \in 0 .. n : P[k] = O[k]
<1> DEFINE T == {m \in 0 .. n : P[m] = O[m]}
<1>1. 0 \in T
  BY DEF Offsets
<1>2. ASSUME NEW m \in 1 .. n, m - 1 \in T PROVE m \in T
  <2>1. O[m] = O[m - 1] + Len(seqs[m]) /\ P[m] = P[m - 1] + Len(seqs[m]) /\ P[m - 1] = O[m - 1]
    BY <1>2 DEF Offsets, SameLengths
  <2> QED BY <2>1
<1>3. \A m \in 0 .. n : m \in T
  <2> HIDE DEF T
  <2> QED BY <1>1, <1>2, UpTo
<1> QED BY <1>3

(* Concatenated sequences of one size are its blocks.                        *)
IsLaid(q, seqs, n, z) ==
  /\ Len(q) = n * z
  /\ \A k \in 1 .. n : \A j \in 1 .. z : q[Place(k, j, z)] = seqs[k][j]

\* FlattenSeq lays sequences of one size out as blocks.
LEMMA FlattenPlaces ==
  ASSUME NEW S, NEW n \in Nat, NEW z \in Nat, NEW seqs \in [1 .. n -> Seq(S)],
         \A k \in 1 .. n : Len(seqs[k]) = z
  PROVE  FlattenSeq(seqs) \in Seq(S) /\ IsLaid(FlattenSeq(seqs), seqs, n, z)
<1>1. FlattenSeq(seqs) \in Seq(S) /\ \E O : LiesAt(O, FlattenSeq(seqs), seqs, n)
  BY FlattenOffsets
<1>2. PICK O : LiesAt(O, FlattenSeq(seqs), seqs, n)
  BY <1>1
<1> DEFINE T == {m \in 0 .. n : O[m] = m * z}
<1>3. 0 \in T
  <2>1. 0 * z = 0
    OBVIOUS
  <2> QED BY <1>2, <2>1 DEF Offsets, LiesAt
<1>4. ASSUME NEW m \in 1 .. n, m - 1 \in T PROVE m \in T
  <2>1. O[m] = O[m - 1] + z /\ O[m - 1] = (m - 1) * z
    BY <1>2, <1>4 DEF Offsets, LiesAt
  <2>2. (m - 1) * z + z = m * z
    OBVIOUS
  <2> QED BY <2>1, <2>2
<1>5. \A m \in 0 .. n : m \in T
  <2> HIDE DEF T
  <2> QED BY <1>3, <1>4, UpTo
<1>6. \A m \in 0 .. n : O[m] = m * z
  BY <1>5
<1>7. \A k \in 1 .. n : \A j \in 1 .. z : O[k - 1] + j = Place(k, j, z)
  <2> SUFFICES ASSUME NEW k \in 1 .. n, NEW j \in 1 .. z PROVE O[k - 1] + j = Place(k, j, z)
    OBVIOUS
  <2>1. k - 1 \in 0 .. n
    OBVIOUS
  <2>2. O[k - 1] = (k - 1) * z
    BY <1>6, <2>1
  <2> QED BY <2>2 DEF Place
<1>8. Len(FlattenSeq(seqs)) = n * z
  <2>1. n \in 0 .. n
    OBVIOUS
  <2> QED BY <1>6, <1>2, <2>1 DEF LiesAt
<1>9. \A k \in 1 .. n : \A j \in 1 .. z : FlattenSeq(seqs)[O[k - 1] + j] = seqs[k][j]
  BY <1>2 DEF LiesAt
<1> QED BY <1>1, <1>7, <1>8, <1>9 DEF IsLaid

(* Lists of sequences of the same lengths: what stands at one position of    *)
(* both concatenations stands at one place of both lists.                    *)
SameShape(q, r, seqs, other, n) ==
  /\ Len(r) = Len(q)
  /\ \A p \in 1 .. Len(q) : \E k \in 1 .. n : \E j \in 1 .. Len(seqs[k]) :
       q[p] = seqs[k][j] /\ r[p] = other[k][j]

\* FlattenSeq keeps the places of such lists together.
LEMMA FlattenAlike ==
  ASSUME NEW S, NEW R, NEW n \in Nat, NEW seqs \in [1 .. n -> Seq(S)], NEW other \in [1 .. n -> Seq(R)],
         \A k \in 1 .. n : Len(other[k]) = Len(seqs[k])
  PROVE  FlattenSeq(other) \in Seq(R) /\ SameShape(FlattenSeq(seqs), FlattenSeq(other), seqs, other, n)
<1>1. FlattenSeq(seqs) \in Seq(S) /\ \E O : LiesAt(O, FlattenSeq(seqs), seqs, n)
  BY FlattenOffsets
<1>2. PICK O : LiesAt(O, FlattenSeq(seqs), seqs, n)
  BY <1>1
<1>3. FlattenSeq(other) \in Seq(R) /\ \E P : LiesAt(P, FlattenSeq(other), other, n)
  BY FlattenOffsets
<1>4. PICK P : LiesAt(P, FlattenSeq(other), other, n)
  BY <1>3
<1>5. \A k \in 0 .. n : P[k] = O[k]
  <2>1. Offsets(O, seqs, n) /\ Offsets(P, other, n)
    BY <1>2, <1>4 DEF LiesAt
  <2>2. SameLengths(seqs, other, n)
    BY DEF SameLengths
  <2> QED BY ONLY <2>1, <2>2, n \in Nat, OffsetsOfLengths
<1>6. n \in 0 .. n
  OBVIOUS
<1>7. ASSUME NEW p \in 1 .. Len(FlattenSeq(seqs))
      PROVE  \E k \in 1 .. n : \E j \in 1 .. Len(seqs[k]) :
               FlattenSeq(seqs)[p] = seqs[k][j] /\ FlattenSeq(other)[p] = other[k][j]
  <2>1. PICK k \in 1 .. n : \E j \in 1 .. Len(seqs[k]) : p = O[k - 1] + j
    BY <1>2 DEF LiesAt
  <2>2. PICK j \in 1 .. Len(seqs[k]) : p = O[k - 1] + j
    BY <2>1
  <2>3. k - 1 \in 0 .. n
    OBVIOUS
  <2>4. P[k - 1] = O[k - 1] /\ j \in 1 .. Len(other[k])
    BY <1>5, <2>3
  <2> QED BY <1>2, <1>4, <2>4, <2>2, ZenonT(40) DEF LiesAt
<1>8. Len(FlattenSeq(other)) = Len(FlattenSeq(seqs))
  BY <1>5, <1>6, <1>2, <1>4 DEF LiesAt
<1> QED BY <1>3, <1>7, <1>8 DEF SameShape
=============================================================================
