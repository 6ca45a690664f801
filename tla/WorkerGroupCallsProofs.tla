------------------------ MODULE WorkerGroupCallsProofs ------------------------
(***************************************************************************)
(* Proofs about the calls on the data parallel workers, for every number   *)
(* of ranks, rows and tokens and every size of the batches.                *)
(***************************************************************************)
EXTENDS WorkerGroupCallsProperties, SequenceLemmas

-----------------------------------------------------------------------------
(* Tokens.                                                                 *)

\* Rows have tokens, by which they are weighed.
Lengths(L, n) == L \in [1 .. n -> Nat \ {0}]

\* The tokens of a bucket, added up one row after the other.
Runs(g, b, L, m) ==
  /\ g \in [0 .. m -> Nat]
  /\ g[0] = 0
  /\ \A i \in 1 .. m : g[i] = g[i - 1] + L[b[i]]
  /\ Tokens(b, L) = g[m]

LEMMA RunningTokens ==
  ASSUME NEW n \in Nat, NEW L, Lengths(L, n), NEW b \in Seq(1 .. n)
  PROVE  \E g : Runs(g, b, L, Len(b))
<1> DEFINE s == Reorder(L, b)
           m == Len(b)
<1>1. m \in Nat /\ DOMAIN b = 1 .. m /\ \A i \in 1 .. m : b[i] \in 1 .. n
  OBVIOUS
<1>2. \A i \in 1 .. m : L[b[i]] \in Nat
  BY <1>1 DEF Lengths
<1> HIDE DEF m
<1>3. s = [i \in 1 .. m |-> L[b[i]]]
  BY <1>1 DEF Reorder
<1>4. s \in Seq(Nat) /\ Len(s) = m /\ \A i \in 1 .. m : s[i] = L[b[i]]
  BY <1>1, <1>2, <1>3
<1>5. Tokens(b, L) = FoldLeft(+, 0, s)
  BY DEF Tokens
<1> HIDE DEF s
<1>6. \E g \in [0 .. Len(s) -> Nat] :
           /\ g[0] = 0
           /\ \A i \in 1 .. Len(s) : g[i] = g[i - 1] + s[i]
           /\ FoldLeft(+, 0, s) = g[Len(s)]
  BY <1>4, RunningSum
<1>7. \E g : Runs(g, b, L, m)
  BY <1>4, <1>5, <1>6 DEF Runs
<1> QED BY <1>7 DEF m

\* A bucket with rows has tokens.
LEMMA TokensCount ==
  ASSUME NEW n \in Nat, NEW L, Lengths(L, n), NEW b \in Seq(1 .. n)
  PROVE  Tokens(b, L) \in Nat /\ (Tokens(b, L) = 0 <=> b = <<>>)
<1> DEFINE m == Len(b)
<1>1. PICK g \in [0 .. m -> Nat] :
         g[0] = 0 /\ (\A i \in 1 .. m : g[i] = g[i - 1] + L[b[i]]) /\ Tokens(b, L) = g[m]
  BY RunningTokens DEF Runs
<1>2. m \in Nat /\ (m = 0 <=> b = <<>>) /\ \A i \in 1 .. m : b[i] \in 1 .. n
  OBVIOUS
<1>3. g[m] \in Nat /\ Tokens(b, L) = g[m]
  BY <1>1
<1>4. CASE m = 0
  BY <1>1, <1>2, <1>4
<1>5. CASE m # 0
  <2>1. m \in 1 .. m /\ m - 1 \in 0 .. m
    BY <1>2, <1>5
  <2>2. L[b[m]] \in Nat \ {0}
    BY <1>2, <2>1 DEF Lengths
  <2>3. g[m] = g[m - 1] + L[b[m]] /\ g[m - 1] \in Nat
    BY <1>1, <2>1
  <2>4. g[m] # 0
    <3> DEFINE x == g[m - 1]
               y == L[b[m]]
    <3>1. x \in Nat /\ y \in Nat \ {0} /\ g[m] = x + y
      BY <2>2, <2>3
    <3> HIDE DEF x, y
    <3> QED BY <3>1
  <2> QED BY <1>2, <1>3, <1>5, <2>4
<1> QED BY <1>4, <1>5

\* The tokens of two buckets add up.
LEMMA TokensConcat ==
  ASSUME NEW n \in Nat, NEW L, Lengths(L, n), NEW b \in Seq(1 .. n), NEW c \in Seq(1 .. n)
  PROVE  Tokens(b \o c, L) = Tokens(b, L) + Tokens(c, L)
<1> DEFINE u == b \o c
           m == Len(b)
           M == Len(c)
<1>1. /\ m \in Nat /\ M \in Nat /\ u \in Seq(1 .. n) /\ Len(b) = m /\ Len(c) = M
      /\ \A i \in 1 .. M : c[i] \in 1 .. n
  OBVIOUS
<1> HIDE DEF m, M
<1>2. Len(u) = m + M /\ \A i \in 1 .. (m + M) : u[i] = IF i <= m THEN b[i] ELSE c[i - m]
  <2>1. Joined(b \o c, b, c, m, M)
    BY <1>1, ConcatJoins
  <2> QED BY <2>1 DEF Joined
<1> HIDE DEF u
<1>3. PICK g : Runs(g, b, L, m)
  BY <1>1, RunningTokens
<1>4. PICK h : Runs(h, c, L, M)
  BY <1>1, RunningTokens
<1>5. PICK f : Runs(f, u, L, m + M)
  <2>1. \E f : Runs(f, u, L, Len(u))
    BY <1>1, RunningTokens
  <2> QED BY <1>2, <2>1
<1> USE DEF Runs
<1> DEFINE T == {i \in 0 .. m : f[i] = g[i]}
<1>6. 0 \in T
  BY <1>1, <1>3, <1>5
<1>7. ASSUME NEW i \in 1 .. m, i - 1 \in T PROVE i \in T
  <2>1. i \in 1 .. (m + M) /\ i <= m /\ i \in 0 .. m
    BY <1>1
  <2>2. f[i] = f[i - 1] + L[u[i]] /\ u[i] = b[i] /\ g[i] = g[i - 1] + L[b[i]] /\ f[i - 1] = g[i - 1]
    BY <1>2, <1>3, <1>5, <1>7, <2>1
  <2> QED BY <2>1, <2>2
<1>8. f[m] = g[m]
  <2> HIDE DEF T
  <2>1. \A i \in 0 .. m : i \in T
    BY <1>1, <1>6, <1>7, UpTo
  <2> QED BY <1>1, <2>1 DEF T
<1> DEFINE U == {i \in 0 .. M : f[m + i] = g[m] + h[i]}
<1>9. 0 \in U
  BY <1>1, <1>3, <1>4, <1>8
<1>10. ASSUME NEW i \in 1 .. M, i - 1 \in U PROVE i \in U
  <2>1. m + i \in 1 .. (m + M) /\ ~(m + i <= m) /\ i \in 0 .. M /\ (m + i) - 1 = m + (i - 1) /\ (m + i) - m = i
    BY <1>1
  <2>2. /\ f[m + i] = f[m + (i - 1)] + L[u[m + i]] /\ u[m + i] = c[i]
        /\ h[i] = h[i - 1] + L[c[i]] /\ f[m + (i - 1)] = g[m] + h[i - 1]
    <3>1. f[m + i] = f[(m + i) - 1] + L[u[m + i]]
      BY <1>5, <2>1
    <3>2. u[m + i] = c[i]
      BY <1>2, <2>1
    <3>3. f[m + (i - 1)] = g[m] + h[i - 1]
      BY <1>10
    <3> QED BY <1>4, <2>1, <3>1, <3>2, <3>3
  <2> DEFINE x == g[m]
             y == h[i - 1]
             z == L[c[i]]
  <2>3. x \in Nat /\ y \in Nat /\ z \in Nat
    <3>1. i - 1 \in 0 .. M /\ m \in 0 .. m
      BY <1>1
    <3>2. c[i] \in 1 .. n
      BY <1>1
    <3> QED BY <1>3, <1>4, <3>1, <3>2 DEF Lengths
  <2>4. f[m + i] = (x + y) + z /\ h[i] = y + z
    BY <2>2
  <2> HIDE DEF x, y, z
  <2>5. f[m + i] = x + h[i]
    BY <2>3, <2>4
  <2> QED BY <2>1, <2>5 DEF x
<1>11. f[m + M] = g[m] + h[M]
  <2> HIDE DEF U
  <2>1. \A i \in 0 .. M : i \in U
    BY <1>1, <1>9, <1>10, UpTo
  <2> QED BY <1>1, <2>1 DEF U
<1> QED BY <1>3, <1>4, <1>5, <1>11 DEF u

-----------------------------------------------------------------------------
(* Sorting.                                                                *)

\* What the sorted list has at its k-th place, when B says which elements
\* come before which: the ones of equal weight stay in their order.
Behind(B, n) == {x \in (1 .. n) \X (1 .. n) : x \in B \/ (x[1] <= x[2] /\ <<x[2], x[1]>> \notin B)}

AtPlace(B, n) == [k \in 1 .. n |-> CHOOSE i \in 1 .. n : PlaceIn(Behind(B, n), n, i) = k]

Permutes(p, k) ==
  /\ p \in [1 .. k -> 1 .. k]
  /\ \A i, j \in 1 .. k : p[i] = p[j] => i = j
  /\ \A j \in 1 .. k : \E i \in 1 .. k : p[i] = j

LEMMA BehindPlaces ==
  ASSUME NEW n \in Nat, NEW B, NEW i \in 1 .. n
  PROVE  PlaceIn(Behind(B, n), n, i) =
           Cardinality({j \in 1 .. n : <<j, i>> \in B \/ (j <= i /\ <<i, j>> \notin B)})
<1>1. {j \in 1 .. n : <<j, i>> \in Behind(B, n)}
        = {j \in 1 .. n : <<j, i>> \in B \/ (j <= i /\ <<i, j>> \notin B)}
  BY DEF Behind
<1> QED BY <1>1 DEF PlaceIn

\* Weights that are compared one after the other, ties kept in order.
Before3(t, l, h, i, j) ==
  \/ t[i] < t[j]
  \/ t[i] = t[j] /\ l[i] < l[j]
  \/ t[i] = t[j] /\ l[i] = l[j] /\ h[i] < h[j]

LEMMA WeightsOrder ==
  ASSUME NEW n \in Nat, NEW t \in [1 .. n -> Int], NEW l \in [1 .. n -> Int],
         NEW h \in [1 .. n -> Int], NEW B,
         \A i, j \in 1 .. n : <<i, j>> \in B <=> Before3(t, l, h, i, j)
  PROVE  Orders(Behind(B, n), n)
<1> DEFINE R == Behind(B, n)
           A(i, j) == Before3(t, l, h, i, j) \/ (i <= j /\ ~Before3(t, l, h, j, i))
<1>1. \A i, j \in 1 .. n : <<i, j>> \in R <=> A(i, j)
  BY DEF Behind
<1> HIDE DEF R
<1>2. ASSUME NEW i \in 1 .. n, NEW j \in 1 .. n PROVE A(i, j) \/ A(j, i)
  BY DEF Before3
<1>3. ASSUME NEW i \in 1 .. n, NEW j \in 1 .. n, A(i, j), A(j, i) PROVE i = j
  BY <1>3 DEF Before3
<1>4. ASSUME NEW i \in 1 .. n, NEW j \in 1 .. n, NEW k \in 1 .. n, A(i, j), A(j, k)
      PROVE  A(i, k)
  BY <1>4, SMTT(30) DEF Before3
<1> HIDE DEF A
<1>5. Orders(R, n)
  BY <1>1, <1>2, <1>3, <1>4 DEF Orders
<1> QED BY <1>5 DEF R

Buckets(k, n) == [1 .. k -> Seq(1 .. n)]

Ordered(s, k, L) == \A i, j \in 1 .. k : i < j => Tokens(s[i], L) >= Tokens(s[j], L)

\* The buckets of a state are sorted by their tokens, heaviest first.
LEMMA HeaviestSorts ==
  ASSUME NEW n \in Nat, NEW L, Lengths(L, n), NEW k \in Nat, NEW b \in Buckets(k, n)
  PROVE  \E p : /\ Permutes(p, k)
                /\ HeaviestFirst(b, L) = [i \in 1 .. k |-> b[p[i]]]
                /\ Ordered(HeaviestFirst(b, L), k, L)
<1> DEFINE D == 1 .. k
           B == {x \in D \X D : Lighter(b[x[2]], b[x[1]], L)}
           p == AtPlace(B, k)
           t == [i \in D |-> 0 - Tokens(b[i], L)]
           l == [i \in D |-> 0 - Len(b[i])]
           h == [i \in D |-> IF b[i] = <<>> THEN 0 ELSE 0 - b[i][1]]
<1>1. ASSUME NEW i \in D
      PROVE  /\ Tokens(b[i], L) \in Nat /\ Len(b[i]) \in Nat
             /\ (Len(b[i]) = 0 <=> b[i] = <<>>) /\ (b[i] # <<>> => b[i][1] \in Nat)
  <2> DEFINE c == b[i]
  <2>1. c \in Seq(1 .. n)
    BY DEF Buckets
  <2> HIDE DEF c
  <2>2. Tokens(c, L) \in Nat
    BY <2>1, TokensCount
  <2>3. Len(c) \in Nat /\ (Len(c) = 0 <=> c = <<>>) /\ (c # <<>> => c[1] \in Nat)
    BY <2>1
  <2> QED BY <2>2, <2>3 DEF c
<1>2. t \in [D -> Int] /\ l \in [D -> Int] /\ h \in [D -> Int]
  BY <1>1
<1>3. \A i \in D : /\ t[i] = 0 - Tokens(b[i], L) /\ l[i] = 0 - Len(b[i])
                   /\ h[i] = IF b[i] = <<>> THEN 0 ELSE 0 - b[i][1]
  OBVIOUS
<1> HIDE DEF t, l, h
<1>4. ASSUME NEW i \in D, NEW j \in D
      PROVE  Lighter(b[j], b[i], L) <=> Before3(t, l, h, i, j)
  <2>1. Lighter(b[j], b[i], L) <=>
          \/ Tokens(b[j], L) < Tokens(b[i], L)
          \/ Tokens(b[j], L) = Tokens(b[i], L) /\ Len(b[j]) < Len(b[i])
          \/ /\ Tokens(b[j], L) = Tokens(b[i], L) /\ Len(b[j]) = Len(b[i])
             /\ b[j] # <<>> /\ b[j][1] < b[i][1]
    BY DEF Lighter
  <2> DEFINE x == Tokens(b[i], L)
             y == Tokens(b[j], L)
             u == Len(b[i])
             v == Len(b[j])
             c == b[i][1]
             d == b[j][1]
  <2>2. /\ x \in Nat /\ y \in Nat /\ u \in Nat /\ v \in Nat
        /\ (u = 0 <=> b[i] = <<>>) /\ (v = 0 <=> b[j] = <<>>)
        /\ (u # 0 => c \in Nat) /\ (v # 0 => d \in Nat)
    BY <1>1
  <2>3. /\ t[i] = 0 - x /\ t[j] = 0 - y /\ l[i] = 0 - u /\ l[j] = 0 - v
        /\ h[i] = (IF u = 0 THEN 0 ELSE 0 - c) /\ h[j] = (IF v = 0 THEN 0 ELSE 0 - d)
    BY <1>1, <1>3
  <2>4. Lighter(b[j], b[i], L) <=> y < x \/ (y = x /\ v < u) \/ (y = x /\ v = u /\ v # 0 /\ d < c)
    BY <2>1, <2>2
  <2> HIDE DEF x, y, u, v, c, d
  <2>5. (y < x \/ (y = x /\ v < u) \/ (y = x /\ v = u /\ v # 0 /\ d < c)) <=> Before3(t, l, h, i, j)
    <3>1. CASE u = 0 \/ v = 0
      BY <2>2, <2>3, <3>1 DEF Before3
    <3>2. CASE u # 0 /\ v # 0
      BY <2>2, <2>3, <3>2 DEF Before3
    <3> QED BY <3>1, <3>2
  <2> QED BY <2>4, <2>5
<1>5. \A i, j \in D : <<i, j>> \in B <=> Lighter(b[j], b[i], L)
  OBVIOUS
<1> HIDE DEF B
<1>6. Orders(Behind(B, k), k)
  BY <1>2, <1>4, <1>5, WeightsOrder
<1>7. Arranges(p, Behind(B, k), k)
  BY <1>6, PlacesArrange DEF AtPlace
<1>8. HeaviestFirst(b, L) = [i \in 1 .. k |-> b[p[i]]]
  <2> DEFINE Spot(i) == Cardinality({j \in D : Lighter(b[i], b[j], L) \/ (j <= i /\ ~Lighter(b[j], b[i], L))})
  <2>1. DOMAIN b = D
    BY DEF Buckets
  <2> HIDE DEF D
  <2>2. HeaviestFirst(b, L) = [m \in DOMAIN b |-> b[CHOOSE i \in DOMAIN b :
          Cardinality({j \in DOMAIN b : Lighter(b[i], b[j], L) \/ (j <= i /\ ~Lighter(b[j], b[i], L))}) = m]]
    BY DEF HeaviestFirst, Sorted
  <2>3. HeaviestFirst(b, L) = [m \in D |-> b[CHOOSE i \in D : Spot(i) = m]]
    BY <2>1, <2>2
  <2>4. ASSUME NEW i \in D PROVE Spot(i) = PlaceIn(Behind(B, k), k, i)
    <3>1. {j \in D : Lighter(b[i], b[j], L) \/ (j <= i /\ ~Lighter(b[j], b[i], L))}
            = {j \in D : <<j, i>> \in B \/ (j <= i /\ <<i, j>> \notin B)}
      BY <1>5
    <3>2. PlaceIn(Behind(B, k), k, i) = Cardinality({j \in D : <<j, i>> \in B \/ (j <= i /\ <<i, j>> \notin B)})
      BY BehindPlaces DEF D
    <3> QED BY <3>1, <3>2
  <2> HIDE DEF Spot
  <2>5. ASSUME NEW m \in D PROVE (CHOOSE i \in D : Spot(i) = m) = p[m]
    <3>1. \A i : i \in D /\ Spot(i) = m <=> i \in D /\ PlaceIn(Behind(B, k), k, i) = m
      BY <2>4
    <3>2. (CHOOSE i \in D : Spot(i) = m) = (CHOOSE i \in D : PlaceIn(Behind(B, k), k, i) = m)
      BY <3>1
    <3> QED BY <3>2 DEF AtPlace, D
  <2> HIDE DEF p
  <2>6. HeaviestFirst(b, L) = [m \in D |-> b[p[m]]]
    BY <2>3, <2>5
  <2> QED BY <2>6 DEF D
<1> HIDE DEF p
<1>9. ASSUME NEW i \in D, NEW j \in D, i < j PROVE Tokens(b[p[i]], L) >= Tokens(b[p[j]], L)
  <2> DEFINE x == p[i]
             y == p[j]
  <2>1. x \in D /\ y \in D /\ <<x, y>> \in Behind(B, k)
    BY <1>7, <1>9 DEF Arranges
  <2> HIDE DEF x, y
  <2>2. Before3(t, l, h, x, y) \/ ~Before3(t, l, h, y, x)
    BY <1>4, <1>5, <2>1 DEF Behind
  <2>3. t[x] \in Int /\ t[y] \in Int
    BY <1>2, <2>1
  <2>4. t[x] <= t[y]
    BY <2>2, <2>3 DEF Before3
  <2>5. Tokens(b[x], L) \in Nat /\ Tokens(b[y], L) \in Nat
    BY <1>1, <2>1
  <2>6. t[x] = 0 - Tokens(b[x], L) /\ t[y] = 0 - Tokens(b[y], L)
    BY <1>3, <2>1
  <2>7. Tokens(b[x], L) >= Tokens(b[y], L)
    BY <2>4, <2>5, <2>6
  <2> QED BY <2>7 DEF x, y
<1>10. Permutes(p, k)
  BY <1>7 DEF Arranges, Permutes
<1>11. Ordered(HeaviestFirst(b, L), k, L)
  <2> DEFINE u == HeaviestFirst(b, L)
  <2>1. \A i \in D : u[i] = b[p[i]]
    BY <1>8
  <2> HIDE DEF u
  <2>2. Ordered(u, k, L)
    BY <1>9, <2>1 DEF Ordered
  <2> QED BY <2>2 DEF u
<1> QED BY <1>8, <1>10, <1>11

\* The rows sorted by their tokens are all the rows.
LEMMA ShortestEnumerates ==
  ASSUME NEW n \in Nat, NEW L, Lengths(L, n)
  PROVE  Enumerates(ShortestFirst(L), 1 .. n)
<1> DEFINE D == 1 .. n
           Sooner(i, j) == L[i] < L[j] \/ (L[i] = L[j] /\ i < j)
           B == {x \in D \X D : Sooner(x[1], x[2])}
           p == AtPlace(B, n)
           l == [i \in D |-> i]
           h == [i \in D |-> 0]
<1>1. DOMAIN L = D /\ \A i \in D : L[i] \in Nat
  BY DEF Lengths
<1>2. L \in [D -> Int] /\ l \in [D -> Int] /\ h \in [D -> Int] /\ \A i \in D : l[i] = i /\ h[i] = 0
  BY DEF Lengths
<1>3. \A i, j \in D : <<i, j>> \in B <=> Sooner(i, j)
  OBVIOUS
<1> HIDE DEF B
<1>4. ASSUME NEW i \in D, NEW j \in D PROVE <<i, j>> \in B <=> Before3(L, l, h, i, j)
  <2>1. Sooner(i, j) <=> Before3(L, l, h, i, j)
    BY <1>2 DEF Before3
  <2> HIDE DEF Sooner, l, h
  <2> QED BY <1>3, <2>1
<1> HIDE DEF l, h
<1>5. Orders(Behind(B, n), n)
  BY <1>2, <1>4, WeightsOrder
<1>6. Arranges(p, Behind(B, n), n)
  BY <1>5, PlacesArrange DEF AtPlace
<1>7. ShortestFirst(L) = [m \in 1 .. n |-> p[m]]
  <2> HIDE DEF D
  <2> DEFINE s == [i \in D |-> i]
             Spot(i) == Cardinality({j \in D : Sooner(j, i) \/ (j <= i /\ ~Sooner(i, j))})
  <2>1. ShortestFirst(L) = [m \in D |-> s[CHOOSE i \in D :
          Cardinality({j \in D : Sooner(s[j], s[i]) \/ (j <= i /\ ~Sooner(s[i], s[j]))}) = m]]
    <3>1. ShortestFirst(L) = Sorted(s, LAMBDA i, j : Sooner(i, j))
      BY <1>1 DEF ShortestFirst
    <3>2. DOMAIN s = D
      OBVIOUS
    <3> HIDE DEF s, Sooner
    <3>3. Sorted(s, LAMBDA i, j : Sooner(i, j)) = [m \in DOMAIN s |-> s[CHOOSE i \in DOMAIN s :
          Cardinality({j \in DOMAIN s : Sooner(s[j], s[i]) \/ (j <= i /\ ~Sooner(s[i], s[j]))}) = m]]
      BY DEF Sorted
    <3> QED BY <3>1, <3>2, <3>3
  <2>2. \A i \in D : s[i] = i
    OBVIOUS
  <2> HIDE DEF s, Sooner
  <2>3. ASSUME NEW i \in D
        PROVE  Cardinality({j \in D : Sooner(s[j], s[i]) \/ (j <= i /\ ~Sooner(s[i], s[j]))})
                 = PlaceIn(Behind(B, n), n, i)
    <3>1. {j \in D : Sooner(s[j], s[i]) \/ (j <= i /\ ~Sooner(s[i], s[j]))}
            = {j \in D : <<j, i>> \in B \/ (j <= i /\ <<i, j>> \notin B)}
      BY <1>3, <2>2
    <3>2. PlaceIn(Behind(B, n), n, i) = Cardinality({j \in D : <<j, i>> \in B \/ (j <= i /\ <<i, j>> \notin B)})
      BY BehindPlaces DEF D
    <3> QED BY <3>1, <3>2
  <2>4. ASSUME NEW m \in D
        PROVE  (CHOOSE i \in D : Cardinality({j \in D : Sooner(s[j], s[i]) \/ (j <= i /\ ~Sooner(s[i], s[j]))}) = m) = p[m]
    <3>1. \A i : i \in D /\ Cardinality({j \in D : Sooner(s[j], s[i]) \/ (j <= i /\ ~Sooner(s[i], s[j]))}) = m
                 <=> i \in D /\ PlaceIn(Behind(B, n), n, i) = m
      BY <2>3
    <3>2. (CHOOSE i \in D : Cardinality({j \in D : Sooner(s[j], s[i]) \/ (j <= i /\ ~Sooner(s[i], s[j]))}) = m)
            = (CHOOSE i \in D : PlaceIn(Behind(B, n), n, i) = m)
      BY <3>1
    <3> QED BY <3>2 DEF AtPlace, D
  <2>5. \A m \in D : p[m] \in D
    BY <1>6 DEF Arranges, D
  <2> HIDE DEF p
  <2>6. ShortestFirst(L) = [m \in D |-> s[p[m]]]
    BY <2>1, <2>4
  <2>7. [m \in D |-> s[p[m]]] = [m \in D |-> p[m]]
    BY <2>2, <2>5
  <2> QED BY <2>6, <2>7 DEF D
<1> HIDE DEF p
<1>8. p \in [1 .. n -> 1 .. n] /\ ShortestFirst(L) = p
  BY <1>6, <1>7 DEF Arranges
<1>9. p \in Seq(1 .. n) /\ Len(p) = n
  BY <1>8
<1> QED BY <1>6, <1>8, <1>9 DEF Arranges, Enumerates

\* A sorted bucket has the rows of the bucket.
LEMMA SortedBucket ==
  ASSUME NEW n \in Nat, NEW b \in Seq(1 .. n)
  PROVE  \E p : /\ Permutes(p, Len(b))
                /\ Sorted(b, <) = [i \in 1 .. Len(b) |-> b[p[i]]]
<1> DEFINE k == Len(b)
           D == 1 .. k
           B == {x \in D \X D : b[x[1]] < b[x[2]]}
           p == AtPlace(B, k)
           l == [i \in D |-> 0]
<1>1. k \in Nat /\ DOMAIN b = D /\ \A i \in D : b[i] \in 1 .. n
  OBVIOUS
<1> HIDE DEF k
<1>2. b \in [D -> Int] /\ l \in [D -> Int] /\ \A i \in D : l[i] = 0
  <2>1. \A i \in D : b[i] \in Int
    BY <1>1
  <2>2. b \in [1 .. Len(b) -> 1 .. n] /\ 1 .. n \subseteq Int
    OBVIOUS
  <2> QED BY <2>1, <2>2 DEF k
<1>3. \A i, j \in D : <<i, j>> \in B <=> b[i] < b[j]
  OBVIOUS
<1> HIDE DEF B
<1>4. ASSUME NEW i \in D, NEW j \in D PROVE <<i, j>> \in B <=> Before3(b, l, l, i, j)
  <2>1. b[i] < b[j] <=> Before3(b, l, l, i, j)
    BY <1>2 DEF Before3
  <2> HIDE DEF l
  <2> QED BY <1>3, <2>1
<1> HIDE DEF l
<1>5. Orders(Behind(B, k), k)
  BY <1>1, <1>2, <1>4, WeightsOrder
<1>6. Arranges(p, Behind(B, k), k)
  BY <1>1, <1>5, PlacesArrange DEF AtPlace
<1>7. Sorted(b, <) = [m \in 1 .. k |-> b[p[m]]]
  <2> HIDE DEF D
  <2> DEFINE Spot(i) == Cardinality({j \in D : b[j] < b[i] \/ (j <= i /\ ~(b[i] < b[j]))})
  <2>1. Sorted(b, <) = [m \in D |-> b[CHOOSE i \in D : Spot(i) = m]]
    <3>1. Sorted(b, <) = [m \in DOMAIN b |-> b[CHOOSE i \in DOMAIN b :
            Cardinality({j \in DOMAIN b : b[j] < b[i] \/ (j <= i /\ ~(b[i] < b[j]))}) = m]]
      BY DEF Sorted
    <3> QED BY <1>1, <3>1
  <2>2. ASSUME NEW i \in D PROVE Spot(i) = PlaceIn(Behind(B, k), k, i)
    <3>1. {j \in D : b[j] < b[i] \/ (j <= i /\ ~(b[i] < b[j]))}
            = {j \in D : <<j, i>> \in B \/ (j <= i /\ <<i, j>> \notin B)}
      BY <1>3
    <3>2. PlaceIn(Behind(B, k), k, i) = Cardinality({j \in D : <<j, i>> \in B \/ (j <= i /\ <<i, j>> \notin B)})
      BY <1>1, BehindPlaces DEF D
    <3> QED BY <3>1, <3>2
  <2> HIDE DEF Spot
  <2>3. ASSUME NEW m \in D PROVE (CHOOSE i \in D : Spot(i) = m) = p[m]
    <3>1. \A i : i \in D /\ Spot(i) = m <=> i \in D /\ PlaceIn(Behind(B, k), k, i) = m
      BY <2>2
    <3>2. (CHOOSE i \in D : Spot(i) = m) = (CHOOSE i \in D : PlaceIn(Behind(B, k), k, i) = m)
      BY <3>1
    <3> QED BY <3>2 DEF AtPlace, D
  <2> HIDE DEF p
  <2>4. Sorted(b, <) = [m \in D |-> b[p[m]]]
    BY <2>1, <2>3
  <2> QED BY <2>4 DEF D
<1> HIDE DEF p
<1>8. Permutes(p, k)
  BY <1>6 DEF Arranges, Permutes
<1> QED BY <1>7, <1>8 DEF k

-----------------------------------------------------------------------------
(* The differencing method.                                                *)

\* The rows of 1 .. n that are in a state.
RowsIn(s, n) == {d \in 1 .. n : \E i \in DOMAIN s : \E j \in 1 .. Len(s[i]) : s[i][j] = d}

\* Buckets are filled one row each before any gets a second one.
Filled(s, k) == (\E i \in 1 .. k : s[i] = <<>>) => \A i \in 1 .. k : Len(s[i]) <= 1

Even(s, k) == \A i, j \in 1 .. k : Len(s[i]) = Len(s[j])

IsState(s, k, n, L) ==
  /\ s \in Buckets(k, n)
  /\ Shares(s, 1 .. k, RowsIn(s, n))
  /\ RowsIn(s, n) # {}
  /\ Ordered(s, k, L)
  /\ Filled(s, k)

\* Every row is in one state of the heap.
IsHeap(H, k, n, L) ==
  /\ IsFiniteSet(H)
  /\ \A s \in H : IsState(s, k, n, L)
  /\ \A s, t \in H : s # t => RowsIn(s, n) \cap RowsIn(t, n) = {}
  /\ \A d \in 1 .. n : \E s \in H : d \in RowsIn(s, n)


\* Buckets in another order hold the same rows.
LEMMA ArrangedShares ==
  ASSUME NEW D, NEW k \in Nat, NEW c, Shares(c, 1 .. k, D), NEW p, Permutes(p, k)
  PROVE  Shares([i \in 1 .. k |-> c[p[i]]], 1 .. k, D)
<1> DEFINE K == 1 .. k
           u == [i \in K |-> c[p[i]]]
<1>1. \A i \in K : u[i] = c[p[i]] /\ p[i] \in K
  BY DEF Permutes
<1>2. /\ \A i, j \in K : p[i] = p[j] => i = j
      /\ \A j \in K : \E i \in K : p[i] = j
      /\ Shares(c, K, D)
  BY DEF Permutes
<1> HIDE DEF u, K
<1>3. \A i \in K : u[i] \in Seq(D)
  <2>1. \A a \in K : c[a] \in Seq(D)
    BY <1>2 DEF Shares
  <2> QED BY <1>1, <2>1
<1>4. ASSUME NEW i \in K, NEW j \in K, NEW x \in 1 .. Len(u[i]), NEW y \in 1 .. Len(u[j]), u[i][x] = u[j][y]
      PROVE  i = j /\ x = y
  <2> DEFINE a == p[i]
             b == p[j]
  <2>1. a \in K /\ b \in K /\ u[i] = c[a] /\ u[j] = c[b] /\ (a = b => i = j)
    BY <1>1, <1>2
  <2> HIDE DEF a, b
  <2>2. x \in 1 .. Len(c[a]) /\ y \in 1 .. Len(c[b]) /\ c[a][x] = c[b][y]
    BY <1>4, <2>1
  <2>3. \A e, f \in K : \A v \in 1 .. Len(c[e]), w \in 1 .. Len(c[f]) :
          c[e][v] = c[f][w] => e = f /\ v = w
    BY <1>2 DEF Shares
  <2>4. a = b /\ x = y
    BY <2>1, <2>2, <2>3
  <2> QED BY <2>1, <2>4
<1>5. ASSUME NEW d \in D PROVE \E i \in K : \E x \in 1 .. Len(u[i]) : u[i][x] = d
  <2>1. PICK a \in K : \E x \in 1 .. Len(c[a]) : c[a][x] = d
    BY <1>2 DEF Shares
  <2>2. PICK i \in K : p[i] = a
    BY <1>2
  <2>3. u[i] = c[a]
    BY <1>1, <2>2
  <2> QED BY <2>1, <2>3
<1>6. Shares(u, K, D)
  BY <1>3, <1>4, <1>5 DEF Shares
<1> QED BY <1>6 DEF u, K

\* The rows of a state are the ones it shares.
LEMMA RowsShared ==
  ASSUME NEW n \in Nat, NEW k \in Nat, NEW D, D \subseteq 1 .. n, NEW s \in Buckets(k, n),
         Shares(s, 1 .. k, D)
  PROVE  RowsIn(s, n) = D
<1>1. DOMAIN s = 1 .. k
  BY DEF Buckets
<1>2. \A d \in D : \E i \in 1 .. k : \E j \in 1 .. Len(s[i]) : s[i][j] = d
  BY DEF Shares
<1>3. \A i \in 1 .. k : \A j \in 1 .. Len(s[i]) : s[i][j] \in D
  <2> SUFFICES ASSUME NEW i \in 1 .. k, NEW j \in 1 .. Len(s[i]) PROVE s[i][j] \in D
    OBVIOUS
  <2>1. s[i] \in Seq(D)
    BY DEF Shares
  <2> QED BY <2>1
<1> QED BY <1>1, <1>2, <1>3, ZenonT(40) DEF RowsIn

\* The buckets of two states put together, first with last.
Crossed(s, t, k) == [i \in 1 .. k |-> s[i] \o t[k + 1 - i]]

CrossedAt(c, s, t, k, n, i) ==
  /\ k + 1 - i \in 1 .. k
  /\ s[i] \in Seq(1 .. n) /\ t[k + 1 - i] \in Seq(1 .. n)
  /\ c[i] = s[i] \o t[k + 1 - i]
  /\ c[i] \in Seq(1 .. n)
  /\ Joined(c[i], s[i], t[k + 1 - i], Len(s[i]), Len(t[k + 1 - i]))

LEMMA CrossedElements ==
  ASSUME NEW n \in Nat, NEW k \in Nat, NEW s \in Buckets(k, n), NEW t \in Buckets(k, n)
  PROVE  /\ Crossed(s, t, k) \in Buckets(k, n)
         /\ \A i \in 1 .. k : CrossedAt(Crossed(s, t, k), s, t, k, n, i)
<1> DEFINE C == Crossed(s, t, k)
<1>1. ASSUME NEW i \in 1 .. k PROVE CrossedAt(C, s, t, k, n, i)
  <2> DEFINE a == s[i]
             b == t[k + 1 - i]
             c == C[i]
  <2>1. k + 1 - i \in 1 .. k
    OBVIOUS
  <2>2. a \in Seq(1 .. n) /\ b \in Seq(1 .. n)
    BY <2>1 DEF Buckets
  <2>3. c = a \o b
    BY DEF Crossed
  <2> HIDE DEF a, b, c
  <2>4. Joined(a \o b, a, b, Len(a), Len(b))
    BY <2>2, ConcatJoins
  <2>5. c \in Seq(1 .. n)
    BY <2>2, <2>3
  <2> QED BY <2>1, <2>2, <2>3, <2>4, <2>5 DEF a, b, c, CrossedAt
<1>2. \A i \in 1 .. k : C[i] \in Seq(1 .. n)
  BY <1>1 DEF CrossedAt
<1>3. C \in Buckets(k, n)
  <2>1. C = [i \in 1 .. k |-> C[i]]
    BY DEF Crossed
  <2> HIDE DEF C
  <2> QED BY <1>2, <2>1 DEF Buckets
<1> QED BY <1>1, <1>3

\* Where the elements of two sequences that are joined are.
JoinedAt(q, s, t, n, N) ==
  /\ \A x \in 1 .. n : x \in 1 .. Len(q) /\ q[x] = s[x]
  /\ \A x \in 1 .. N : x + n \in 1 .. Len(q) /\ q[x + n] = t[x]
  /\ \A x \in 1 .. Len(q) : x \in 1 .. n \/ x - n \in 1 .. N

LEMMA JoinedParts ==
  ASSUME NEW q, NEW s, NEW t, NEW n \in Nat, NEW N \in Nat, Joined(q, s, t, n, N)
  PROVE  JoinedAt(q, s, t, n, N)
<1>1. Len(q) = n + N /\ \A x \in 1 .. (n + N) : q[x] = IF x <= n THEN s[x] ELSE t[x - n]
  BY DEF Joined
<1>2. ASSUME NEW x \in 1 .. n PROVE x \in 1 .. Len(q) /\ q[x] = s[x]
  BY <1>1
<1>3. ASSUME NEW x \in 1 .. N PROVE x + n \in 1 .. Len(q) /\ q[x + n] = t[x]
  <2>1. x + n \in 1 .. (n + N) /\ ~(x + n <= n) /\ (x + n) - n = x
    OBVIOUS
  <2> QED BY <1>1, <2>1
<1>4. \A x \in 1 .. Len(q) : x \in 1 .. n \/ x - n \in 1 .. N
  BY <1>1
<1> QED BY <1>2, <1>3, <1>4 DEF JoinedAt

LEMMA CrossedShares ==
  ASSUME NEW n \in Nat, NEW k \in Nat, NEW s \in Buckets(k, n), NEW t \in Buckets(k, n),
         NEW S, NEW T, S \cap T = {}, Shares(s, 1 .. k, S), Shares(t, 1 .. k, T)
  PROVE  Shares(Crossed(s, t, k), 1 .. k, S \cup T)
<1> DEFINE K == 1 .. k
           c == Crossed(s, t, k)
           o(i) == k + 1 - i
           m(i) == Len(s[i])
           M(i) == Len(t[o(i)])
<1>1. ASSUME NEW i \in K
      PROVE  /\ m(i) \in Nat
             /\ \A x \in 1 .. m(i) : x \in 1 .. Len(c[i]) /\ c[i][x] = s[i][x]
             /\ \A x \in 1 .. M(i) : x + m(i) \in 1 .. Len(c[i]) /\ c[i][x + m(i)] = t[o(i)][x]
             /\ \A x \in 1 .. Len(c[i]) : x \in 1 .. m(i) \/ x - m(i) \in 1 .. M(i)
             /\ c[i] = s[i] \o t[o(i)]
  <2> DEFINE a == s[i]
             b == t[k + 1 - i]
             d == c[i]
  <2>1. CrossedAt(c, s, t, k, n, i)
    BY CrossedElements
  <2>2. a \in Seq(1 .. n) /\ b \in Seq(1 .. n) /\ Joined(d, a, b, Len(a), Len(b)) /\ d = a \o b
    BY <2>1 DEF CrossedAt
  <2> HIDE DEF a, b, c, d
  <2>3. Len(a) \in Nat /\ Len(b) \in Nat
    BY <2>2
  <2>4. JoinedAt(d, a, b, Len(a), Len(b))
    BY <2>2, <2>3, JoinedParts
  <2> QED BY <2>2, <2>3, <2>4 DEF a, b, d, JoinedAt
<1>2. \A i, j \in K : o(i) = o(j) => i = j
  OBVIOUS
<1>3. \A i \in K : o(i) \in K /\ o(o(i)) = i
  OBVIOUS
<1>4. \A i \in K : m(i) = Len(s[i]) /\ M(i) = Len(t[o(i)])
  OBVIOUS
<1>5. \A i \in K : m(i) \in Nat
  <2> SUFFICES ASSUME NEW i \in K PROVE m(i) \in Nat
    OBVIOUS
  <2> QED BY <1>1
<1> HIDE DEF K, c, o, m, M
<1>6. /\ \A i \in K : s[i] \in Seq(S)
      /\ \A i, j \in K : \A x \in 1 .. Len(s[i]), y \in 1 .. Len(s[j]) : s[i][x] = s[j][y] => i = j /\ x = y
      /\ \A d \in S : \E i \in K : \E x \in 1 .. Len(s[i]) : s[i][x] = d
  BY DEF Shares, K
<1>7. /\ \A i \in K : t[i] \in Seq(T)
      /\ \A i, j \in K : \A x \in 1 .. Len(t[i]), y \in 1 .. Len(t[j]) : t[i][x] = t[j][y] => i = j /\ x = y
      /\ \A d \in T : \E i \in K : \E x \in 1 .. Len(t[i]) : t[i][x] = d
  BY DEF Shares, K
<1>8. ASSUME NEW i \in K PROVE c[i] \in Seq(S \cup T)
  <2> DEFINE a == s[i]
             b == t[o(i)]
  <2>1. a \in Seq(S) /\ b \in Seq(T) /\ c[i] = a \o b
    BY <1>1, <1>3, <1>6, <1>7
  <2> HIDE DEF a, b
  <2>2. a \in Seq(S \cup T) /\ b \in Seq(S \cup T)
    BY <2>1
  <2> QED BY <2>1, <2>2
<1>9. ASSUME NEW i \in K, NEW x \in 1 .. m(i) PROVE s[i][x] \in S
  <2>1. s[i] \in Seq(S) /\ x \in 1 .. Len(s[i])
    BY <1>4, <1>6
  <2> QED BY <2>1
<1>10. ASSUME NEW i \in K, NEW x \in 1 .. M(i) PROVE t[o(i)][x] \in T
  <2>1. t[o(i)] \in Seq(T) /\ x \in 1 .. Len(t[o(i)])
    BY <1>3, <1>4, <1>7
  <2> QED BY <2>1
<1>11. ASSUME NEW i \in K, NEW x \in 1 .. Len(c[i])
       PROVE  \/ x \in 1 .. m(i) /\ c[i][x] = s[i][x] /\ c[i][x] \in S
              \/ /\ x - m(i) \in 1 .. M(i) /\ c[i][x] = t[o(i)][x - m(i)] /\ c[i][x] \in T
  <2>1. CASE x \in 1 .. m(i)
    BY <1>1, <1>9, <2>1
  <2>2. CASE x - m(i) \in 1 .. M(i)
    <3> DEFINE v == x - m(i)
    <3>1. x = v + m(i) /\ v \in 1 .. M(i)
      <4>1. m(i) \in Nat /\ x \in Int
        BY <1>5
      <4> QED BY <2>2, <4>1
    <3> HIDE DEF v
    <3>2. c[i][x] = t[o(i)][v] /\ t[o(i)][v] \in T
      BY <1>1, <1>10, <3>1
    <3> QED BY <3>1, <3>2 DEF v
  <2> QED BY <1>1, <2>1, <2>2
<1>12. ASSUME NEW i \in K, NEW j \in K, NEW x \in 1 .. Len(c[i]), NEW y \in 1 .. Len(c[j]), c[i][x] = c[j][y]
       PROVE  i = j /\ x = y
  <2>1. CASE c[i][x] \in S
    <3>1. c[i][x] \notin T /\ c[j][y] \notin T
      BY <1>12, <2>1
    <3>2. /\ x \in 1 .. m(i) /\ c[i][x] = s[i][x]
          /\ y \in 1 .. m(j) /\ c[j][y] = s[j][y]
      BY <1>11, <3>1
    <3>3. x \in 1 .. Len(s[i]) /\ y \in 1 .. Len(s[j]) /\ s[i][x] = s[j][y]
      BY <1>4, <1>12, <3>2
    <3> QED BY <1>6, <3>3
  <2>2. CASE c[i][x] \notin S
    <3> DEFINE v == x - m(i)
               w == y - m(j)
               a == o(i)
               b == o(j)
    <3>1. c[i][x] \notin S /\ c[j][y] \notin S
      BY <1>12, <2>2
    <3>2. /\ v \in 1 .. M(i) /\ c[i][x] = t[a][v]
          /\ w \in 1 .. M(j) /\ c[j][y] = t[b][w]
      BY <1>11, <3>1
    <3>3. x = v + m(i) /\ y = w + m(j)
      <4>1. m(i) \in Nat /\ m(j) \in Nat /\ x \in Int /\ y \in Int
        BY <1>5
      <4> QED BY <4>1
    <3>4. a \in K /\ b \in K /\ M(i) = Len(t[a]) /\ M(j) = Len(t[b]) /\ (a = b => i = j)
      BY <1>2, <1>3, <1>4
    <3> HIDE DEF v, w, a, b
    <3>5. v \in 1 .. Len(t[a]) /\ w \in 1 .. Len(t[b]) /\ t[a][v] = t[b][w]
      BY <1>12, <3>2, <3>4
    <3>6. a = b /\ v = w
      BY <1>7, <3>4, <3>5
    <3> QED BY <3>3, <3>4, <3>6
  <2> QED BY <2>1, <2>2
<1>13. ASSUME NEW d \in S \cup T PROVE \E i \in K : \E x \in 1 .. Len(c[i]) : c[i][x] = d
  <2>1. CASE d \in S
    <3>1. PICK i \in K : \E x \in 1 .. Len(s[i]) : s[i][x] = d
      BY <1>6, <2>1
    <3>2. PICK x \in 1 .. m(i) : s[i][x] = d
      BY <1>4, <3>1
    <3>3. x \in 1 .. Len(c[i]) /\ c[i][x] = d
      BY <1>1, <3>2
    <3> QED BY <3>3
  <2>2. CASE d \in T
    <3>1. PICK j \in K : \E x \in 1 .. Len(t[j]) : t[j][x] = d
      BY <1>7, <2>2
    <3> DEFINE i == o(j)
    <3>2. i \in K /\ o(i) = j
      BY <1>3
    <3> HIDE DEF i
    <3>3. PICK x \in 1 .. M(i) : t[o(i)][x] = d
      BY <1>4, <3>1, <3>2
    <3>4. x + m(i) \in 1 .. Len(c[i]) /\ c[i][x + m(i)] = d
      BY <1>1, <3>2, <3>3
    <3> QED BY <3>2, <3>4
  <2> QED BY <2>1, <2>2
<1>14. Shares(c, K, S \cup T)
  BY <1>8, <1>12, <1>13 DEF Shares
<1> QED BY <1>14 DEF c, K

\* Sorting the buckets of a state makes it a state that is ordered.
LEMMA HeaviestState ==
  ASSUME NEW n \in Nat, NEW L, Lengths(L, n), NEW k \in Nat, NEW b \in Buckets(k, n),
         NEW D, D \subseteq 1 .. n, D # {}, Shares(b, 1 .. k, D), Filled(b, k)
  PROVE  /\ IsState(HeaviestFirst(b, L), k, n, L)
         /\ RowsIn(HeaviestFirst(b, L), n) = D
         /\ Even(b, k) => Even(HeaviestFirst(b, L), k)
<1> DEFINE K == 1 .. k
           u == HeaviestFirst(b, L)
<1>1. PICK p : Permutes(p, k) /\ u = [i \in K |-> b[p[i]]] /\ Ordered(u, k, L)
  BY HeaviestSorts
<1>2. Shares([i \in K |-> b[p[i]]], K, D)
  BY <1>1, ArrangedShares
<1>3. Shares(u, K, D) /\ DOMAIN u = K
  BY <1>1, <1>2
<1>4. /\ \A i \in K : p[i] \in K
      /\ \A j \in K : \E i \in K : p[i] = j
      /\ \A i \in K : u[i] = b[p[i]]
  <2>1. \A i \in K : p[i] \in K
    BY <1>1 DEF Permutes
  <2>2. \A j \in K : \E i \in K : p[i] = j
    BY <1>1 DEF Permutes
  <2> HIDE DEF u, K
  <2>3. \A i \in K : u[i] = b[p[i]]
    BY <1>1
  <2> QED BY <2>1, <2>2, <2>3
<1>5. \A i \in K : b[i] \in Seq(1 .. n)
  BY DEF Buckets
<1> HIDE DEF u
<1>6. u \in Buckets(k, n)
  <2>1. \A i \in K : u[i] \in Seq(1 .. n)
    BY <1>4, <1>5
  <2>2. u = [i \in K |-> u[i]]
    BY <1>1, <1>4
  <2> QED BY <2>1, <2>2 DEF Buckets
<1>7. RowsIn(u, n) = D
  BY <1>3, <1>6, RowsShared
<1>8. Filled(u, k)
  <2> SUFFICES ASSUME NEW j \in K, u[j] = <<>>, NEW i \in K PROVE Len(u[i]) <= 1
    BY DEF Filled
  <2>1. b[p[j]] = <<>> /\ p[j] \in K
    BY <1>4
  <2>2. Len(b[p[i]]) <= 1
    <3>1. \A x \in K : Len(b[x]) <= 1
      BY <2>1 DEF Filled
    <3> QED BY <1>4, <3>1
  <2> QED BY <1>4, <2>2
<1>9. Even(b, k) => Even(u, k)
  <2> SUFFICES ASSUME Even(b, k), NEW i \in K, NEW j \in K PROVE Len(u[i]) = Len(u[j])
    BY DEF Even
  <2>1. \A x, y \in K : Len(b[x]) = Len(b[y])
    BY DEF Even
  <2> DEFINE x == p[i]
             y == p[j]
  <2>2. x \in K /\ y \in K /\ u[i] = b[x] /\ u[j] = b[y]
    BY <1>4
  <2> HIDE DEF x, y
  <2>3. Len(b[x]) = Len(b[y])
    BY <2>1, <2>2
  <2> QED BY <2>2, <2>3
<1> QED BY <1>1, <1>3, <1>6, <1>7, <1>8, <1>9 DEF IsState, u

LEMMA MergeIsCrossed ==
  ASSUME NEW n \in Nat, NEW k \in Nat, NEW s \in Buckets(k, n), NEW t \in Buckets(k, n), NEW L
  PROVE  MergeStates(s, t, L) = HeaviestFirst(Crossed(s, t, k), L)
<1>1. DOMAIN s = 1 .. k /\ Len(t) = k
  BY DEF Buckets
<1>2. [i \in DOMAIN s |-> s[i] \o t[Len(t) + 1 - i]] = Crossed(s, t, k)
  BY <1>1 DEF Crossed
<1> QED BY <1>2 DEF MergeStates

\* A bucket with tokens weighs more than an empty one.
LEMMA EmptyLast ==
  ASSUME NEW n \in Nat, NEW L, Lengths(L, n), NEW k \in Nat, NEW s \in Buckets(k, n),
         Ordered(s, k, L), NEW i \in 1 .. k, NEW j \in 1 .. k, s[i] = <<>>, s[j] # <<>>
  PROVE  j < i
<1>1. s[i] \in Seq(1 .. n) /\ s[j] \in Seq(1 .. n)
  BY DEF Buckets
<1> DEFINE x == Tokens(s[i], L)
           y == Tokens(s[j], L)
<1>2. x = 0 /\ y \in Nat /\ y # 0
  <2> DEFINE a == s[i]
             b == s[j]
  <2>1. a \in Seq(1 .. n) /\ b \in Seq(1 .. n) /\ a = <<>> /\ b # <<>>
    BY <1>1
  <2> HIDE DEF a, b
  <2>2. Tokens(a, L) = 0 /\ Tokens(b, L) \in Nat /\ Tokens(b, L) # 0
    BY <2>1, TokensCount
  <2> QED BY <2>2 DEF a, b
<1>3. i < j => x >= y
  BY DEF Ordered
<1> HIDE DEF x, y
<1> QED BY <1>2, <1>3

LEMMA MergedState ==
  ASSUME NEW n \in Nat, NEW L, Lengths(L, n), NEW k \in Nat, NEW s, NEW t,
         IsState(s, k, n, L), IsState(t, k, n, L),
         RowsIn(s, n) \cap RowsIn(t, n) = {}
  PROVE  /\ IsState(MergeStates(s, t, L), k, n, L)
         /\ RowsIn(MergeStates(s, t, L), n) = RowsIn(s, n) \cup RowsIn(t, n)
         /\ Even(s, k) /\ Even(t, k) => Even(MergeStates(s, t, L), k)
<1> DEFINE K == 1 .. k
           S == RowsIn(s, n)
           T == RowsIn(t, n)
           c == Crossed(s, t, k)
<1>1. /\ s \in Buckets(k, n) /\ Shares(s, K, S) /\ S # {} /\ Ordered(s, k, L) /\ Filled(s, k)
      /\ t \in Buckets(k, n) /\ Shares(t, K, T) /\ Ordered(t, k, L) /\ Filled(t, k)
  BY DEF IsState
<1>2. c \in Buckets(k, n) /\ \A i \in K : CrossedAt(c, s, t, k, n, i)
  BY <1>1, CrossedElements
<1>3. Shares(c, K, S \cup T)
  BY <1>1, CrossedShares
<1>4. S \cup T \subseteq 1 .. n /\ S \cup T # {}
  BY <1>1 DEF RowsIn
<1> HIDE DEF c, S, T
<1>5. ASSUME NEW i \in K
      PROVE  /\ k + 1 - i \in K /\ Len(s[i]) \in Nat /\ Len(t[k + 1 - i]) \in Nat
             /\ Len(c[i]) = Len(s[i]) + Len(t[k + 1 - i])
             /\ c[i] = <<>> <=> Len(c[i]) = 0
             /\ s[i] = <<>> <=> Len(s[i]) = 0
             /\ t[k + 1 - i] = <<>> <=> Len(t[k + 1 - i]) = 0
  <2> DEFINE a == s[i]
             b == t[k + 1 - i]
             d == c[i]
  <2>1. CrossedAt(c, s, t, k, n, i)
    BY <1>2
  <2>2. k + 1 - i \in K
    OBVIOUS
  <2>3. a \in Seq(1 .. n) /\ b \in Seq(1 .. n) /\ d \in Seq(1 .. n) /\ Joined(d, a, b, Len(a), Len(b))
    BY <2>1 DEF CrossedAt
  <2> HIDE DEF a, b, d
  <2>4. Len(d) = Len(a) + Len(b)
    BY <2>3 DEF Joined
  <2>5. /\ Len(a) \in Nat /\ Len(b) \in Nat
        /\ d = <<>> <=> Len(d) = 0
        /\ a = <<>> <=> Len(a) = 0
        /\ b = <<>> <=> Len(b) = 0
    BY <2>3
  <2> QED BY <2>2, <2>4, <2>5 DEF a, b, d
<1>6. Filled(c, k)
  <2> SUFFICES ASSUME NEW a \in K, c[a] = <<>>, NEW j \in K PROVE Len(c[j]) <= 1
    BY DEF Filled
  <2> DEFINE b == k + 1 - a
             i == k + 1 - j
  <2>1. /\ b \in K /\ i \in K /\ (i < b => a < j)
    OBVIOUS
  <2>2. s[a] = <<>> /\ t[b] = <<>>
    <3> DEFINE x == Len(s[a])
               y == Len(t[b])
               z == Len(c[a])
    <3>1. x \in Nat /\ y \in Nat /\ z = x + y /\ z = 0 /\ (s[a] = <<>> <=> x = 0) /\ (t[b] = <<>> <=> y = 0)
      BY <1>5
    <3> HIDE DEF x, y, z
    <3> QED BY <3>1
  <2> DEFINE x == Len(s[j])
             y == Len(t[i])
             z == Len(c[j])
  <2>3. x \in Nat /\ y \in Nat /\ z = x + y /\ (s[j] = <<>> <=> x = 0) /\ (t[i] = <<>> <=> y = 0)
    BY <1>5
  <2>4. x <= 1 /\ y <= 1
    BY <1>1, <2>1, <2>2 DEF Filled
  <2>5. x = 0 \/ y = 0
    <3> SUFFICES ASSUME x # 0, y # 0 PROVE FALSE
      OBVIOUS
    <3>1. s[j] # <<>> /\ t[i] # <<>>
      BY <2>3
    <3> HIDE DEF b, i, x, y, z
    <3>2. j < a
      BY <1>1, <2>2, <3>1, EmptyLast
    <3>3. i < b
      BY <1>1, <2>1, <2>2, <3>1, EmptyLast
    <3> QED BY <2>1, <3>2, <3>3
  <2> HIDE DEF x, y
  <2>6. z <= 1
    BY <2>3, <2>4, <2>5
  <2> QED BY <2>6
<1>7. Even(s, k) /\ Even(t, k) => Even(c, k)
  <2> SUFFICES ASSUME Even(s, k), Even(t, k), NEW i \in K, NEW j \in K PROVE Len(c[i]) = Len(c[j])
    BY DEF Even
  <2> DEFINE a == k + 1 - i
             b == k + 1 - j
  <2>1. a \in K /\ b \in K
    OBVIOUS
  <2>2. Len(c[i]) = Len(s[i]) + Len(t[a]) /\ Len(c[j]) = Len(s[j]) + Len(t[b])
    BY <1>5
  <2> HIDE DEF a, b
  <2>3. Len(s[i]) = Len(s[j]) /\ Len(t[a]) = Len(t[b])
    BY <1>1, <2>1 DEF Even
  <2> QED BY <2>2, <2>3
<1>8. /\ IsState(HeaviestFirst(c, L), k, n, L)
      /\ RowsIn(HeaviestFirst(c, L), n) = S \cup T
      /\ Even(c, k) => Even(HeaviestFirst(c, L), k)
  BY <1>2, <1>3, <1>4, <1>6, HeaviestState
<1>9. MergeStates(s, t, L) = HeaviestFirst(c, L)
  BY <1>1, MergeIsCrossed DEF c
<1> QED BY <1>7, <1>8, <1>9 DEF S, T

LEMMA SpreadIsNumber ==
  ASSUME NEW n \in Nat, NEW L, Lengths(L, n), NEW k \in Nat \ {0}, NEW s \in Buckets(k, n)
  PROVE  /\ Spread(s, L) = Tokens(s[1], L) - Tokens(s[k], L)
         /\ Spread(s, L) \in Int
         /\ \A i \in 1 .. k : Tokens(s[i], L) \in Nat
<1>1. Len(s) = k
  BY DEF Buckets
<1>2. ASSUME NEW i \in 1 .. k PROVE Tokens(s[i], L) \in Nat
  <2> DEFINE a == s[i]
  <2>1. a \in Seq(1 .. n)
    BY DEF Buckets
  <2> HIDE DEF a
  <2>2. Tokens(a, L) \in Nat
    BY <2>1, TokensCount
  <2> QED BY <2>2 DEF a
<1>3. 1 \in 1 .. k /\ k \in 1 .. k
  OBVIOUS
<1>4. Spread(s, L) = Tokens(s[1], L) - Tokens(s[k], L)
  BY <1>1 DEF Spread
<1>5. Tokens(s[1], L) \in Nat /\ Tokens(s[k], L) \in Nat
  BY <1>2, <1>3
<1>6. Spread(s, L) \in Int
  BY <1>4, <1>5
<1> QED BY <1>2, <1>4, <1>6

\* A merged state is no worse than both of the states it is merged from.
LEMMA MergedSpread ==
  ASSUME NEW n \in Nat, NEW L, Lengths(L, n), NEW k \in Nat \ {0}, NEW s \in Buckets(k, n),
         NEW t \in Buckets(k, n), Ordered(s, k, L), Ordered(t, k, L)
  PROVE  \/ Spread(MergeStates(s, t, L), L) <= Spread(s, L)
         \/ Spread(MergeStates(s, t, L), L) <= Spread(t, L)
<1> DEFINE K == 1 .. k
           c == Crossed(s, t, k)
           u == HeaviestFirst(c, L)
           x(i) == Tokens(s[i], L)
           y(i) == Tokens(t[i], L)
<1>1. c \in Buckets(k, n) /\ \A i \in K : CrossedAt(c, s, t, k, n, i)
  BY CrossedElements
<1>2. \A i \in K : x(i) \in Nat /\ y(i) \in Nat
  BY SpreadIsNumber
<1>3. Spread(s, L) = x(1) - x(k) /\ Spread(t, L) = y(1) - y(k)
  BY SpreadIsNumber
<1>4. \A i, j \in K : i <= j => x(i) >= x(j) /\ y(i) >= y(j)
  <2> SUFFICES ASSUME NEW i \in K, NEW j \in K, i <= j PROVE x(i) >= x(j) /\ y(i) >= y(j)
    OBVIOUS
  <2>1. i < j => x(i) >= x(j) /\ y(i) >= y(j)
    BY DEF Ordered
  <2>2. x(i) \in Nat /\ y(i) \in Nat /\ x(j) \in Nat /\ y(j) \in Nat
    BY <1>2
  <2> HIDE DEF x, y
  <2>3. i = j => x(i) >= x(j) /\ y(i) >= y(j)
    BY <2>2
  <2> QED BY <2>1, <2>3
<1> HIDE DEF c
<1>5. ASSUME NEW i \in K PROVE Tokens(c[i], L) = x(i) + y(k + 1 - i)
  <2> DEFINE a == s[i]
             b == t[k + 1 - i]
             d == c[i]
  <2>1. CrossedAt(c, s, t, k, n, i)
    BY <1>1
  <2>2. a \in Seq(1 .. n) /\ b \in Seq(1 .. n) /\ d = a \o b
    BY <2>1 DEF CrossedAt
  <2> HIDE DEF a, b, d
  <2>3. Tokens(d, L) = Tokens(a, L) + Tokens(b, L)
    BY <2>2, TokensConcat
  <2> QED BY <2>3 DEF a, b, d
<1>6. PICK p : Permutes(p, k) /\ u = [i \in K |-> c[p[i]]]
  BY <1>1, HeaviestSorts
<1> DEFINE i == p[1]
           j == p[k]
<1>7. 1 \in K /\ k \in K /\ i \in K /\ j \in K /\ u[1] = c[i] /\ u[k] = c[j] /\ Len(u) = k
  BY <1>6 DEF Permutes
<1> DEFINE a == k + 1 - i
           b == k + 1 - j
<1>8. a \in K /\ b \in K /\ (i <= j => b <= a) /\ (j <= i => a <= b)
  BY <1>7
<1>9. MergeStates(s, t, L) = u
  BY MergeIsCrossed DEF c
<1>10. Spread(u, L) = Tokens(c[i], L) - Tokens(c[j], L)
  BY <1>7 DEF Spread
<1> HIDE DEF i, j, u
<1>11. Tokens(c[i], L) = x(i) + y(a) /\ Tokens(c[j], L) = x(j) + y(b)
  BY <1>5, <1>7
<1> HIDE DEF a, b, x, y, K
<1>12. /\ x(i) \in Nat /\ x(j) \in Nat /\ y(a) \in Nat /\ y(b) \in Nat
       /\ x(1) \in Nat /\ x(k) \in Nat /\ y(1) \in Nat /\ y(k) \in Nat
  BY <1>2, <1>7, <1>8
<1>13. /\ x(1) >= x(i) /\ x(j) >= x(k) /\ y(1) >= y(a) /\ y(b) >= y(k)
  <2>1. 1 <= i /\ j <= k /\ 1 <= a /\ b <= k
    BY <1>7, <1>8 DEF K
  <2> QED BY <1>4, <1>7, <1>8, <2>1
<1>14. Spread(u, L) = (x(i) + y(a)) - (x(j) + y(b))
  BY <1>10, <1>11
<1>15. i \in Nat /\ j \in Nat
  BY <1>7 DEF K
<1>16. CASE i <= j
  <2>1. y(b) >= y(a)
    BY <1>4, <1>8, <1>16
  <2>2. Spread(u, L) <= x(1) - x(k)
    BY <1>12, <1>13, <1>14, <2>1
  <2> QED BY <1>3, <1>9, <2>2
<1>17. CASE j <= i
  <2>1. x(j) >= x(i)
    BY <1>4, <1>7, <1>17
  <2>2. Spread(u, L) <= y(1) - y(k)
    BY <1>12, <1>13, <1>14, <2>1
  <2> QED BY <1>3, <1>9, <2>2
<1> QED BY <1>15, <1>16, <1>17

\* The states of a heap, two of which are merged.
LEMMA MergedHeap ==
  ASSUME NEW n \in Nat, NEW L, Lengths(L, n), NEW k \in Nat, NEW H,
         IsHeap(H, k, n, L), NEW s \in H, NEW t \in H, s # t
  PROVE  /\ IsHeap((H \ {s, t}) \cup {MergeStates(s, t, L)}, k, n, L)
         /\ (\A x \in H : Even(x, k))
              => \A x \in (H \ {s, t}) \cup {MergeStates(s, t, L)} : Even(x, k)
<1> DEFINE u == MergeStates(s, t, L)
           G == (H \ {s, t}) \cup {u}
<1>1. /\ IsFiniteSet(H)
      /\ \A x \in H : IsState(x, k, n, L)
      /\ \A x, y \in H : x # y => RowsIn(x, n) \cap RowsIn(y, n) = {}
      /\ \A d \in 1 .. n : \E x \in H : d \in RowsIn(x, n)
  BY DEF IsHeap
<1>2. RowsIn(s, n) \cap RowsIn(t, n) = {}
  BY <1>1
<1>3. IsState(s, k, n, L) /\ IsState(t, k, n, L)
  BY <1>1
<1>4. /\ IsState(u, k, n, L) /\ RowsIn(u, n) = RowsIn(s, n) \cup RowsIn(t, n)
      /\ Even(s, k) /\ Even(t, k) => Even(u, k)
  BY <1>2, <1>3, MergedState
<1> HIDE DEF u
<1>5. IsFiniteSet(G)
  <2>1. IsFiniteSet(H \ {s, t})
    BY <1>1, FS_Difference
  <2> DEFINE F == H \ {s, t}
  <2> HIDE DEF F
  <2>2. IsFiniteSet(F \cup {u})
    BY <2>1, FS_AddElement DEF F
  <2> QED BY <2>2 DEF F
<1>6. \A x \in G : IsState(x, k, n, L)
  BY <1>1, <1>4
<1>7. ASSUME NEW x \in G, NEW y \in G, x # y PROVE RowsIn(x, n) \cap RowsIn(y, n) = {}
  <2>1. CASE x = u
    <3>1. y \in H /\ y # s /\ y # t
      BY <1>7, <2>1
    <3>2. RowsIn(s, n) \cap RowsIn(y, n) = {} /\ RowsIn(t, n) \cap RowsIn(y, n) = {}
      BY <1>1, <3>1
    <3> QED BY <1>4, <2>1, <3>2
  <2>2. CASE y = u
    <3>1. x \in H /\ x # s /\ x # t
      BY <1>7, <2>2
    <3>2. RowsIn(s, n) \cap RowsIn(x, n) = {} /\ RowsIn(t, n) \cap RowsIn(x, n) = {}
      BY <1>1, <3>1
    <3> QED BY <1>4, <2>2, <3>2
  <2>3. CASE x # u /\ y # u
    BY <1>1, <1>7, <2>3
  <2> QED BY <2>1, <2>2, <2>3
<1>8. ASSUME NEW d \in 1 .. n PROVE \E x \in G : d \in RowsIn(x, n)
  <2>1. PICK x \in H : d \in RowsIn(x, n)
    BY <1>1
  <2>2. CASE x \in {s, t}
    <3>1. d \in RowsIn(u, n)
      BY <1>4, <2>1, <2>2
    <3> QED BY <3>1
  <2>3. CASE x \notin {s, t}
    BY <2>1, <2>3
  <2> QED BY <2>2, <2>3
<1>9. IsHeap(G, k, n, L)
  BY <1>5, <1>6, <1>7, <1>8 DEF IsHeap
<1>10. (\A x \in H : Even(x, k)) => \A x \in G : Even(x, k)
  BY <1>4
<1> QED BY <1>9, <1>10 DEF u

-----------------------------------------------------------------------------
(* Sequences in pieces.                                                    *)

LEMMA SplitShares ==
  ASSUME NEW D, NEW q, Enumerates(q, D), NEW z \in Nat \ {0}
  PROVE  Shares(SplitBySize(q, z), 1 .. Pieces(Len(q), z), D)
<1> DEFINE m == Len(q)
           C == Pieces(m, z)
           K == 1 .. C
           p == SplitBySize(q, z)
<1>1. q \in Seq(D) /\ m \in Nat
  BY DEF Enumerates
<1>2. p \in [K -> Seq(D)] /\ \A c \in K : IsPiece(p[c], q, z, m, c)
  BY <1>1, SplitPieces
<1>3. C \in Nat /\ m <= C * z /\ (C # 0 => (C - 1) * z < m)
  BY <1>1, PiecesBounds
<1>4. /\ \A i, j \in 1 .. m : q[i] = q[j] => i = j
      /\ \A d \in D : \E i \in 1 .. m : q[i] = d
  BY DEF Enumerates
<1> HIDE DEF p, m, C
<1>5. ASSUME NEW c \in K, NEW i \in 1 .. Len(p[c])
      PROVE  /\ i \in 1 .. z /\ c \in Nat \ {0}
             /\ Place(c, i, z) \in 1 .. m /\ p[c][i] = q[Place(c, i, z)]
  <2>1. IsPiece(p[c], q, z, m, c)
    BY <1>2
  <2>2. Len(p[c]) \in 1 .. z
    BY <2>1 DEF IsPiece
  <2>3. Place(c, i, z) \in 1 .. m /\ p[c][i] = q[Place(c, i, z)]
    BY <2>1 DEF IsPiece
  <2> QED BY <2>2, <2>3
<1>6. ASSUME NEW c \in K, NEW d \in K, NEW i \in 1 .. Len(p[c]), NEW j \in 1 .. Len(p[d]), p[c][i] = p[d][j]
      PROVE  c = d /\ i = j
  <2> DEFINE x == Place(c, i, z)
             y == Place(d, j, z)
  <2>1. x \in 1 .. m /\ y \in 1 .. m /\ q[x] = q[y]
    BY <1>5, <1>6
  <2> HIDE DEF x, y
  <2>2. x = y
    BY <1>4, <2>1
  <2>3. i \in 1 .. z /\ j \in 1 .. z /\ c \in Nat \ {0} /\ d \in Nat \ {0}
    BY <1>5
  <2> QED BY <2>2, <2>3, PlaceUnique DEF x, y
<1>7. ASSUME NEW d \in D PROVE \E c \in K : \E i \in 1 .. Len(p[c]) : p[c][i] = d
  <2>1. PICK x \in 1 .. m : q[x] = d
    BY <1>4
  <2>2. x \in 1 .. (C * z)
    <3>1. C * z \in Nat
      BY <1>3
    <3> QED BY <1>1, <1>3, <3>1
  <2>3. PICK c \in K, i \in 1 .. z : x = Place(c, i, z)
    BY <1>3, <2>2, PlaceExists
  <2>4. i \in 1 .. Len(p[c])
    <3>1. c \in 1 .. Pieces(m, z)
      BY DEF C
    <3>2. PieceEnd(c - 1, z, m) = (c - 1) * z /\ PieceEnd(c - 1, z, m) \in Nat
      BY <1>1, <3>1, PieceEndBounds
    <3>3. IsPiece(p[c], q, z, m, c)
      BY <1>2
    <3>4. Len(p[c]) = PieceEnd(c, z, m) - (c - 1) * z
      BY <3>2, <3>3 DEF IsPiece
    <3>5. c * z = (c - 1) * z + z /\ (c - 1) * z \in Nat
      BY <1>3
    <3> DEFINE a == (c - 1) * z
    <3>6. x = a + i
      BY <2>3 DEF Place
    <3>7. a + i <= m
      BY <1>1, <3>6
    <3>8. PieceEnd(c, z, m) = IF a + z < m THEN a + z ELSE m
      BY <3>5 DEF PieceEnd
    <3> DEFINE l == Len(p[c])
    <3>9. a \in Nat /\ l = (IF a + z < m THEN a + z ELSE m) - a
      BY <3>4, <3>5, <3>8
    <3> HIDE DEF a, l
    <3>10. i \in 1 .. l
      BY <1>1, <3>7, <3>9
    <3> QED BY <3>10 DEF l
  <2>5. p[c][i] = d
    BY <1>5, <2>1, <2>3, <2>4
  <2> QED BY <2>4, <2>5
<1>8. \A c \in K : p[c] \in Seq(D)
  BY <1>2
<1>9. Shares(p, K, D)
  BY <1>6, <1>7, <1>8 DEF Shares
<1> QED BY <1>9 DEF p, C, m

-----------------------------------------------------------------------------
(* The states the method starts with.                                      *)

\* A group of rows for one state of k buckets, and such a state.
IsGroup(g, D, k, n) == Enumerates(g, D) /\ D \subseteq 1 .. n /\ Len(g) \in 1 .. k

StateOf(s, g, D, k, n, L) ==
  IsState(s, k, n, L) /\ RowsIn(s, n) = D /\ (Len(g) = k => Even(s, k))

LEMMA NewStateIs ==
  ASSUME NEW n \in Nat, NEW L, Lengths(L, n), NEW k \in Nat, NEW D, NEW g, IsGroup(g, D, k, n)
  PROVE  StateOf(NewState(g, k, L), g, D, k, n, L)
<1> DEFINE m == Len(g)
           K == 1 .. k
           b == [i \in K |-> IF i <= m THEN <<g[i]>> ELSE << >>]
<1>1. /\ g \in Seq(D) /\ m \in 1 .. k
      /\ \A i, j \in 1 .. m : g[i] = g[j] => i = j
      /\ \A d \in D : \E i \in 1 .. m : g[i] = d
      /\ D \subseteq 1 .. n
  BY DEF Enumerates, IsGroup
<1>2. \A i \in 1 .. m : g[i] \in D
  BY <1>1
<1> HIDE DEF m
<1>3. \A i \in K : b[i] = IF i <= m THEN <<g[i]>> ELSE << >>
  OBVIOUS
<1>4. b = [i \in K |-> b[i]]
  OBVIOUS
<1> HIDE DEF b
<1>5. ASSUME NEW i \in K
      PROVE  /\ b[i] \in Seq(D) /\ Len(b[i]) = IF i <= m THEN 1 ELSE 0
             /\ i <= m => i \in 1 .. m /\ b[i][1] = g[i]
  <2>1. CASE i <= m
    <3>1. i \in 1 .. m /\ b[i] = <<g[i]>> /\ g[i] \in D
      <4>1. i \in 1 .. m
        BY <1>1, <2>1
      <4>2. b[i] = <<g[i]>>
        BY <1>3, <2>1
      <4> QED BY <1>2, <4>1, <4>2
    <3> DEFINE e == g[i]
    <3> HIDE DEF e
    <3>2. <<e>> \in Seq(D) /\ Len(<<e>>) = 1 /\ <<e>>[1] = e
      BY <3>1 DEF e
    <3>3. b[i] = <<e>>
      BY <3>1 DEF e
    <3> QED BY <2>1, <3>1, <3>2, <3>3 DEF e
  <2>2. CASE ~(i <= m)
    <3>1. b[i] = <<>>
      BY <1>3, <2>2
    <3>2. <<>> \in Seq(D) /\ Len(<<>>) = 0
      OBVIOUS
    <3> QED BY <2>2, <3>1, <3>2
  <2> QED BY <2>1, <2>2
<1>6. b \in Buckets(k, n)
  <2>1. ASSUME NEW i \in K PROVE b[i] \in Seq(1 .. n)
    <3> DEFINE c == b[i]
    <3>1. c \in Seq(D)
      BY <1>5
    <3> HIDE DEF c
    <3>2. /\ Len(c) \in Nat /\ c = [x \in 1 .. Len(c) |-> c[x]]
          /\ \A x \in 1 .. Len(c) : c[x] \in D
      BY <3>1
    <3>3. \A x \in 1 .. Len(c) : c[x] \in 1 .. n
      BY <1>1, <3>2
    <3>4. c \in Seq(1 .. n)
      BY <3>2, <3>3
    <3> QED BY <3>4 DEF c
  <2> QED BY <1>4, <2>1 DEF Buckets
<1>7. Shares(b, K, D)
  <2>1. \A i \in K : b[i] \in Seq(D)
    BY <1>5
  <2>2. ASSUME NEW i \in K, NEW j \in K, NEW x \in 1 .. Len(b[i]), NEW y \in 1 .. Len(b[j]), b[i][x] = b[j][y]
        PROVE  i = j /\ x = y
    <3>1. x = 1 /\ i \in 1 .. m /\ b[i][1] = g[i]
      BY <1>5
    <3>2. y = 1 /\ j \in 1 .. m /\ b[j][1] = g[j]
      BY <1>5
    <3> QED BY <1>1, <2>2, <3>1, <3>2
  <2>3. ASSUME NEW d \in D PROVE \E i \in K : \E x \in 1 .. Len(b[i]) : b[i][x] = d
    <3>1. PICK i \in 1 .. m : g[i] = d
      BY <1>1
    <3>2. i \in K /\ i <= m
      BY <1>1
    <3>3. 1 \in 1 .. Len(b[i]) /\ b[i][1] = d
      BY <1>5, <3>1, <3>2
    <3> QED BY <3>2, <3>3
  <2> QED BY <2>1, <2>2, <2>3 DEF Shares
<1>8. Filled(b, k)
  BY <1>5 DEF Filled
<1>9. m = k => Even(b, k)
  <2> SUFFICES ASSUME m = k, NEW i \in K, NEW j \in K PROVE Len(b[i]) = Len(b[j])
    BY DEF Even
  <2>1. i <= m /\ j <= m
    OBVIOUS
  <2> QED BY <1>5, <2>1
<1>10. D # {}
  <2>1. 1 \in 1 .. m
    BY <1>1
  <2> QED BY <1>2, <2>1
<1>11. NewState(g, k, L) = HeaviestFirst(b, L)
  BY DEF NewState, b, m
<1>12. /\ IsState(HeaviestFirst(b, L), k, n, L)
       /\ RowsIn(HeaviestFirst(b, L), n) = D
       /\ Even(b, k) => Even(HeaviestFirst(b, L), k)
  BY <1>1, <1>6, <1>7, <1>8, <1>10, HeaviestState
<1> QED BY <1>9, <1>11, <1>12 DEF m, StateOf

LEMMA InitialHeap ==
  ASSUME NEW n \in Nat, NEW L, Lengths(L, n), NEW k \in Nat \ {0}, NEW equalSize,
         equalSize => n % k = 0
  PROVE  /\ IsHeap(InitialStates(L, k, equalSize), k, n, L)
         /\ equalSize => \A s \in InitialStates(L, k, equalSize) : Even(s, k)
<1> DEFINE q == ShortestFirst(L)
           z == IF equalSize THEN k ELSE 1
           C == Pieces(n, z)
           p == SplitBySize(q, z)
           D(c) == {d \in 1 .. n : \E i \in 1 .. Len(p[c]) : p[c][i] = d}
           u(c) == NewState(p[c], k, L)
           H == InitialStates(L, k, equalSize)
<1>1. Enumerates(q, 1 .. n) /\ q \in Seq(1 .. n) /\ Len(q) = n
  <2>1. Enumerates(q, 1 .. n)
    BY ShortestEnumerates
  <2> HIDE DEF q
  <2> QED BY <2>1, EnumerationSize DEF Enumerates
<1>2. z \in Nat \ {0} /\ z <= k /\ (equalSize => n % z = 0 /\ z = k)
  OBVIOUS
<1> HIDE DEF q, z
<1>3. /\ p \in [1 .. C -> Seq(1 .. n)]
      /\ \A c \in 1 .. C : IsPiece(p[c], q, z, n, c)
  <2>1. /\ p \in [1 .. Pieces(Len(q), z) -> Seq(1 .. n)]
        /\ \A c \in 1 .. Pieces(Len(q), z) : IsPiece(p[c], q, z, Len(q), c)
    BY <1>1, <1>2, SplitPieces
  <2> QED BY <1>1, <2>1
<1>4. Shares(p, 1 .. C, 1 .. n)
  <2>1. Shares(p, 1 .. Pieces(Len(q), z), 1 .. n)
    BY <1>1, <1>2, SplitShares
  <2> QED BY <1>1, <2>1
<1>5. C \in Nat
  BY <1>2, PiecesBounds
<1>6. H = {u(c) : c \in 1 .. C}
  <2>1. H = {NewState(g, k, L) : g \in ToSet(p)}
    BY DEF InitialStates, z, q
  <2>2. DOMAIN p = 1 .. C
    BY <1>3
  <2> HIDE DEF p, H, C
  <2>3. ToSet(p) = {p[c] : c \in 1 .. C}
    BY <2>2 DEF ToSet
  <2> QED BY <2>1, <2>3
<1> HIDE DEF p, H, C
<1>7. /\ \A c, d \in 1 .. C : \A i \in 1 .. Len(p[c]), j \in 1 .. Len(p[d]) :
           p[c][i] = p[d][j] => c = d /\ i = j
      /\ \A x \in 1 .. n : \E c \in 1 .. C : \E i \in 1 .. Len(p[c]) : p[c][i] = x
  BY <1>4 DEF Shares
<1>8. ASSUME NEW c \in 1 .. C
      PROVE  /\ IsState(u(c), k, n, L) /\ RowsIn(u(c), n) = D(c)
             /\ equalSize => Even(u(c), k)
  <2> DEFINE g == p[c]
             E == D(c)
  <2>1. g \in Seq(1 .. n) /\ IsPiece(g, q, z, n, c)
    BY <1>3
  <2>2. Len(g) \in 1 .. k /\ (equalSize => Len(g) = k)
    <3>1. Len(g) \in 1 .. z /\ (n % z = 0 => Len(g) = z)
      BY <2>1 DEF IsPiece
    <3> QED BY <1>2, <3>1
  <2>3. \A i, j \in 1 .. Len(g) : g[i] = g[j] => i = j
    BY <1>7
  <2>4. E = {d \in 1 .. n : \E i \in 1 .. Len(g) : g[i] = d}
    OBVIOUS
  <2> HIDE DEF g, E
  <2>5. g \in Seq(E)
    <3>1. Len(g) \in Nat /\ g = [i \in 1 .. Len(g) |-> g[i]] /\ \A i \in 1 .. Len(g) : g[i] \in 1 .. n
      BY <2>1
    <3>2. \A i \in 1 .. Len(g) : g[i] \in E
      BY <2>4, <3>1
    <3> QED BY <3>1, <3>2
  <2>6. Enumerates(g, E)
    BY <2>3, <2>4, <2>5 DEF Enumerates
  <2>7. E \subseteq 1 .. n
    BY <2>4
  <2>8. k \in Nat /\ IsGroup(g, E, k, n)
    BY <2>2, <2>6, <2>7 DEF IsGroup
  <2>9. StateOf(NewState(g, k, L), g, E, k, n, L)
    BY <2>8, NewStateIs
  <2> QED BY <2>2, <2>9 DEF g, E, StateOf
<1>9. IsFiniteSet(H)
  <2> DEFINE f == [c \in 1 .. C |-> u(c)]
  <2>1. f \in Surjection(1 .. C, H)
    BY <1>6 DEF Surjection
  <2> HIDE DEF f
  <2>2. IsFiniteSet(1 .. C)
    BY <1>5, FS_Interval
  <2> QED BY <2>1, <2>2, FS_Surjection
<1>10. ASSUME NEW s \in H, NEW t \in H, s # t PROVE RowsIn(s, n) \cap RowsIn(t, n) = {}
  <2>1. PICK c \in 1 .. C : s = u(c)
    BY <1>6
  <2>2. PICK d \in 1 .. C : t = u(d)
    BY <1>6
  <2>3. c # d
    BY <1>10, <2>1, <2>2
  <2>4. D(c) \cap D(d) = {}
    BY <1>7, <2>3
  <2> QED BY <1>8, <2>1, <2>2, <2>4
<1>11. ASSUME NEW x \in 1 .. n PROVE \E s \in H : x \in RowsIn(s, n)
  <2>1. PICK c \in 1 .. C : \E i \in 1 .. Len(p[c]) : p[c][i] = x
    BY <1>7
  <2>2. x \in D(c)
    BY <2>1
  <2>3. u(c) \in H /\ x \in RowsIn(u(c), n)
    BY <1>6, <1>8, <2>2
  <2> QED BY <2>3
<1>12. \A s \in H : IsState(s, k, n, L)
  BY <1>6, <1>8
<1>13. IsHeap(H, k, n, L)
  BY <1>9, <1>10, <1>11, <1>12 DEF IsHeap
<1>14. equalSize => \A s \in H : Even(s, k)
  BY <1>6, <1>8
<1> QED BY <1>13, <1>14 DEF H

-----------------------------------------------------------------------------
(* What the states hold together, and the last one alone.                  *)

LEMMA SetListed ==
  ASSUME NEW S, IsFiniteSet(S)
  PROVE  /\ Cardinality(S) \in Nat
         /\ SetToSeq(S) \in [1 .. Cardinality(S) -> S]
         /\ \A i, j \in 1 .. Cardinality(S) : SetToSeq(S)[i] = SetToSeq(S)[j] => i = j
         /\ \A e \in S : \E i \in 1 .. Cardinality(S) : SetToSeq(S)[i] = e
<1> DEFINE n == Cardinality(S)
           N == 1 .. n
           f == SetToSeq(S)
<1>1. n \in Nat /\ ExistsBijection(N, S)
  BY FS_CardinalityType
<1>2. \E g \in [N -> S] : IsInjective(g)
  BY <1>1 DEF ExistsBijection, Bijection, Injection
<1>3. f \in [N -> S] /\ IsInjective(f)
  BY <1>2 DEF SetToSeq
<1>4. IsFiniteSet(N) /\ Cardinality(N) = n
  <2>1. 1 \in Int /\ n \in Int
    BY <1>1
  <2>2. IsFiniteSet(N) /\ Cardinality(N) = IF 1 > n THEN 0 ELSE n - 1 + 1
    BY <2>1, FS_Interval
  <2> QED BY <1>1, <2>2
<1> HIDE DEF f
<1>5. f \in Injection(N, S)
  BY <1>3 DEF Injection
<1>6. f \in Surjection(N, S)
  <2> HIDE DEF N
  <2> QED BY <1>4, <1>5, FS_Injection DEF n
<1>7. \A e \in S : \E i \in N : f[i] = e
  BY <1>6 DEF Surjection
<1>8. \A i, j \in N : f[i] = f[j] => i = j
  BY <1>3 DEF IsInjective
<1> QED BY <1>1, <1>3, <1>7, <1>8 DEF f

LEMMA StateEnumerates ==
  ASSUME NEW n \in Nat, NEW L, NEW k \in Nat, NEW s, IsState(s, k, n, L)
  PROVE  Enumerates(Concat(s), RowsIn(s, n))
<1> DEFINE D == RowsIn(s, n)
<1>1. s \in Buckets(k, n) /\ Shares(s, 1 .. k, D)
  BY DEF IsState
<1> HIDE DEF D
<1>2. \A i \in 1 .. k : s[i] \in Seq(D)
  BY <1>1 DEF Shares
<1>3. s \in [1 .. k -> Seq(D)]
  BY <1>1, <1>2 DEF Buckets
<1> QED BY <1>1, <1>3, FlattenEnumerates DEF D, Concat

LEMMA HeapConserves ==
  ASSUME NEW n \in Nat, NEW L, NEW k \in Nat, NEW H, IsHeap(H, k, n, L)
  PROVE  Enumerates(Concat(SetToSeq({Concat(s) : s \in H})), 1 .. n)
<1> DEFINE S == {Concat(s) : s \in H}
           c == Cardinality(S)
           f == SetToSeq(S)
<1>1. /\ IsFiniteSet(H)
      /\ \A s \in H : IsState(s, k, n, L)
      /\ \A s, t \in H : s # t => RowsIn(s, n) \cap RowsIn(t, n) = {}
      /\ \A d \in 1 .. n : \E s \in H : d \in RowsIn(s, n)
  BY DEF IsHeap
<1>2. IsFiniteSet(S)
  <2> DEFINE g == [s \in H |-> Concat(s)]
  <2>1. g \in Surjection(H, S)
    BY DEF Surjection
  <2> HIDE DEF g, S
  <2> QED BY <1>1, <2>1, FS_Surjection
<1>3. \A e : e \in S <=> \E s \in H : e = Concat(s)
  OBVIOUS
<1> HIDE DEF S
<1>4. /\ c \in Nat /\ f \in [1 .. c -> S]
      /\ \A i, j \in 1 .. c : f[i] = f[j] => i = j
      /\ \A e \in S : \E i \in 1 .. c : f[i] = e
  BY <1>2, SetListed
<1> HIDE DEF c, f
<1>5. ASSUME NEW i \in 1 .. c
      PROVE  \E s \in H : f[i] = Concat(s) /\ Enumerates(f[i], RowsIn(s, n))
  <2>1. PICK s \in H : f[i] = Concat(s)
    BY <1>3, <1>4
  <2>2. IsState(s, k, n, L)
    BY <1>1
  <2>3. Enumerates(Concat(s), RowsIn(s, n))
    BY <2>2, StateEnumerates
  <2> QED BY <2>1, <2>3
<1>6. ASSUME NEW i \in 1 .. c PROVE f[i] \in Seq(1 .. n)
  <2>1. PICK s \in H : Enumerates(f[i], RowsIn(s, n))
    BY <1>5
  <2> DEFINE D == RowsIn(s, n)
             e == f[i]
  <2>2. D \subseteq 1 .. n
    BY DEF RowsIn
  <2>3. e \in Seq(D)
    BY <2>1 DEF Enumerates
  <2> HIDE DEF D, e
  <2>4. Len(e) \in Nat /\ e = [x \in 1 .. Len(e) |-> e[x]] /\ \A x \in 1 .. Len(e) : e[x] \in D
    BY <2>3
  <2>5. \A x \in 1 .. Len(e) : e[x] \in 1 .. n
    BY <2>2, <2>4
  <2>6. e \in Seq(1 .. n)
    BY <2>4, <2>5
  <2> QED BY <2>6 DEF e
<1>7. ASSUME NEW i \in 1 .. c, NEW j \in 1 .. c, NEW x \in 1 .. Len(f[i]), NEW y \in 1 .. Len(f[j]), f[i][x] = f[j][y]
      PROVE  i = j /\ x = y
  <2>1. PICK s \in H : f[i] = Concat(s) /\ Enumerates(f[i], RowsIn(s, n))
    BY <1>5
  <2>2. PICK t \in H : f[j] = Concat(t) /\ Enumerates(f[j], RowsIn(t, n))
    BY <1>5
  <2> DEFINE a == f[i]
             b == f[j]
             A == RowsIn(s, n)
             B == RowsIn(t, n)
  <2>3. Enumerates(a, A) /\ Enumerates(b, B) /\ x \in 1 .. Len(a) /\ y \in 1 .. Len(b) /\ a[x] = b[y]
    BY <1>7, <2>1, <2>2
  <2> HIDE DEF a, b, A, B
  <2>4. a[x] \in A /\ b[y] \in B
    <3>1. a \in Seq(A) /\ b \in Seq(B)
      BY <2>3 DEF Enumerates
    <3> QED BY <2>3, <3>1
  <2>5. s = t
    <3>1. s # t => A \cap B = {}
      BY <1>1 DEF A, B
    <3> QED BY <2>3, <2>4, <3>1
  <2>6. i = j
    BY <1>4, <2>1, <2>2, <2>5
  <2>7. a = b
    BY <2>6 DEF a, b
  <2>8. x = y
    BY <2>3, <2>7 DEF Enumerates
  <2> QED BY <2>6, <2>8
<1>8. ASSUME NEW d \in 1 .. n PROVE \E i \in 1 .. c : \E x \in 1 .. Len(f[i]) : f[i][x] = d
  <2>1. PICK s \in H : d \in RowsIn(s, n)
    BY <1>1
  <2>2. Enumerates(Concat(s), RowsIn(s, n))
    <3>1. IsState(s, k, n, L)
      BY <1>1
    <3> QED BY <3>1, StateEnumerates
  <2> DEFINE e == Concat(s)
  <2>3. e \in S
    BY <1>3
  <2> HIDE DEF e
  <2>4. PICK i \in 1 .. c : f[i] = e
    BY <1>4, <2>3
  <2>5. \E x \in 1 .. Len(e) : e[x] = d
    BY <2>1, <2>2 DEF Enumerates, e
  <2> QED BY <2>4, <2>5
<1>9. Shares(f, 1 .. c, 1 .. n)
  BY <1>6, <1>7, <1>8 DEF Shares
<1>10. f \in [1 .. c -> Seq(1 .. n)]
  BY <1>4, <1>6
<1> QED BY <1>4, <1>9, <1>10, FlattenEnumerates DEF S, f, Concat

\* The partitions are the buckets of the last state, each of them sorted.
LEMMA PartitionsShare ==
  ASSUME NEW n \in Nat, NEW L, NEW k \in Nat, NEW s, IsState(s, k, n, L)
  PROVE  /\ Partitions(s) \in Buckets(k, n)
         /\ Shares(Partitions(s), 1 .. k, RowsIn(s, n))
         /\ \A i \in 1 .. k : Len(Partitions(s)[i]) = Len(s[i])
<1> DEFINE K == 1 .. k
           D == RowsIn(s, n)
           q == Partitions(s)
<1>1. s \in Buckets(k, n) /\ Shares(s, K, D)
  BY DEF IsState
<1>2. DOMAIN s = K /\ \A i \in K : s[i] \in Seq(1 .. n)
  BY <1>1 DEF Buckets
<1>3. q = [i \in K |-> Sorted(s[i], <)] /\ \A i \in K : q[i] = Sorted(s[i], <)
  BY <1>2 DEF Partitions
<1> HIDE DEF q, D
<1>4. /\ \A i \in K : s[i] \in Seq(D)
      /\ \A i, j \in K : \A x \in 1 .. Len(s[i]), y \in 1 .. Len(s[j]) : s[i][x] = s[j][y] => i = j /\ x = y
      /\ \A d \in D : \E i \in K : \E x \in 1 .. Len(s[i]) : s[i][x] = d
  BY <1>1 DEF Shares
<1>5. ASSUME NEW i \in K
      PROVE  /\ q[i] \in Seq(1 .. n) /\ q[i] \in Seq(D) /\ Len(q[i]) = Len(s[i])
             /\ \E p : Permutes(p, Len(s[i])) /\ \A x \in 1 .. Len(s[i]) : q[i][x] = s[i][p[x]]
  <2> DEFINE b == s[i]
             e == q[i]
             m == Len(b)
  <2>1. b \in Seq(1 .. n) /\ b \in Seq(D) /\ m \in Nat
    BY <1>2, <1>4
  <2>2. e = Sorted(b, <)
    BY <1>3
  <2> HIDE DEF e, b
  <2>3. PICK p : Permutes(p, m) /\ Sorted(b, <) = [x \in 1 .. m |-> b[p[x]]]
    BY <2>1, SortedBucket
  <2> HIDE DEF m
  <2>4. \A x \in 1 .. m : p[x] \in 1 .. m
    BY <2>3 DEF Permutes
  <2>5. \A x \in 1 .. m : b[p[x]] \in 1 .. n /\ b[p[x]] \in D
    BY <2>1, <2>4 DEF m
  <2>6. e = [x \in 1 .. m |-> b[p[x]]] /\ \A x \in 1 .. m : e[x] = b[p[x]]
    BY <2>2, <2>3
  <2>7. e \in Seq(1 .. n) /\ e \in Seq(D) /\ Len(e) = m
    BY <2>1, <2>5, <2>6
  <2> QED BY <2>3, <2>6, <2>7 DEF b, e, m
<1>6. ASSUME NEW i \in K, NEW x \in 1 .. Len(q[i])
      PROVE  \E v \in 1 .. Len(s[i]) : q[i][x] = s[i][v]
  <2>1. PICK p : Permutes(p, Len(s[i])) /\ \A y \in 1 .. Len(s[i]) : q[i][y] = s[i][p[y]]
    BY <1>5
  <2>2. x \in 1 .. Len(s[i])
    BY <1>5
  <2>3. p[x] \in 1 .. Len(s[i])
    BY <2>1, <2>2 DEF Permutes
  <2> QED BY <2>1, <2>2, <2>3
<1>7. ASSUME NEW i \in K, NEW j \in K, NEW x \in 1 .. Len(q[i]), NEW y \in 1 .. Len(q[j]), q[i][x] = q[j][y]
      PROVE  i = j /\ x = y
  <2>1. PICK v \in 1 .. Len(s[i]) : q[i][x] = s[i][v]
    BY <1>6
  <2>2. PICK w \in 1 .. Len(s[j]) : q[j][y] = s[j][w]
    BY <1>6
  <2>3. i = j
    <3>1. \A g, h \in K : \A z \in 1 .. Len(s[g]), u \in 1 .. Len(s[h]) : s[g][z] = s[h][u] => g = h
      BY <1>4
    <3>2. s[i][v] = s[j][w]
      BY <1>7, <2>1, <2>2
    <3> QED BY <3>1, <3>2
  <2>4. x = y
    <3>1. PICK p : Permutes(p, Len(s[i])) /\ \A z \in 1 .. Len(s[i]) : q[i][z] = s[i][p[z]]
      BY <1>5
    <3> DEFINE a == p[x]
               b == p[y]
    <3>2. x \in 1 .. Len(s[i]) /\ y \in 1 .. Len(s[i])
      BY <1>5, <2>3
    <3>3. a \in 1 .. Len(s[i]) /\ b \in 1 .. Len(s[i]) /\ (a = b => x = y)
      BY <3>1, <3>2 DEF Permutes
    <3>4. q[i][x] = s[i][a] /\ q[i][y] = s[i][b]
      BY <3>1, <3>2
    <3> HIDE DEF a, b
    <3>5. s[i][a] = s[i][b]
      BY <1>7, <2>3, <3>4
    <3>6. a = b
      BY <1>4, <3>3, <3>5
    <3> QED BY <3>3, <3>6
  <2> QED BY <2>3, <2>4
<1>8. ASSUME NEW d \in D PROVE \E i \in K : \E x \in 1 .. Len(q[i]) : q[i][x] = d
  <2>1. PICK i \in K : \E v \in 1 .. Len(s[i]) : s[i][v] = d
    BY <1>4
  <2>2. PICK v \in 1 .. Len(s[i]) : s[i][v] = d
    BY <2>1
  <2>3. PICK p : Permutes(p, Len(s[i])) /\ \A y \in 1 .. Len(s[i]) : q[i][y] = s[i][p[y]]
    BY <1>5
  <2>4. PICK x \in 1 .. Len(s[i]) : p[x] = v
    BY <2>3 DEF Permutes
  <2>5. x \in 1 .. Len(q[i]) /\ q[i][x] = d
    BY <1>5, <2>2, <2>3, <2>4
  <2> QED BY <2>5
<1>9. Shares(q, K, D)
  <2>1. \A i \in K : q[i] \in Seq(D)
    BY <1>5
  <2> QED BY <1>7, <1>8, <2>1 DEF Shares
<1>10. q \in Buckets(k, n)
  <2>1. \A i \in K : q[i] \in Seq(1 .. n)
    BY <1>5
  <2>2. q = [i \in K |-> q[i]]
    BY <1>3
  <2> QED BY <2>1, <2>2 DEF Buckets
<1>11. \A i \in K : Len(q[i]) = Len(s[i])
  BY <1>5
<1> QED BY <1>9, <1>10, <1>11 DEF q, D

-----------------------------------------------------------------------------
(* What the ranks are sent.                                                *)

\* Rows are added until the ranks divide them; without them it is the batch.
LEMMA PaddedRows ==
  ASSUME NEW S, NEW q \in Seq(S), NEW w \in Nat \ {0}, q # <<>>
  PROVE  /\ PadToDivisor(q, w) \in Seq(S) /\ PadToDivisor(q, w) # <<>>
         /\ Len(PadToDivisor(q, w)) % w = 0
         /\ Unpad(PadToDivisor(q, w), PadSize(q, w)) = q
<1> DEFINE m == Len(q)
           s == PadSize(q, w)
           t == [i \in 1 .. s |-> q[((i - 1) % m) + 1]]
           u == PadToDivisor(q, w)
           r == m % w
           d == m \div w
<1>1. m \in Nat \ {0} /\ \A i \in 1 .. m : q[i] \in S
  OBVIOUS
<1>2. d \in Nat /\ r \in 0 .. (w - 1) /\ m = w * d + r
  <2> HIDE DEF m
  <2> QED BY <1>1, DivMod
<1>3. s = IF r = 0 THEN 0 ELSE w - r
  BY DEF PadSize
<1>4. u = q \o t
  BY DEF PadToDivisor
<1> HIDE DEF d, r, s
<1>5. s \in Nat
  BY <1>2, <1>3
<1>6. t \in Seq(S) /\ Len(t) = s
  <2>1. \A i \in 1 .. s : ((i - 1) % m) + 1 \in 1 .. m
    <3> SUFFICES ASSUME NEW i \in 1 .. s PROVE ((i - 1) % m) + 1 \in 1 .. m
      OBVIOUS
    <3> DEFINE x == i - 1
    <3>1. x \in Nat
      BY <1>5
    <3> HIDE DEF x, m
    <3>2. x % m \in 0 .. (m - 1)
      BY <1>1, <3>1, DivMod
    <3> QED BY <1>1, <3>2 DEF x
  <2>2. \A i \in 1 .. s : q[((i - 1) % m) + 1] \in S
    BY <1>1, <2>1
  <2> QED BY <1>5, <2>2
<1> HIDE DEF u, t
<1>7. /\ u \in Seq(S) /\ Len(u) = m + s
      /\ \A i \in 1 .. m : u[i] = q[i]
  <2>1. q \in Seq(S) /\ t \in Seq(S) /\ Len(q) = m /\ Len(t) = s
    BY <1>6
  <2> HIDE DEF m
  <2>2. /\ u \in Seq(S) /\ Len(u) = m + s
        /\ \A i \in 1 .. (m + s) : u[i] = IF i <= m THEN q[i] ELSE t[i - m]
    BY <1>4, <2>1, ConcatElements
  <2> QED BY <1>1, <1>5, <2>2
<1>8. (m + s) % w = 0
  <2>1. CASE r = 0
    <3>1. m + s = d * w
      BY <1>2, <1>3, <2>1
    <3> QED BY <1>2, <3>1, ProductMod
  <2>2. CASE r # 0
    <3>1. (d + 1) * w = w * d + w
      BY <1>2
    <3>2. m + s = (d + 1) * w
      <4> HIDE DEF m
      <4>1. w * d \in Nat
        BY <1>2
      <4> QED BY <1>2, <1>3, <2>2, <3>1, <4>1
    <3>3. d + 1 \in Nat
      BY <1>2
    <3> QED BY <3>2, <3>3, ProductMod
  <2> QED BY <2>1, <2>2
<1>9. Unpad(u, s) = q
  <2>1. Len(u) - s = m
    BY <1>1, <1>5, <1>7
  <2> DEFINE v == SubSeq(u, 1, m)
  <2>2. Unpad(u, s) = v
    BY <2>1 DEF Unpad
  <2>3. v \in Seq(S) /\ Len(v) = m /\ \A i \in 1 .. m : v[i] = u[i]
    <3>1. 0 \in Nat /\ m \in Nat /\ 0 <= m /\ m <= Len(u) /\ 0 + 1 = 1 /\ m - 0 = m
      BY <1>1, <1>5, <1>7
    <3> HIDE DEF m
    <3>2. SubSeq(u, 0 + 1, m) \in Seq(S) /\ Len(SubSeq(u, 0 + 1, m)) = m - 0
          /\ \A i \in 1 .. (m - 0) : SubSeq(u, 0 + 1, m)[i] = u[0 + i]
      BY <1>7, <3>1, SubSeqElements
    <3>3. \A i \in 1 .. m : u[0 + i] = u[i]
      OBVIOUS
    <3> QED BY <3>1, <3>2, <3>3
  <2> HIDE DEF v
  <2>4. \A i \in 1 .. m : v[i] = q[i]
    BY <1>7, <2>3
  <2> QED BY <1>1, <2>2, <2>3, <2>4
<1>10. u # <<>>
  BY <1>1, <1>5, <1>7
<1> QED BY <1>7, <1>8, <1>9, <1>10 DEF u, s

\* A number of tokens per row; what the workers are called for; the rows of
\* the batch in some order, as many as all micro-batches of one size hold.
Total == Len(lens)

Inputs ==
  /\ call \in Calls
  /\ Total \in Nat \ {0}
  /\ lens \in [1 .. Total -> 1 .. MaxLen]
  /\ call.kind # "generate" => Total % (MicroBatchSize * WorldSize) = 0
  /\ Enumerates(rows, 1 .. Total)

\* The rows a rank is sent, and the batches it goes through.
Share(r) == Chunk(Sent, WorldSize)[r]

Plan(r) == Batches(Share(r))

LEMMA Parameters ==
  /\ WorldSize \in Nat \ {0} /\ MaxRows \in Nat \ {0} /\ MaxLen \in Nat \ {0}
  /\ MicroBatchSize \in Nat \ {0} /\ MiniBatchSize \in Nat \ {0} /\ PpoEpochs \in Nat \ {0}
  /\ MaxTokenLen \in Nat \ {0}
  /\ MiniBatchSize % MicroBatchSize = 0
BY WorkerGroupAssumption DEF WorkerGroupAssumption

LEMMA InputRows ==
  ASSUME Inputs
  PROVE  /\ Lengths(lens, Total) /\ Total \in Nat \ {0} /\ DOMAIN lens = 1 .. Total
         /\ rows \in Seq(1 .. Total) /\ rows # <<>> /\ Len(rows) = Total
<1>1. Total \in Nat \ {0} /\ lens \in [1 .. Total -> 1 .. MaxLen] /\ Enumerates(rows, 1 .. Total)
  BY DEF Inputs
<1> DEFINE T == Total
<1> HIDE DEF T
<1>2. 1 .. MaxLen \subseteq Nat \ {0}
  BY Parameters
<1>3. Lengths(lens, T)
  BY <1>1, <1>2 DEF Lengths, T
<1>4. rows \in Seq(1 .. T)
  BY <1>1 DEF Enumerates, T
<1>5. Len(rows) = T
  BY <1>1, EnumerationSize DEF T
<1>6. rows # <<>>
  BY <1>1, <1>5 DEF T
<1> QED BY <1>1, <1>3, <1>4, <1>5, <1>6 DEF T

LEMMA SentRows ==
  ASSUME Inputs
  PROVE  /\ Sent \in Seq(1 .. Total) /\ Sent # <<>> /\ Len(Sent) % WorldSize = 0
         /\ call.kind # "generate" => Sent = rows /\ (Len(Sent) \div WorldSize) % MicroBatchSize = 0
         /\ Unpad(Sent, IF call.kind = "generate" THEN PadSize(rows, WorldSize) ELSE 0) = rows
<1> DEFINE D == 1 .. Total
<1>1. rows \in Seq(D) /\ rows # <<>> /\ Len(rows) = Total /\ Total \in Nat \ {0}
  BY InputRows
<1>2. WorldSize \in Nat \ {0} /\ MicroBatchSize \in Nat \ {0}
  BY Parameters
<1> HIDE DEF D
<1>3. CASE call.kind = "generate"
  <2>1. Sent = PadToDivisor(rows, WorldSize)
    BY <1>3 DEF Sent
  <2> QED BY <1>1, <1>2, <1>3, <2>1, PaddedRows DEF D
<1>4. CASE call.kind # "generate"
  <2>1. Sent = rows
    BY <1>4 DEF Sent
  <2>2. Total % (MicroBatchSize * WorldSize) = 0
    BY <1>4 DEF Inputs
  <2> DEFINE T == Total
  <2>3. T \in Nat /\ T % (MicroBatchSize * WorldSize) = 0
    BY <1>1, <2>2
  <2> HIDE DEF T
  <2>4. T % WorldSize = 0 /\ (T \div WorldSize) % MicroBatchSize = 0
    BY <1>2, <2>3, FactorDivides
  <2>5. Unpad(rows, 0) = rows
    <3>1. Len(rows) - 0 = T /\ Len(rows) = T
      BY <1>1, <2>3 DEF T
    <3>2. Unpad(rows, 0) = SubSeq(rows, 1, T)
      BY <3>1 DEF Unpad
    <3>3. 0 \in Nat /\ T \in Nat /\ 0 <= T /\ T <= Len(rows) /\ 0 + 1 = 1 /\ T - 0 = T
      BY <2>3, <3>1
    <3> DEFINE v == SubSeq(rows, 1, T)
    <3>4. SubSeq(rows, 0 + 1, T) \in Seq(D) /\ Len(SubSeq(rows, 0 + 1, T)) = T - 0
          /\ \A i \in 1 .. (T - 0) : SubSeq(rows, 0 + 1, T)[i] = rows[0 + i]
      BY <1>1, <3>3, SubSeqElements
    <3>5. \A i \in 1 .. T : rows[0 + i] = rows[i]
      OBVIOUS
    <3>6. v \in Seq(D) /\ Len(v) = T /\ \A i \in 1 .. T : v[i] = rows[i]
      BY <3>3, <3>4, <3>5
    <3> HIDE DEF v
    <3>7. v = rows
      BY <1>1, <3>1, <3>6
    <3> QED BY <3>2, <3>7 DEF v
  <2>6. Len(rows) = T
    BY <1>1 DEF T
  <2> QED BY <1>1, <1>4, <2>1, <2>4, <2>5, <2>6 DEF D
<1> QED BY <1>3, <1>4

LEMMA SharedRows ==
  ASSUME Inputs
  PROVE  /\ Chunk(Sent, WorldSize) \in [Ranks -> Seq(1 .. Total)]
         /\ Concat(Chunk(Sent, WorldSize)) = Sent
         /\ Len(Sent) \div WorldSize \in Nat \ {0}
         /\ \A r \in Ranks : /\ Share(r) \in Seq(1 .. Total) /\ Share(r) # <<>>
                             /\ Len(Share(r)) = Len(Sent) \div WorldSize
                             /\ call.kind # "generate" => Len(Share(r)) % MicroBatchSize = 0
<1> DEFINE D == 1 .. Total
           z == Len(Sent) \div WorldSize
           c == Chunk(Sent, WorldSize)
<1>1. /\ Sent \in Seq(D) /\ Sent # <<>> /\ Len(Sent) % WorldSize = 0
      /\ call.kind # "generate" => z % MicroBatchSize = 0
  BY SentRows
<1>2. WorldSize \in Nat \ {0}
  BY Parameters
<1> HIDE DEF D
<1>3. /\ z \in Nat \ {0}
      /\ c \in [1 .. WorldSize -> Seq(D)]
      /\ \A r \in 1 .. WorldSize : Len(c[r]) = z
      /\ Concat(c) = Sent
  BY <1>1, <1>2, ChunkPieces, ZenonT(40) DEF IsChunks
<1> HIDE DEF z, c
<1>4. ASSUME NEW r \in Ranks
      PROVE  /\ Share(r) \in Seq(D) /\ Share(r) # <<>> /\ Len(Share(r)) = z
             /\ call.kind # "generate" => Len(Share(r)) % MicroBatchSize = 0
  <2>1. Share(r) = c[r] /\ r \in 1 .. WorldSize
    BY DEF Share, c, Ranks
  <2> QED BY <1>1, <1>3, <2>1
<1> QED BY <1>3, <1>4 DEF D, z, c, Ranks

\* Pieces of a length that micro-batches divide hold whole micro-batches.
LEMMA PieceDivides ==
  ASSUME NEW m \in Nat, NEW z \in Nat \ {0}, NEW a \in Nat \ {0}, m % a = 0, z % a = 0,
         NEW c \in 1 .. Pieces(m, z)
  PROVE  (PieceEnd(c, z, m) - PieceEnd(c - 1, z, m)) % a = 0
<1> DEFINE x == m \div a
           y == z \div a
           l == PieceEnd(c, z, m) - PieceEnd(c - 1, z, m)
           o == (c - 1) * z
<1>1. x \in Nat /\ m = a * x
  <2>1. x \in Nat /\ m = a * x + (m % a)
    BY DivMod
  <2> HIDE DEF x
  <2>2. a * x \in Nat
    BY <2>1
  <2> QED BY <2>1, <2>2
<1>2. y \in Nat /\ z = a * y
  <2>1. y \in Nat /\ z = a * y + (z % a)
    BY DivMod
  <2> HIDE DEF y
  <2>2. a * y \in Nat
    BY <2>1
  <2> QED BY <2>1, <2>2
<1> HIDE DEF x, y
<1>3. c \in Nat \ {0} /\ o \in Nat
  OBVIOUS
<1>4. PieceEnd(c - 1, z, m) = o /\ l \in 1 .. z /\ PieceEnd(c, z, m) \in Nat
  BY PieceEndBounds
<1>5. l = z \/ l = m - o
  <2>1. c * z = o + z
    BY <1>3
  <2> QED BY <1>3, <1>4, <2>1 DEF PieceEnd
<1>6. CASE l = z
  BY <1>6
<1>7. CASE l = m - o
  <2> DEFINE v == (c - 1) * y
             u == x - v
  <2>1. v \in Int /\ o = a * v
    BY <1>2, <1>3
  <2> HIDE DEF v, o, l
  <2>2. u \in Int
    BY <1>1, <2>1
  <2>3. l = a * u
    BY <1>1, <1>7, <2>1
  <2>4. l = u * a
    BY <2>2, <2>3
  <2>5. u >= 0
    <3>1. ASSUME u < 0 PROVE FALSE
      <4>1. 0 - u \in Nat /\ (0 - u) * a \in Nat
        BY <2>2, <3>1
      <4>2. u * a = 0 - ((0 - u) * a)
        BY <2>2
      <4> QED BY <1>4, <2>4, <4>1, <4>2
    <3> QED BY <2>2, <3>1
  <2>6. u \in Nat
    BY <2>2, <2>5
  <2> QED BY <2>4, <2>6, ProductMod DEF l
<1> QED BY <1>5, <1>6, <1>7

\* Batches that micro-batches of one size can be made of.
WholeBatches ==
  {b \in Seq(1 .. Total) : b # <<>> /\ (call.kind # "generate" => Len(b) % MicroBatchSize = 0)}

MiniBatches(r) == SplitBySize(Share(r), MiniBatchSize)

LEMMA MiniBatchesWhole ==
  ASSUME Inputs, call.kind = "update", NEW r \in Ranks
  PROVE  /\ Pieces(Len(Share(r)), MiniBatchSize) \in Nat \ {0}
         /\ MiniBatches(r) \in [1 .. Pieces(Len(Share(r)), MiniBatchSize) -> WholeBatches]
         /\ \A c \in 1 .. Pieces(Len(Share(r)), MiniBatchSize) :
              Len(MiniBatches(r)[c]) =
                PieceEnd(c, MiniBatchSize, Len(Share(r))) - PieceEnd(c - 1, MiniBatchSize, Len(Share(r)))
<1> DEFINE q == Share(r)
           m == Len(q)
           z == MiniBatchSize
           C == Pieces(m, z)
           s == MiniBatches(r)
           D == 1 .. Total
<1>1. q \in Seq(D) /\ q # <<>> /\ m % MicroBatchSize = 0
  BY SharedRows
<1>2. z \in Nat \ {0} /\ MicroBatchSize \in Nat \ {0} /\ z % MicroBatchSize = 0
  BY Parameters
<1>3. s = SplitBySize(q, z)
  BY DEF MiniBatches
<1> HIDE DEF D, q, z, s
<1>4. m \in Nat \ {0}
  BY <1>1
<1>5. C \in Nat \ {0}
  <2> HIDE DEF m
  <2> QED BY <1>2, <1>4, PiecesBounds
<1>6. s \in [1 .. C -> Seq(D)] /\ \A c \in 1 .. C : IsPiece(s[c], q, z, m, c)
  BY <1>1, <1>2, <1>3, SplitPieces
<1> HIDE DEF m
<1>7. ASSUME NEW c \in 1 .. C
      PROVE  s[c] \in WholeBatches /\ Len(s[c]) = PieceEnd(c, z, m) - PieceEnd(c - 1, z, m)
  <2>1. Len(s[c]) \in 1 .. z /\ Len(s[c]) = PieceEnd(c, z, m) - PieceEnd(c - 1, z, m)
    BY <1>6 DEF IsPiece
  <2>2. Len(s[c]) % MicroBatchSize = 0
    BY <1>1, <1>2, <1>4, <2>1, PieceDivides
  <2>3. s[c] \in Seq(D)
    BY <1>6
  <2>4. s[c] # <<>>
    BY <2>1, <2>3
  <2> QED BY <2>1, <2>2, <2>3, <2>4 DEF WholeBatches, D
<1>8. s \in [1 .. C -> WholeBatches]
  BY <1>6, <1>7
<1> QED BY <1>5, <1>7, <1>8 DEF C, m, s, z, q

\* What a rank goes through: its share, or mini-batches of it.
LEMMA PlanRows ==
  ASSUME Inputs, NEW r \in Ranks
  PROVE  /\ Plan(r) \in Seq(WholeBatches) /\ Len(Plan(r)) \in Nat \ {0}
         /\ call.kind # "update" => Plan(r) = <<Share(r)>> /\ Len(Plan(r)) = 1
<1>1. /\ Share(r) \in Seq(1 .. Total) /\ Share(r) # <<>>
      /\ call.kind # "generate" => Len(Share(r)) % MicroBatchSize = 0
  BY SharedRows
<1>2. CASE call.kind # "update"
  <2>1. Plan(r) = <<Share(r)>>
    BY <1>2 DEF Plan, Batches
  <2>2. Share(r) \in WholeBatches
    BY <1>1 DEF WholeBatches
  <2> QED BY <1>2, <2>1, <2>2
<1>3. CASE call.kind = "update"
  <2> DEFINE s == MiniBatches(r)
             C == Pieces(Len(Share(r)), MiniBatchSize)
             E == PpoEpochs
             seqs == [e \in 1 .. E |-> s]
             B == WholeBatches
  <2>1. C \in Nat \ {0} /\ s \in [1 .. C -> B]
    BY <1>3, MiniBatchesWhole
  <2>2. E \in Nat \ {0}
    BY Parameters
  <2>3. Plan(r) = FlattenSeq(seqs)
    BY <1>3 DEF Plan, Batches, Concat, MiniBatches
  <2> HIDE DEF s, C, E, B
  <2>4. s \in Seq(B) /\ Len(s) = C
    BY <2>1
  <2>5. seqs \in [1 .. E -> Seq(B)] /\ \A e \in 1 .. E : seqs[e] = s
    BY <2>4
  <2> HIDE DEF seqs
  <2>6. PICK F \in [0 .. E -> Seq(B)] :
           /\ F[0] = <<>>
           /\ \A e \in 1 .. E : F[e] = F[e - 1] \o seqs[e]
           /\ F[E] = FlattenSeq(seqs)
    BY <2>2, <2>5, FlattenParts
  <2> DEFINE u == F[E - 1]
  <2>7. F[E] \in Seq(B) /\ u \in Seq(B) /\ F[E] = u \o s
    <3>1. E \in 1 .. E /\ E - 1 \in 0 .. E /\ E \in 0 .. E
      BY <2>2
    <3>2. F[E] = F[E - 1] \o s
      BY <2>5, <2>6, <3>1
    <3> QED BY <2>6, <3>1, <3>2
  <2> HIDE DEF u
  <2>8. Len(F[E]) = Len(u) + C /\ Len(u) \in Nat
    BY <2>4, <2>7
  <2>9. Len(F[E]) \in Nat \ {0}
    BY <2>1, <2>8
  <2> QED BY <1>3, <2>3, <2>6, <2>7, <2>9 DEF B
<1> QED BY <1>2, <1>3

\* The batches of the ranks have the same sizes.
LEMMA PlansAlike ==
  ASSUME Inputs, NEW r \in Ranks, NEW t \in Ranks
  PROVE  /\ Len(Plan(r)) = Len(Plan(t))
         /\ \A i \in 1 .. Len(Plan(r)) : Len(Plan(r)[i]) = Len(Plan(t)[i])
<1>1. Len(Share(r)) = Len(Share(t))
  BY SharedRows
<1>2. CASE call.kind # "update"
  <2>1. Plan(r) = <<Share(r)>> /\ Plan(t) = <<Share(t)>>
    BY <1>2, PlanRows
  <2> QED BY <1>1, <2>1
<1>3. CASE call.kind = "update"
  <2> DEFINE m == Len(Share(r))
             C == Pieces(m, MiniBatchSize)
             B == WholeBatches
             f == [b \in B |-> Len(b)]
             E == PpoEpochs
             s == MiniBatches(r)
             u == MiniBatches(t)
             S == [e \in 1 .. E |-> s]
             U == [e \in 1 .. E |-> u]
             p == Plan(r)
             q == Plan(t)
  <2>1. /\ s \in [1 .. C -> B]
        /\ \A c \in 1 .. C : Len(s[c]) = PieceEnd(c, MiniBatchSize, m) - PieceEnd(c - 1, MiniBatchSize, m)
    BY <1>3, MiniBatchesWhole
  <2>2. /\ u \in [1 .. C -> B]
        /\ \A c \in 1 .. C : Len(u[c]) = PieceEnd(c, MiniBatchSize, m) - PieceEnd(c - 1, MiniBatchSize, m)
    BY <1>1, <1>3, MiniBatchesWhole
  <2>3. C \in Nat
    BY <1>3, MiniBatchesWhole
  <2>4. E \in Nat
    BY Parameters
  <2>5. p = FlattenSeq(S) /\ q = FlattenSeq(U)
    BY <1>3 DEF Plan, Batches, Concat, MiniBatches
  <2>6. p \in Seq(B) /\ q \in Seq(B)
    BY PlanRows
  <2>7. \A b \in B : f[b] = Len(b) /\ b \in Seq(1 .. Total)
    BY DEF WholeBatches
  <2>8. \A b \in B : Len(b) \in Nat
    BY <2>7
  <2> HIDE DEF B, C, m, s, u, p, q, E
  <2>9. Into(f, B, Nat)
    BY <2>7, <2>8 DEF Into
  <2> HIDE DEF f
  <2>10. \A c \in 1 .. C : s[c] \in B /\ u[c] \in B /\ f[s[c]] = f[u[c]]
    BY <2>1, <2>2, <2>7
  <2>11. Applied(f, s) = Applied(f, u)
    <3>1. Applied(f, s) = [c \in 1 .. C |-> f[s[c]]] /\ Applied(f, u) = [c \in 1 .. C |-> f[u[c]]]
      BY <2>1, <2>2 DEF Applied
    <3> QED BY <2>10, <3>1
  <2>12. S \in [1 .. E -> Seq(B)] /\ U \in [1 .. E -> Seq(B)]
    <3>1. s \in Seq(B) /\ u \in Seq(B)
      BY <2>1, <2>2, <2>3
    <3> QED BY <3>1
  <2>13. [e \in 1 .. E |-> Applied(f, S[e])] = [e \in 1 .. E |-> Applied(f, U[e])]
    BY <2>11
  <2> HIDE DEF S, U
  <2>14. Applied(f, p) = Applied(f, q)
    <3>1. FlattenSeq([e \in 1 .. E |-> Applied(f, S[e])]) = Applied(f, FlattenSeq(S))
      BY <2>4, <2>9, <2>12, FlattenApplied, SMTT(30)
    <3>2. FlattenSeq([e \in 1 .. E |-> Applied(f, U[e])]) = Applied(f, FlattenSeq(U))
      BY <2>4, <2>9, <2>12, FlattenApplied, SMTT(30)
    <3> QED BY <2>5, <2>13, <3>1, <3>2
  <2>15. Len(Applied(f, p)) = Len(p) /\ \A i \in 1 .. Len(p) : Applied(f, p)[i] = f[p[i]]
    BY <2>6, <2>9, AppliedElements
  <2>16. Len(Applied(f, q)) = Len(q) /\ \A i \in 1 .. Len(q) : Applied(f, q)[i] = f[q[i]]
    BY <2>6, <2>9, AppliedElements
  <2>17. Len(p) = Len(q)
    BY <2>14, <2>15, <2>16
  <2>18. \A i \in 1 .. Len(p) : p[i] \in B /\ q[i] \in B
    BY <2>6, <2>17
  <2>19. \A i \in 1 .. Len(p) : Len(p[i]) = Len(q[i])
    BY <2>7, <2>14, <2>15, <2>16, <2>17, <2>18
  <2> QED BY <2>17, <2>19 DEF p, q
<1> QED BY <1>2, <1>3

-----------------------------------------------------------------------------
(* What a step changes.                                                    *)

IsWorker(w) == w \in
  [at : {w.at}, left : {w.left}, count : {w.count}, micro : {w.micro}, begun : {w.begun},
   done : {w.done}, log_probs : {w.log_probs}, grads : {w.grads}, finite : {w.finite},
   steps : {w.steps}]

Workers == rank = [r \in Ranks |-> rank[r]] /\ \A r \in Ranks : IsWorker(rank[r])

Others(r) == \A s \in Ranks : s # r => rank'[s] = rank[s]

\* A rank that was like w is like u now.
Moves(r, w, u) ==
  /\ w = rank[r] /\ IsWorker(w)
  /\ u = rank'[r] /\ IsWorker(u)
  /\ Others(r) /\ Workers'

LEMMA MovesOnly ==
  ASSUME Workers, NEW r \in Ranks, NEW w, w = rank[r], NEW u, IsWorker(u),
         rank' = [rank EXCEPT ![r] = u]
  PROVE  Moves(r, w, u)
<1>1. IsWorker(rank[r]) /\ r \in DOMAIN rank /\ rank = [s \in Ranks |-> rank[s]]
  BY DEF Workers
<1>2. Workers' /\ Others(r)
  BY <1>1 DEF Workers, Others
<1>3. rank'[r] = u
  BY <1>1
<1> QED BY <1>1, <1>2, <1>3 DEF Moves

LEMMA GenerateMoves ==
  ASSUME Workers, NEW r \in Ranks, Generate(r)
  PROVE  \E w, u : /\ Moves(r, w, u)
                   /\ u = [w EXCEPT !.at = "returned", !.log_probs = @ \o Head(w.left)]
<1>1. IsWorker(rank[r]) /\ r \in DOMAIN rank /\ rank = [s \in Ranks |-> rank[s]]
  BY DEF Workers
<1>2. PICK w : w = rank[r]
  OBVIOUS
<1> DEFINE u == [w EXCEPT !.at = "returned", !.log_probs = @ \o Head(w.left)]
<1>3. rank' = [rank EXCEPT ![r] = u]
  BY <1>1, <1>2 DEF Generate, Batch
<1>4. IsWorker(u)
  BY <1>1, <1>2 DEF IsWorker
<1> HIDE DEF u
<1> QED BY <1>2, <1>3, <1>4, MovesOnly DEF u

\* Whatever the micro-batches are.
LEMMA PassesMove ==
  ASSUME Workers, NEW r \in Ranks, NEW micro, rank' = StartPasses(r, micro)
  PROVE  \E w, u : /\ Moves(r, w, u)
                   /\ u = [w EXCEPT !.at = "forward", !.micro = micro, !.grads = << >>]
<1>1. IsWorker(rank[r]) /\ r \in DOMAIN rank /\ rank = [s \in Ranks |-> rank[s]]
  BY DEF Workers
<1>2. PICK w : w = rank[r]
  OBVIOUS
<1> DEFINE u == [w EXCEPT !.at = "forward", !.micro = micro, !.grads = << >>]
<1>3. rank' = [rank EXCEPT ![r] = u]
  BY <1>1, <1>2 DEF StartPasses
<1>4. IsWorker(u)
  BY <1>1, <1>2 DEF IsWorker
<1> HIDE DEF u
<1> QED BY <1>2, <1>3, <1>4, MovesOnly DEF u

LEMMA CountMoves ==
  ASSUME Workers, NEW r \in Ranks, CountMicroBatches(r)
  PROVE  \E w, u, count :
           /\ Moves(r, w, u)
           /\ u = [w EXCEPT !.at = "counted", !.count = count]
           /\ count = IF CeilDiv(Tokens(Head(w.left), lens), MaxTokenLen) < Len(Head(w.left))
                      THEN CeilDiv(Tokens(Head(w.left), lens), MaxTokenLen) ELSE Len(Head(w.left))
<1>1. IsWorker(rank[r]) /\ r \in DOMAIN rank /\ rank = [s \in Ranks |-> rank[s]]
  BY DEF Workers
<1>2. PICK w : w = rank[r]
  OBVIOUS
<1> DEFINE count == IF CeilDiv(Tokens(Head(w.left), lens), MaxTokenLen) < Len(Head(w.left))
                    THEN CeilDiv(Tokens(Head(w.left), lens), MaxTokenLen) ELSE Len(Head(w.left))
           u == [w EXCEPT !.at = "counted", !.count = count]
<1>3. rank' = [rank EXCEPT ![r].at = "counted", ![r].count = count]
  BY <1>2 DEF CountMicroBatches, Batch
<1> HIDE DEF count
<1>4. rank' = [rank EXCEPT ![r] = u]
  BY <1>1, <1>2, <1>3
<1>5. IsWorker(u)
  BY <1>1, <1>2 DEF IsWorker
<1> HIDE DEF u
<1>6. Moves(r, w, u)
  BY <1>2, <1>4, <1>5, MovesOnly
<1> QED BY <1>6 DEF u, count

LEMMA SplitMoves ==
  ASSUME Workers, NEW r \in Ranks, BeginSplit(r)
  PROVE  \E w, u : Moves(r, w, u) /\ u = [w EXCEPT !.at = "split"]
<1>1. IsWorker(rank[r]) /\ r \in DOMAIN rank /\ rank = [s \in Ranks |-> rank[s]]
  BY DEF Workers
<1>2. PICK w : w = rank[r]
  OBVIOUS
<1> DEFINE u == [w EXCEPT !.at = "split"]
<1>3. rank' = [rank EXCEPT ![r] = u]
  BY <1>1, <1>2 DEF BeginSplit
<1>4. IsWorker(u)
  BY <1>1, <1>2 DEF IsWorker
<1> HIDE DEF u
<1> QED BY <1>2, <1>3, <1>4, MovesOnly DEF u

LEMMA BeginPassMoves ==
  ASSUME Workers, NEW r \in Ranks, BeginPass(r)
  PROVE  \E w, u : Moves(r, w, u) /\ u = [w EXCEPT !.begun = w.begun + 1]
<1>1. IsWorker(rank[r]) /\ r \in DOMAIN rank /\ rank = [s \in Ranks |-> rank[s]]
  BY DEF Workers
<1>2. PICK w : w = rank[r]
  OBVIOUS
<1> DEFINE u == [w EXCEPT !.begun = w.begun + 1]
<1>3. rank' = [rank EXCEPT ![r] = u]
  BY <1>1, <1>2 DEF BeginPass
<1>4. IsWorker(u)
  BY <1>1, <1>2 DEF IsWorker
<1> HIDE DEF u
<1> QED BY <1>2, <1>3, <1>4, MovesOnly DEF u

LEMMA ForwardMoves ==
  ASSUME Workers, NEW r \in Ranks, EndForward(r)
  PROVE  \E w, u : /\ Moves(r, w, u)
                   /\ u = [w EXCEPT !.done = w.done + 1, !.log_probs = w.log_probs \o MicroRows(r)]
<1>1. IsWorker(rank[r]) /\ r \in DOMAIN rank /\ rank = [s \in Ranks |-> rank[s]]
  BY DEF Workers
<1>2. PICK w : w = rank[r]
  OBVIOUS
<1> DEFINE u == [w EXCEPT !.done = w.done + 1, !.log_probs = w.log_probs \o MicroRows(r)]
<1>3. rank' = [rank EXCEPT ![r] = u]
  BY <1>1, <1>2 DEF EndForward
<1>4. IsWorker(u)
  BY <1>1, <1>2 DEF IsWorker
<1> HIDE DEF u
<1> QED BY <1>2, <1>3, <1>4, MovesOnly DEF u

LEMMA BackwardMoves ==
  ASSUME Workers, NEW r \in Ranks, EndBackward(r)
  PROVE  \E w, u : /\ Moves(r, w, u)
                   /\ u = [w EXCEPT !.done = w.done + 1,
                            !.grads = Append(w.grads, [rows |-> MicroRows(r), scale |-> LossScale(r)])]
<1>1. IsWorker(rank[r]) /\ r \in DOMAIN rank /\ rank = [s \in Ranks |-> rank[s]]
  BY DEF Workers
<1>2. PICK w : w = rank[r]
  OBVIOUS
<1> DEFINE g == [rows |-> MicroRows(r), scale |-> LossScale(r)]
           u == [w EXCEPT !.done = w.done + 1, !.grads = Append(w.grads, g)]
<1>3. rank' = [rank EXCEPT ![r].done = @ + 1, ![r].grads = Append(@, g)]
  BY DEF EndBackward
<1> HIDE DEF g
<1>4. rank' = [rank EXCEPT ![r] = u]
  BY <1>1, <1>2, <1>3
<1>5. IsWorker(u)
  BY <1>1, <1>2 DEF IsWorker
<1> HIDE DEF u
<1>6. Moves(r, w, u)
  BY <1>2, <1>4, <1>5, MovesOnly
<1> QED BY <1>6 DEF u, g

LEMMA ReturnMoves ==
  ASSUME Workers, NEW r \in Ranks, ReturnLogProbs(r)
  PROVE  \E w, u, answer :
           /\ Moves(r, w, u)
           /\ u = [w EXCEPT !.at = "returned", !.log_probs = answer]
           /\ answer = IF call.dynamic THEN Reorder(w.log_probs, ReverseIdx(Concat(w.micro)))
                                       ELSE w.log_probs
<1>1. IsWorker(rank[r]) /\ r \in DOMAIN rank /\ rank = [s \in Ranks |-> rank[s]]
  BY DEF Workers
<1>2. PICK w : w = rank[r]
  OBVIOUS
<1> DEFINE answer == IF call.dynamic THEN Reorder(w.log_probs, ReverseIdx(Concat(w.micro)))
                                     ELSE w.log_probs
           u == [w EXCEPT !.at = "returned", !.log_probs = answer]
<1>3. rank' = [rank EXCEPT ![r].at = "returned", ![r].log_probs = answer]
  BY <1>1, <1>2 DEF ReturnLogProbs
<1> HIDE DEF answer
<1>4. rank' = [rank EXCEPT ![r] = u]
  BY <1>1, <1>2, <1>3
<1>5. IsWorker(u)
  BY <1>1, <1>2 DEF IsWorker
<1> HIDE DEF u
<1>6. Moves(r, w, u)
  BY <1>2, <1>4, <1>5, MovesOnly
<1> QED BY <1>6 DEF u, answer

LEMMA StepMoves ==
  ASSUME Workers, NEW r \in Ranks, OptimizerStep(r)
  PROVE  \E w, u :
           /\ Moves(r, w, u)
           /\ u = [w EXCEPT !.at = IF Len(w.left) > 1 THEN "called" ELSE "returned",
                            !.left = Tail(w.left),
                            !.steps = IF w.finite THEN w.steps + 1 ELSE w.steps,
                            !.grads = IF w.finite /\ Len(w.left) > 1 THEN w.grads ELSE << >>]
<1>1. IsWorker(rank[r]) /\ r \in DOMAIN rank /\ rank = [s \in Ranks |-> rank[s]]
  BY DEF Workers
<1>2. PICK w : w = rank[r]
  OBVIOUS
<1> DEFINE u == [w EXCEPT !.at = IF Len(w.left) > 1 THEN "called" ELSE "returned",
                            !.left = Tail(w.left),
                            !.steps = IF w.finite THEN w.steps + 1 ELSE w.steps,
                            !.grads = IF w.finite /\ Len(w.left) > 1 THEN w.grads ELSE << >>]
<1>3. rank' = [rank EXCEPT ![r] = u]
  BY <1>1, <1>2 DEF OptimizerStep
<1>4. IsWorker(u)
  BY <1>1, <1>2 DEF IsWorker
<1> HIDE DEF u
<1> QED BY <1>2, <1>3, <1>4, MovesOnly DEF u

\* A step of all ranks, each of which was like w and is like u.
Turns(r, w, u) == w = rank[r] /\ IsWorker(w) /\ u = rank'[r] /\ IsWorker(u)

LEMMA AgreedMove ==
  ASSUME Workers, AllReduce
  PROVE  /\ Workers'
         /\ \E most : /\ \E r \in Ranks : most = rank[r].count
                      /\ \A r \in Ranks : rank[r].count <= most
                      /\ \A r \in Ranks : \E w, u :
                           Turns(r, w, u) /\ u = [w EXCEPT !.at = "agreed", !.count = most]
<1>1. PICK most \in {rank[r].count : r \in Ranks} :
        /\ \A r \in Ranks : rank[r].count <= most
        /\ rank' = [r \in Ranks |-> [rank[r] EXCEPT !.at = "agreed", !.count = most]]
  BY DEF AllReduce
<1>2. ASSUME NEW r \in Ranks
      PROVE  \E w, u : Turns(r, w, u) /\ u = [w EXCEPT !.at = "agreed", !.count = most]
  <2>1. PICK w : w = rank[r]
    OBVIOUS
  <2> DEFINE u == [w EXCEPT !.at = "agreed", !.count = most]
  <2>2. IsWorker(w)
    BY <2>1 DEF Workers
  <2>3. IsWorker(u)
    BY <2>2 DEF IsWorker
  <2>4. rank'[r] = u
    BY <1>1, <2>1
  <2> HIDE DEF u
  <2> QED BY <2>1, <2>2, <2>3, <2>4 DEF Turns, u
<1>3. \A r \in Ranks : IsWorker(rank'[r])
  BY <1>2 DEF Turns
<1>4. Workers'
  BY <1>1, <1>3 DEF Workers
<1> QED BY <1>1, <1>2, <1>4

LEMMA ClippedMove ==
  ASSUME Workers, ClipGradNorm
  PROVE  /\ Workers'
         /\ \E finite \in BOOLEAN : \A r \in Ranks : \E w, u :
              /\ Turns(r, w, u)
              /\ u = [w EXCEPT !.at = "clipped", !.finite = finite, !.begun = 0, !.done = 0]
<1>1. PICK finite \in BOOLEAN :
        rank' = [r \in Ranks |-> [rank[r] EXCEPT !.at = "clipped", !.finite = finite,
                                                !.begun = 0, !.done = 0]]
  BY DEF ClipGradNorm
<1>2. ASSUME NEW r \in Ranks
      PROVE  \E w, u : /\ Turns(r, w, u)
                       /\ u = [w EXCEPT !.at = "clipped", !.finite = finite, !.begun = 0, !.done = 0]
  <2>1. PICK w : w = rank[r]
    OBVIOUS
  <2> DEFINE u == [w EXCEPT !.at = "clipped", !.finite = finite, !.begun = 0, !.done = 0]
  <2>2. IsWorker(w)
    BY <2>1 DEF Workers
  <2>3. IsWorker(u)
    BY <2>2 DEF IsWorker
  <2>4. rank'[r] = u
    BY <1>1, <2>1
  <2> HIDE DEF u
  <2> QED BY <2>1, <2>2, <2>3, <2>4 DEF Turns, u
<1>3. \A r \in Ranks : IsWorker(rank'[r])
  BY <1>2 DEF Turns
<1>4. Workers'
  BY <1>1, <1>3 DEF Workers
<1> QED BY <1>2, <1>4

LEMMA CalledMove ==
  ASSUME DispatchCall
  PROVE  /\ Workers'
         /\ \A r \in Ranks : \E u : /\ u = rank'[r] /\ IsWorker(u)
                                    /\ u = [IdleRank EXCEPT !.at = "called", !.left = Plan(r)]
<1>1. rank' = [r \in Ranks |-> [IdleRank EXCEPT !.at = "called", !.left = Plan(r)]]
  BY DEF DispatchCall, Plan, Share
<1>2. ASSUME NEW r \in Ranks
      PROVE  \E u : /\ u = rank'[r] /\ IsWorker(u)
                    /\ u = [IdleRank EXCEPT !.at = "called", !.left = Plan(r)]
  <2>1. PICK w : w = IdleRank
    OBVIOUS
  <2> DEFINE u == [w EXCEPT !.at = "called", !.left = Plan(r)]
  <2>2. IsWorker(w)
    BY <2>1 DEF IsWorker, IdleRank
  <2>3. IsWorker(u)
    BY <2>2 DEF IsWorker
  <2>4. rank'[r] = u
    BY <1>1, <2>1
  <2> HIDE DEF u
  <2> QED BY <2>1, <2>3, <2>4 DEF u
<1>3. \A r \in Ranks : IsWorker(rank'[r])
  BY <1>2
<1>4. Workers'
  BY <1>1, <1>3 DEF Workers
<1> QED BY <1>2, <1>4

-----------------------------------------------------------------------------
(* Every row is in one state of a heap.                                    *)

\* What a worker like w needs for its heap H.
Keeps(w, H) ==
  /\ w.at \in {"idle", "called", "counted", "agreed", "split", "forward", "clipped", "returned"}
  /\ w.left \in Seq(WholeBatches)
  /\ w.at \notin {"idle", "returned"} => w.left # <<>>
  /\ w.at \in {"counted", "agreed", "split"} => w.count \in Nat \ {0}
  /\ w.at \in {"idle", "called", "counted", "agreed"} => H = {}
  /\ H # {} => /\ w.left # <<>> /\ w.count \in Nat \ {0}
               /\ IsHeap(H, w.count, Len(Head(w.left)), Reorder(lens, Head(w.left)))

Balances ==
  /\ heap = [p \in 0 .. WorldSize |-> heap[p]]
  /\ pc = "start" => heap[0] = {}
  /\ heap[0] # {} => /\ IsHeap(heap[0], WorldSize, Total, lens)
                     /\ \A s \in heap[0] : Even(s, WorldSize)
  /\ pc \in {"start", "balance", "ready"} => \A r \in Ranks : rank[r].at = "idle"

Conserving ==
  /\ Inputs
  /\ Workers
  /\ Balances
  /\ \A r \in Ranks : Keeps(rank[r], heap[r])

LEMMA RanksAndHeaps ==
  /\ 0 \in 0 .. WorldSize
  /\ \A r \in Ranks : r \in 0 .. WorldSize /\ r # 0
  /\ \A p \in 0 .. WorldSize : p = 0 \/ p \in Ranks
BY Parameters DEF Ranks

LEMMA InitConserving == Init => Conserving
<1> SUFFICES ASSUME Init PROVE Conserving
  OBVIOUS
<1>1. PICK n \in 1 .. MaxRows :
        /\ call.kind # "generate" => n % (MicroBatchSize * WorldSize) = 0
        /\ lens \in [1 .. n -> 1 .. MaxLen]
        /\ rows = [i \in 1 .. n |-> i]
  BY DEF Init
<1>2. n \in Nat \ {0} /\ Total = n
  BY <1>1, Parameters DEF Total
<1>3. Enumerates(rows, 1 .. n)
  <2>1. rows \in Seq(1 .. n) /\ Len(rows) = n /\ \A i \in 1 .. n : rows[i] = i
    BY <1>1, <1>2
  <2>2. \A d \in 1 .. n : \E i \in 1 .. Len(rows) : rows[i] = d
    BY <2>1
  <2> QED BY <2>1, <2>2 DEF Enumerates
<1>4. call \in Calls
  BY DEF Init
<1>5. Inputs
  BY <1>1, <1>2, <1>3, <1>4 DEF Inputs
<1>6. heap = [p \in 0 .. WorldSize |-> {}] /\ pc = "start" /\ rank = [r \in Ranks |-> IdleRank]
  BY DEF Init
<1>7. \A p \in 0 .. WorldSize : heap[p] = {}
  BY <1>6
<1>8. \A r \in Ranks : rank[r] = IdleRank
  BY <1>6
<1>9. PICK w : w = IdleRank
  OBVIOUS
<1>10. w.at = "idle" /\ w.left = <<>> /\ IsWorker(w)
  BY <1>9 DEF IdleRank, IsWorker
<1>11. Workers
  BY <1>6, <1>8, <1>9, <1>10 DEF Workers
<1>12. Balances
  <2>1. heap[0] = {}
    BY <1>7, RanksAndHeaps
  <2>2. \A r \in Ranks : rank[r].at = "idle"
    BY <1>8, <1>9, <1>10
  <2>3. heap = [p \in 0 .. WorldSize |-> heap[p]]
    BY <1>6
  <2> QED BY <2>1, <2>2, <2>3 DEF Balances
<1>13. Keeps(w, {})
  <2>1. w.left \in Seq(WholeBatches)
    BY <1>10
  <2> QED BY <1>10, <2>1 DEF Keeps
<1>14. \A r \in Ranks : Keeps(rank[r], heap[r])
  BY <1>7, <1>8, <1>9, <1>13, RanksAndHeaps
<1> QED BY <1>5, <1>11, <1>12, <1>14 DEF Conserving

\* A step of the ranks that were called keeps the rest.
LEMMA RanksStep ==
  ASSUME Conserving, UNCHANGED <<call, lens, rows, pc>>, Workers',
         heap' = [p \in 0 .. WorldSize |-> heap'[p]], heap'[0] = heap[0],
         \A r \in Ranks : \/ rank'[r] = rank[r] /\ heap'[r] = heap[r]
                          \/ rank[r].at # "idle" /\ Keeps(rank'[r], heap'[r])
  PROVE  Conserving'
<1>1. Inputs /\ Balances /\ \A r \in Ranks : Keeps(rank[r], heap[r])
  BY DEF Conserving
<1>2. Inputs'
  BY <1>1 DEF Inputs, Total
<1>3. \A w, H : Keeps(w, H)' <=> Keeps(w, H)'
  OBVIOUS
<1>4. \A r \in Ranks : Keeps(rank[r], heap[r])'
  <2> SUFFICES ASSUME NEW r \in Ranks PROVE Keeps(rank[r], heap[r])'
    OBVIOUS
  <2>1. Keeps(rank'[r], heap'[r])
    BY <1>1
  <2> QED BY <2>1 DEF Keeps, WholeBatches, Total
<1>5. Balances'
  <2>1. pc \in {"start", "balance", "ready"} => \A r \in Ranks : rank'[r].at = "idle"
    BY <1>1 DEF Balances
  <2> QED BY <1>1, <2>1 DEF Balances, Total
<1> QED BY <1>2, <1>4, <1>5 DEF Conserving

\* A step of one rank.
LEMMA RankStep ==
  ASSUME Conserving, UNCHANGED <<call, lens, rows, pc>>, NEW r \in Ranks, NEW w, NEW u,
         Moves(r, w, u), w.at # "idle", NEW H, Keeps(u, H), heap' = [heap EXCEPT ![r] = H]
  PROVE  Conserving'
<1>1. heap = [p \in 0 .. WorldSize |-> heap[p]]
  BY DEF Conserving, Balances
<1>2. heap' = [p \in 0 .. WorldSize |-> heap'[p]] /\ heap'[0] = heap[0] /\ heap'[r] = H
  BY <1>1, RanksAndHeaps
<1>3. \A s \in Ranks : s # r => heap'[s] = heap[s]
  BY <1>1, RanksAndHeaps
<1>4. \A s \in Ranks : \/ rank'[s] = rank[s] /\ heap'[s] = heap[s]
                       \/ rank[s].at # "idle" /\ Keeps(rank'[s], heap'[s])
  BY <1>2, <1>3 DEF Moves, Others
<1>5. Workers'
  BY DEF Moves
<1> QED BY <1>2, <1>4, <1>5, RanksStep

LEMMA BatchLengths ==
  ASSUME Inputs, NEW b \in Seq(1 .. Total)
  PROVE  Len(b) \in Nat /\ Lengths(Reorder(lens, b), Len(b))
<1> DEFINE T == Total
           m == Len(b)
           q == Reorder(lens, b)
<1>1. T \in Nat \ {0} /\ Lengths(lens, T)
  BY InputRows
<1>2. DOMAIN b = 1 .. m /\ m \in Nat /\ \A i \in 1 .. m : b[i] \in 1 .. T
  <2> DEFINE D == 1 .. T
  <2>1. b \in Seq(D)
    OBVIOUS
  <2> HIDE DEF D
  <2>2. DOMAIN b = 1 .. m /\ m \in Nat /\ \A i \in 1 .. m : b[i] \in D
    BY <2>1
  <2> QED BY <2>2 DEF D
<1> HIDE DEF T
<1>3. q = [i \in 1 .. m |-> lens[b[i]]]
  BY <1>2 DEF Reorder
<1>4. \A i \in 1 .. m : lens[b[i]] \in Nat \ {0}
  BY <1>1, <1>2 DEF Lengths
<1> HIDE DEF q, m
<1> QED BY <1>2, <1>3, <1>4 DEF Lengths, q, m

\* The k parts of q and of s are as long.
SameSizes(q, s, k) == \A i \in 1 .. k : Len(q[i]) = Len(s[i])

\* When one state is left, its partitions hold all rows.
LEMMA LastState ==
  ASSUME NEW n \in Nat, NEW L, NEW k \in Nat, NEW s, IsHeap({s}, k, n, L)
  PROVE  /\ Partitions(s) \in Buckets(k, n)
         /\ Shares(Partitions(s), 1 .. k, 1 .. n)
         /\ SameSizes(Partitions(s), s, k)
         /\ Enumerates(Concat(Partitions(s)), 1 .. n)
<1>1. IsState(s, k, n, L) /\ \A d \in 1 .. n : d \in RowsIn(s, n)
  BY DEF IsHeap
<1>2. RowsIn(s, n) = 1 .. n
  <2>1. RowsIn(s, n) \subseteq 1 .. n
    BY DEF RowsIn
  <2> QED BY <1>1, <2>1
<1> DEFINE q == Partitions(s)
<1>3. q \in Buckets(k, n) /\ Shares(q, 1 .. k, 1 .. n) /\ \A i \in 1 .. k : Len(q[i]) = Len(s[i])
  BY <1>1, <1>2, PartitionsShare
<1> HIDE DEF q
<1>4. q \in [1 .. k -> Seq(1 .. n)]
  BY <1>3 DEF Buckets
<1>5. Enumerates(Concat(q), 1 .. n)
  BY <1>3, <1>4, FlattenEnumerates DEF Concat
<1>6. SameSizes(q, s, k)
  BY <1>3 DEF SameSizes
<1> QED BY <1>3, <1>5, <1>6 DEF q

\* The batch in another order has the same rows.
LEMMA ReorderedRows ==
  ASSUME NEW D, NEW q, Enumerates(q, D), NEW p, Enumerates(p, 1 .. Len(q))
  PROVE  Enumerates(Reorder(q, p), D) /\ Len(Reorder(q, p)) = Len(p)
<1> DEFINE m == Len(q)
           n == Len(p)
           u == Reorder(q, p)
<1>1. q \in Seq(D) /\ p \in Seq(1 .. m) /\ m \in Nat /\ n \in Nat
  BY DEF Enumerates
<1>2. /\ \A i, j \in 1 .. m : q[i] = q[j] => i = j
      /\ \A d \in D : \E i \in 1 .. m : q[i] = d
      /\ \A i \in 1 .. m : q[i] \in D
  BY <1>1 DEF Enumerates
<1>3. /\ \A i, j \in 1 .. n : p[i] = p[j] => i = j
      /\ \A d \in 1 .. m : \E i \in 1 .. n : p[i] = d
      /\ \A i \in 1 .. n : p[i] \in 1 .. m
  <2> DEFINE M == 1 .. m
  <2>1. Enumerates(p, M)
    OBVIOUS
  <2> HIDE DEF M
  <2>2. p \in Seq(M) /\ (\A i, j \in 1 .. n : p[i] = p[j] => i = j) /\ \A d \in M : \E i \in 1 .. n : p[i] = d
    BY <2>1 DEF Enumerates
  <2>3. \A i \in 1 .. n : p[i] \in M
    BY <2>2
  <2> QED BY <2>2, <2>3 DEF M
<1>4. DOMAIN p = 1 .. n
  BY <1>1
<1> HIDE DEF m, n
<1>5. u = [i \in 1 .. n |-> q[p[i]]]
  BY <1>4 DEF Reorder
<1>6. \A i \in 1 .. n : u[i] = q[p[i]] /\ u[i] \in D
  BY <1>2, <1>3, <1>5
<1>7. u \in Seq(D) /\ Len(u) = n
  BY <1>1, <1>5, <1>6
<1> HIDE DEF u
<1>8. ASSUME NEW i \in 1 .. n, NEW j \in 1 .. n, u[i] = u[j] PROVE i = j
  <2> DEFINE x == p[i]
             y == p[j]
  <2>1. x \in 1 .. m /\ y \in 1 .. m /\ q[x] = q[y] /\ (x = y => i = j)
    BY <1>3, <1>6, <1>8
  <2> HIDE DEF x, y
  <2> QED BY <1>2, <2>1
<1>9. ASSUME NEW d \in D PROVE \E i \in 1 .. n : u[i] = d
  <2>1. PICK x \in 1 .. m : q[x] = d
    BY <1>2
  <2>2. PICK i \in 1 .. n : p[i] = x
    BY <1>3
  <2> QED BY <1>6, <2>1, <2>2
<1> QED BY <1>7, <1>8, <1>9 DEF Enumerates, u, n

LEMMA BeginBalanceConserves == Conserving /\ BeginBalance => Conserving'
<1> SUFFICES ASSUME Conserving, BeginBalance PROVE Conserving'
  OBVIOUS
<1>1. /\ Inputs /\ Workers /\ Balances /\ \A r \in Ranks : Keeps(rank[r], heap[r])
      /\ heap = [p \in 0 .. WorldSize |-> heap[p]]
      /\ pc = "start" /\ \A r \in Ranks : rank[r].at = "idle"
  BY DEF Conserving, BeginBalance, Balances
<1> DEFINE H == InitialStates(lens, WorldSize, TRUE)
<1>2. heap' = [heap EXCEPT ![0] = H] /\ pc' = "balance" /\ UNCHANGED <<call, lens, rows, rank>>
  BY DEF BeginBalance
<1>3. IsHeap(H, WorldSize, Total, lens) /\ \A s \in H : Even(s, WorldSize)
  <2>1. Total \in Nat /\ Lengths(lens, Total) /\ WorldSize \in Nat \ {0}
    BY <1>1, InputRows, Parameters
  <2>2. Total % WorldSize = 0
    <3>1. call.kind = "log_prob"
      BY <1>1 DEF BeginBalance, Inputs, Calls
    <3>2. Total % (MicroBatchSize * WorldSize) = 0
      BY <1>1, <3>1 DEF Inputs
    <3> DEFINE T == Total
    <3>3. T \in Nat /\ T % (MicroBatchSize * WorldSize) = 0
      BY <2>1, <3>2
    <3> HIDE DEF T
    <3>4. MicroBatchSize \in Nat \ {0}
      BY Parameters
    <3>5. T % WorldSize = 0
      BY <2>1, <3>3, <3>4, FactorDivides
    <3> QED BY <3>5 DEF T
  <2> QED BY <2>1, <2>2, InitialHeap
<1> HIDE DEF H
<1>4. heap' = [p \in 0 .. WorldSize |-> heap'[p]] /\ heap'[0] = H /\ \A r \in Ranks : heap'[r] = heap[r]
  BY <1>1, <1>2, RanksAndHeaps
<1>5. Inputs'
  BY <1>1, <1>2 DEF Inputs, Total
<1>6. Workers'
  BY <1>1, <1>2 DEF Workers
<1>7. Balances'
  BY <1>1, <1>2, <1>3, <1>4 DEF Balances, Total
<1>8. \A r \in Ranks : Keeps(rank[r], heap[r])'
  <2> SUFFICES ASSUME NEW r \in Ranks PROVE Keeps(rank[r], heap[r])'
    OBVIOUS
  <2>1. Keeps(rank'[r], heap'[r])
    BY <1>1, <1>2, <1>4
  <2> QED BY <1>2, <2>1 DEF Keeps, WholeBatches, Total
<1> QED BY <1>5, <1>6, <1>7, <1>8 DEF Conserving

LEMMA EndBalanceConserves == Conserving /\ EndBalance => Conserving'
<1> SUFFICES ASSUME Conserving, EndBalance PROVE Conserving'
  OBVIOUS
<1>1. /\ Inputs /\ Workers /\ Balances /\ \A r \in Ranks : Keeps(rank[r], heap[r])
      /\ pc = "balance" /\ \A r \in Ranks : rank[r].at = "idle"
  BY DEF Conserving, EndBalance, Balances
<1>2. PICK s \in heap[0] : heap[0] = {s} /\ rows' = Reorder(rows, Concat(Partitions(s)))
  BY DEF EndBalance
<1>3. pc' = "ready" /\ UNCHANGED <<call, lens, rank, heap>>
  BY DEF EndBalance
<1>4. Enumerates(Concat(Partitions(s)), 1 .. Total)
  <2>1. IsHeap({s}, WorldSize, Total, lens)
    BY <1>1, <1>2 DEF Balances
  <2>2. Total \in Nat /\ WorldSize \in Nat
    BY <1>1, InputRows, Parameters
  <2> QED BY <2>1, <2>2, LastState
<1>5. Enumerates(rows', 1 .. Total)
  <2>1. Enumerates(rows, 1 .. Total) /\ Len(rows) = Total
    BY <1>1, InputRows DEF Inputs
  <2> QED BY <1>2, <1>4, <2>1, ReorderedRows
<1>6. Inputs'
  BY <1>1, <1>3, <1>5 DEF Inputs, Total
<1>7. Workers'
  BY <1>1, <1>3 DEF Workers
<1>8. Balances'
  BY <1>1, <1>3 DEF Balances, Total
<1>9. \A r \in Ranks : Keeps(rank[r], heap[r])'
  BY <1>1, <1>3 DEF Keeps, WholeBatches, Total
<1> QED BY <1>6, <1>7, <1>8, <1>9 DEF Conserving

LEMMA DispatchConserves == Conserving /\ DispatchCall => Conserving'
<1> SUFFICES ASSUME Conserving, DispatchCall PROVE Conserving'
  OBVIOUS
<1>1. /\ Inputs /\ Workers /\ Balances /\ \A r \in Ranks : Keeps(rank[r], heap[r])
      /\ pc \in {"start", "ready"} /\ \A r \in Ranks : rank[r].at = "idle"
  BY DEF Conserving, DispatchCall, Balances
<1>2. pc' = "calling" /\ UNCHANGED <<call, lens, rows, heap>>
  BY DEF DispatchCall
<1>3. /\ Workers'
      /\ \A r \in Ranks : \E u : /\ u = rank'[r] /\ IsWorker(u)
                                 /\ u = [IdleRank EXCEPT !.at = "called", !.left = Plan(r)]
  BY CalledMove
<1>4. ASSUME NEW r \in Ranks PROVE Keeps(rank'[r], heap'[r])
  <2>1. PICK u : /\ u = rank'[r] /\ IsWorker(u)
                 /\ u = [IdleRank EXCEPT !.at = "called", !.left = Plan(r)]
    BY <1>3
  <2>2. u.at = "called" /\ u.left = Plan(r)
    BY <2>1 DEF IdleRank
  <2>3. Plan(r) \in Seq(WholeBatches) /\ Len(Plan(r)) \in Nat \ {0}
    BY <1>1, PlanRows
  <2> DEFINE q == Plan(r)
  <2>4. q \in Seq(WholeBatches) /\ q # <<>>
    BY <2>3
  <2> HIDE DEF q
  <2>5. heap'[r] = {}
    BY <1>1, <1>2 DEF Keeps
  <2>6. u.left = q
    BY <2>2 DEF q
  <2>7. Keeps(u, {})
    BY <2>2, <2>4, <2>6 DEF Keeps
  <2> QED BY <2>1, <2>5, <2>7
<1>5. Inputs'
  BY <1>1, <1>2 DEF Inputs, Total
<1>6. Balances'
  BY <1>1, <1>2 DEF Balances, Total
<1>7. \A r \in Ranks : Keeps(rank[r], heap[r])'
  BY <1>2, <1>4 DEF Keeps, WholeBatches, Total
<1> QED BY <1>3, <1>5, <1>6, <1>7 DEF Conserving

LEMMA SameHeap ==
  ASSUME Conserving, NEW r \in Ranks, heap' = heap
  PROVE  heap' = [heap EXCEPT ![r] = heap[r]]
<1>1. heap = [p \in 0 .. WorldSize |-> heap[p]] /\ r \in 0 .. WorldSize
  BY RanksAndHeaps DEF Conserving, Balances
<1> QED BY <1>1

\* A worker that goes on with the same batch and number of micro-batches.
LEMMA KeepsOn ==
  ASSUME NEW w, NEW H, Keeps(w, H), w.left # <<>>, NEW u, u.left = w.left, u.count = w.count,
         u.at \in {"forward", "clipped", "returned"}
  PROVE  Keeps(u, H)
BY DEF Keeps

LEMMA PassesConserve ==
  ASSUME Conserving, NEW r \in Ranks, NEW w, NEW u, Moves(r, w, u), UNCHANGED <<call, lens, rows, heap, pc>>,
         w.at \notin {"idle", "returned"}, u.left = w.left, u.count = w.count,
         u.at \in {"forward", "clipped", "returned"}
  PROVE  Conserving'
<1>1. Keeps(w, heap[r])
  BY DEF Conserving, Moves
<1>2. w.left # <<>>
  BY <1>1 DEF Keeps
<1>3. Keeps(u, heap[r])
  BY <1>1, <1>2, KeepsOn
<1>4. heap' = [heap EXCEPT ![r] = heap[r]]
  BY SameHeap
<1> QED BY <1>3, <1>4, RankStep

LEMMA MostWorkConserves ==
  ASSUME Conserving, NEW r \in Ranks,
         \/ Generate(r) \/ SplitByRows(r) \/ EndSplit(r) \/ BeginPass(r) \/ EndForward(r)
         \/ EndBackward(r) \/ ReturnLogProbs(r)
  PROVE  Conserving'
<1>1. Workers /\ Keeps(rank[r], heap[r])
  BY DEF Conserving
<1>2. CASE Generate(r)
  <2>1. PICK w, u : Moves(r, w, u) /\ u = [w EXCEPT !.at = "returned", !.log_probs = @ \o Head(w.left)]
    BY <1>1, <1>2, GenerateMoves
  <2>2. u.at = "returned" /\ u.left = w.left /\ u.count = w.count
    BY <2>1 DEF Moves, IsWorker
  <2>3. w.at = "called" /\ UNCHANGED <<call, lens, rows, heap, pc>>
    BY <1>2, <2>1 DEF Generate, Moves
  <2> QED BY <2>1, <2>2, <2>3, PassesConserve
<1>3. ASSUME NEW micro, rank' = StartPasses(r, micro), rank[r].at \in {"called", "split"},
             UNCHANGED <<call, lens, rows, heap, pc>>
      PROVE  Conserving'
  <2>1. PICK w, u : Moves(r, w, u) /\ u = [w EXCEPT !.at = "forward", !.micro = micro, !.grads = << >>]
    BY <1>1, <1>3, PassesMove
  <2>2. u.at = "forward" /\ u.left = w.left /\ u.count = w.count
    BY <2>1 DEF Moves, IsWorker
  <2>3. w.at \in {"called", "split"}
    BY <1>3, <2>1 DEF Moves
  <2> QED BY <1>3, <2>1, <2>2, <2>3, PassesConserve
<1>4. CASE SplitByRows(r)
  <2>1. PICK micro : rank' = StartPasses(r, micro)
    BY <1>4 DEF SplitByRows
  <2>2. rank[r].at \in {"called", "split"} /\ UNCHANGED <<call, lens, rows, heap, pc>>
    BY <1>4 DEF SplitByRows
  <2> QED BY <1>3, <2>1, <2>2
<1>5. CASE EndSplit(r)
  <2>1. PICK micro : rank' = StartPasses(r, micro)
    BY <1>5 DEF EndSplit
  <2>2. rank[r].at \in {"called", "split"} /\ UNCHANGED <<call, lens, rows, heap, pc>>
    BY <1>5 DEF EndSplit
  <2> QED BY <1>3, <2>1, <2>2
<1>6. CASE BeginPass(r)
  <2>1. PICK w, u : Moves(r, w, u) /\ u = [w EXCEPT !.begun = w.begun + 1]
    BY <1>1, <1>6, BeginPassMoves
  <2>2. u.at = w.at /\ u.left = w.left /\ u.count = w.count
    BY <2>1 DEF Moves, IsWorker
  <2>3. w.at = "forward" /\ UNCHANGED <<call, lens, rows, heap, pc>>
    BY <1>6, <2>1 DEF BeginPass, Moves
  <2> QED BY <2>1, <2>2, <2>3, PassesConserve
<1>7. CASE EndForward(r)
  <2>1. PICK w, u : /\ Moves(r, w, u)
                    /\ u = [w EXCEPT !.done = w.done + 1, !.log_probs = w.log_probs \o MicroRows(r)]
    BY <1>1, <1>7, ForwardMoves
  <2>2. u.at = w.at /\ u.left = w.left /\ u.count = w.count
    BY <2>1 DEF Moves, IsWorker
  <2>3. w.at = "forward" /\ UNCHANGED <<call, lens, rows, heap, pc>>
    BY <1>7, <2>1 DEF EndForward, AllBegan, Moves
  <2> QED BY <2>1, <2>2, <2>3, PassesConserve
<1>8. CASE EndBackward(r)
  <2>1. PICK w, u : /\ Moves(r, w, u)
                    /\ u = [w EXCEPT !.done = w.done + 1,
                             !.grads = Append(w.grads, [rows |-> MicroRows(r), scale |-> LossScale(r)])]
    BY <1>1, <1>8, BackwardMoves
  <2>2. u.at = w.at /\ u.left = w.left /\ u.count = w.count
    BY <2>1 DEF Moves, IsWorker
  <2>3. w.at = "forward" /\ UNCHANGED <<call, lens, rows, heap, pc>>
    BY <1>8, <2>1 DEF EndBackward, AllBegan, Moves
  <2> QED BY <2>1, <2>2, <2>3, PassesConserve
<1>9. CASE ReturnLogProbs(r)
  <2>1. PICK w, u, answer : Moves(r, w, u) /\ u = [w EXCEPT !.at = "returned", !.log_probs = answer]
    BY <1>1, <1>9, ReturnMoves
  <2>2. u.at = "returned" /\ u.left = w.left /\ u.count = w.count
    BY <2>1 DEF Moves, IsWorker
  <2>3. w.at = "forward" /\ UNCHANGED <<call, lens, rows, heap, pc>>
    BY <1>9, <2>1 DEF ReturnLogProbs, Moves
  <2> QED BY <2>1, <2>2, <2>3, PassesConserve
<1> QED BY <1>2, <1>4, <1>5, <1>6, <1>7, <1>8, <1>9

\* The number of micro-batches a rank counts: no more than it has rows.
LEMMA CountBounds ==
  ASSUME Inputs, NEW b \in Seq(1 .. Total), b # <<>>, NEW count,
         count = IF CeilDiv(Tokens(b, lens), MaxTokenLen) < Len(b)
                 THEN CeilDiv(Tokens(b, lens), MaxTokenLen) ELSE Len(b)
  PROVE  count \in 1 .. Len(b)
<1> DEFINE t == Tokens(b, lens)
           m == Len(b)
           D == 1 .. Total
<1>1. m \in Nat \ {0}
  <2>1. b \in Seq(D)
    OBVIOUS
  <2> HIDE DEF D
  <2> QED BY <2>1
<1>2. t \in Nat /\ t # 0
  <2>1. Total \in Nat /\ Lengths(lens, Total)
    BY InputRows
  <2> QED BY <2>1, TokensCount
<1>3. MaxTokenLen \in Nat \ {0}
  BY Parameters
<1> DEFINE c == CeilDiv(t, MaxTokenLen)
<1>4. c = Pieces(t, MaxTokenLen)
  BY DEF CeilDiv, Pieces
<1>5. count = IF c < m THEN c ELSE m
  OBVIOUS
<1> HIDE DEF c, t, m
<1>6. c \in Nat /\ c # 0
  BY <1>2, <1>3, <1>4, PiecesBounds
<1> QED BY <1>1, <1>5, <1>6 DEF m

LEMMA HeadBatch ==
  ASSUME NEW w, NEW H, Keeps(w, H), w.left # <<>>
  PROVE  /\ Head(w.left) \in WholeBatches /\ Head(w.left) \in Seq(1 .. Total) /\ Head(w.left) # <<>>
         /\ Head(w.left) = w.left[1] /\ Len(w.left) \in Nat \ {0}
<1> DEFINE q == w.left
           B == WholeBatches
<1>1. q \in Seq(B) /\ q # <<>>
  BY DEF Keeps
<1> HIDE DEF q, B
<1>2. Head(q) \in B /\ Head(q) = q[1] /\ Len(q) \in Nat \ {0}
  BY <1>1
<1> QED BY <1>2 DEF q, B, WholeBatches

LEMMA CountConserves == \A r \in Ranks : Conserving /\ CountMicroBatches(r) => Conserving'
<1> SUFFICES ASSUME NEW r \in Ranks, Conserving, CountMicroBatches(r) PROVE Conserving'
  OBVIOUS
<1>1. Inputs /\ Workers /\ Keeps(rank[r], heap[r])
  BY DEF Conserving
<1>2. PICK w, u, count :
           /\ Moves(r, w, u)
           /\ u = [w EXCEPT !.at = "counted", !.count = count]
           /\ count = IF CeilDiv(Tokens(Head(w.left), lens), MaxTokenLen) < Len(Head(w.left))
                      THEN CeilDiv(Tokens(Head(w.left), lens), MaxTokenLen) ELSE Len(Head(w.left))
  BY <1>1, CountMoves
<1>3. u.at = "counted" /\ u.count = count /\ u.left = w.left
  BY <1>2 DEF Moves, IsWorker
<1>4. w.at = "called" /\ UNCHANGED <<call, lens, rows, heap, pc>> /\ Keeps(w, heap[r])
  BY <1>1, <1>2 DEF CountMicroBatches, Moves
<1>5. w.left # <<>> /\ heap[r] = {}
  BY <1>4 DEF Keeps
<1>6. count \in Nat \ {0}
  <2> DEFINE b == Head(w.left)
  <2>1. b \in Seq(1 .. Total) /\ b # <<>>
    BY <1>4, <1>5, HeadBatch
  <2>2. count = IF CeilDiv(Tokens(b, lens), MaxTokenLen) < Len(b)
                THEN CeilDiv(Tokens(b, lens), MaxTokenLen) ELSE Len(b)
    BY <1>2
  <2> HIDE DEF b
  <2>3. count \in 1 .. Len(b)
    BY <1>1, <2>1, <2>2, CountBounds
  <2> QED BY <2>3
<1>7. Keeps(u, heap[r])
  BY <1>3, <1>4, <1>5, <1>6 DEF Keeps
<1> QED BY <1>2, <1>4, <1>7, SameHeap, RankStep

LEMMA BeginSplitConserves == \A r \in Ranks : Conserving /\ BeginSplit(r) => Conserving'
<1> SUFFICES ASSUME NEW r \in Ranks, Conserving, BeginSplit(r) PROVE Conserving'
  OBVIOUS
<1>1. Inputs /\ Workers /\ Keeps(rank[r], heap[r])
  BY DEF Conserving
<1>2. PICK w, u : Moves(r, w, u) /\ u = [w EXCEPT !.at = "split"]
  BY <1>1, SplitMoves
<1>3. u.at = "split" /\ u.count = w.count /\ u.left = w.left
  BY <1>2 DEF Moves, IsWorker
<1>4. w = rank[r] /\ w.at = "agreed" /\ UNCHANGED <<call, lens, rows, pc>> /\ Keeps(w, heap[r])
  BY <1>1, <1>2 DEF BeginSplit, Moves
<1>5. w.left # <<>> /\ w.count \in Nat \ {0}
  BY <1>4 DEF Keeps
<1> DEFINE b == Head(w.left)
           H == InitialStates(Reorder(lens, b), w.count, FALSE)
<1>6. heap' = [heap EXCEPT ![r] = H]
  BY <1>4 DEF BeginSplit, BatchLens, Batch
<1>7. b \in Seq(1 .. Total)
  BY <1>4, <1>5, HeadBatch
<1> HIDE DEF b
<1>8. Len(b) \in Nat /\ Lengths(Reorder(lens, b), Len(b))
  BY <1>1, <1>7, BatchLengths
<1>9. IsHeap(H, w.count, Len(b), Reorder(lens, b))
  BY <1>5, <1>8, InitialHeap
<1> HIDE DEF H
<1>10. Keeps(u, H)
  BY <1>3, <1>4, <1>5, <1>9 DEF Keeps, b
<1> QED BY <1>2, <1>4, <1>6, <1>10, RankStep

LEMMA StepConserves == \A r \in Ranks : Conserving /\ OptimizerStep(r) => Conserving'
<1> SUFFICES ASSUME NEW r \in Ranks, Conserving, OptimizerStep(r) PROVE Conserving'
  OBVIOUS
<1>1. Inputs /\ Workers /\ Keeps(rank[r], heap[r])
  BY DEF Conserving
<1>2. PICK w, u :
           /\ Moves(r, w, u)
           /\ u = [w EXCEPT !.at = IF Len(w.left) > 1 THEN "called" ELSE "returned",
                            !.left = Tail(w.left),
                            !.steps = IF w.finite THEN w.steps + 1 ELSE w.steps,
                            !.grads = IF w.finite /\ Len(w.left) > 1 THEN w.grads ELSE << >>]
  BY <1>1, StepMoves
<1>3. u.at = (IF Len(w.left) > 1 THEN "called" ELSE "returned") /\ u.left = Tail(w.left)
  BY <1>2 DEF Moves, IsWorker
<1>4. /\ w.at = "clipped" /\ UNCHANGED <<call, lens, rows, pc>> /\ Keeps(w, heap[r])
      /\ heap' = [heap EXCEPT ![r] = {}]
  BY <1>1, <1>2 DEF OptimizerStep, Moves
<1>5. w.left # <<>> /\ w.left \in Seq(WholeBatches)
  BY <1>4 DEF Keeps
<1> DEFINE q == w.left
           B == WholeBatches
<1>6. q # <<>> /\ q \in Seq(B)
  BY <1>5
<1> HIDE DEF q, B
<1>7. Tail(q) \in Seq(B) /\ (Len(q) > 1 => Tail(q) # <<>>)
  BY <1>6
<1>8. Keeps(u, {})
  BY <1>3, <1>7 DEF Keeps, q, B
<1> QED BY <1>2, <1>4, <1>8, RankStep

LEMMA AllReduceConserves == Conserving /\ AllReduce => Conserving'
<1> SUFFICES ASSUME Conserving, AllReduce PROVE Conserving'
  OBVIOUS
<1>1. Workers /\ \A r \in Ranks : Keeps(rank[r], heap[r])
  BY DEF Conserving
<1>2. UNCHANGED <<call, lens, rows, heap, pc>> /\ \A r \in Ranks : rank[r].at = "counted"
  BY DEF AllReduce
<1>3. PICK most : /\ \E r \in Ranks : most = rank[r].count
                  /\ \A r \in Ranks : \E w, u :
                       Turns(r, w, u) /\ u = [w EXCEPT !.at = "agreed", !.count = most]
  BY <1>1, AgreedMove
<1>4. most \in Nat \ {0}
  BY <1>1, <1>2, <1>3 DEF Keeps
<1>5. ASSUME NEW r \in Ranks PROVE Keeps(rank'[r], heap'[r])
  <2>1. PICK w, u : Turns(r, w, u) /\ u = [w EXCEPT !.at = "agreed", !.count = most]
    BY <1>3
  <2>2. u.at = "agreed" /\ u.left = w.left /\ u.count = most
    BY <2>1 DEF Turns, IsWorker
  <2>3. w.at = "counted" /\ Keeps(w, heap[r])
    BY <1>1, <1>2, <2>1 DEF Turns
  <2>4. Keeps(u, heap[r])
    BY <1>4, <2>2, <2>3 DEF Keeps
  <2> QED BY <1>2, <2>1, <2>4 DEF Turns
<1>6. Workers'
  BY <1>1, AgreedMove
<1>7. heap' = [p \in 0 .. WorldSize |-> heap'[p]] /\ heap'[0] = heap[0]
  BY <1>2 DEF Conserving, Balances
<1>8. \A r \in Ranks : rank[r].at # "idle"
  BY <1>2
<1> QED BY <1>2, <1>5, <1>6, <1>7, <1>8, RanksStep

LEMMA ClipConserves == Conserving /\ ClipGradNorm => Conserving'
<1> SUFFICES ASSUME Conserving, ClipGradNorm PROVE Conserving'
  OBVIOUS
<1>1. Workers /\ \A r \in Ranks : Keeps(rank[r], heap[r])
  BY DEF Conserving
<1>2. UNCHANGED <<call, lens, rows, heap, pc>> /\ \A r \in Ranks : rank[r].at = "forward"
  BY DEF ClipGradNorm
<1>3. PICK finite \in BOOLEAN : \A r \in Ranks : \E w, u :
              /\ Turns(r, w, u)
              /\ u = [w EXCEPT !.at = "clipped", !.finite = finite, !.begun = 0, !.done = 0]
  BY <1>1, ClippedMove
<1>4. ASSUME NEW r \in Ranks PROVE Keeps(rank'[r], heap'[r])
  <2>1. PICK w, u : /\ Turns(r, w, u)
                    /\ u = [w EXCEPT !.at = "clipped", !.finite = finite, !.begun = 0, !.done = 0]
    BY <1>3
  <2>2. u.at = "clipped" /\ u.left = w.left /\ u.count = w.count
    BY <2>1 DEF Turns, IsWorker
  <2>3. w.at = "forward" /\ Keeps(w, heap[r])
    BY <1>1, <1>2, <2>1 DEF Turns
  <2>4. w.left # <<>>
    BY <2>3 DEF Keeps
  <2>5. Keeps(u, heap[r])
    BY <2>2, <2>3, <2>4, KeepsOn
  <2> QED BY <1>2, <2>1, <2>5 DEF Turns
<1>5. Workers'
  BY <1>1, ClippedMove
<1>6. heap' = [p \in 0 .. WorldSize |-> heap'[p]] /\ heap'[0] = heap[0]
  BY <1>2 DEF Conserving, Balances
<1>7. \A r \in Ranks : rank[r].at # "idle"
  BY <1>2
<1> QED BY <1>2, <1>4, <1>5, <1>6, <1>7, RanksStep

LEMMA SameConserves ==
  ASSUME Conserving, UNCHANGED <<call, lens, rows, heap, rank>>,
         pc' = pc \/ pc' \notin {"start", "balance", "ready"}
  PROVE  Conserving'
<1>1. Inputs /\ Workers /\ Balances /\ \A r \in Ranks : Keeps(rank[r], heap[r])
  BY DEF Conserving
<1>2. Inputs'
  BY <1>1 DEF Inputs, Total
<1>3. Workers'
  BY <1>1 DEF Workers
<1>4. Balances'
  BY <1>1 DEF Balances, Total
<1>5. \A r \in Ranks : Keeps(rank[r], heap[r])'
  BY <1>1 DEF Keeps, WholeBatches, Total
<1> QED BY <1>2, <1>3, <1>4, <1>5 DEF Conserving

\* The states of a heap, for the number of buckets and the rows it is about.
HeapFits(p, k, n) ==
  /\ k \in Nat \ {0} /\ n \in Nat /\ Lengths(LensOf(p), n) /\ DOMAIN LensOf(p) = 1 .. n
  /\ IsHeap(heap[p], k, n, LensOf(p))
  /\ p = 0 => \A s \in heap[0] : Even(s, k)

LEMMA HeapsFit ==
  ASSUME Conserving, NEW p \in 0 .. WorldSize, heap[p] # {}
  PROVE  /\ p = 0 => HeapFits(p, WorldSize, Total)
         /\ p # 0 => /\ p \in Ranks /\ Head(rank[p].left) \in Seq(1 .. Total)
                     /\ HeapFits(p, rank[p].count, Len(Head(rank[p].left)))
                     /\ LensOf(p) = Reorder(lens, Head(rank[p].left))
<1>1. Inputs /\ Balances /\ \A r \in Ranks : Keeps(rank[r], heap[r])
  BY DEF Conserving
<1>2. CASE p = 0
  <2>1. LensOf(p) = lens
    BY <1>2 DEF LensOf
  <2>2. Total \in Nat /\ Lengths(lens, Total) /\ DOMAIN lens = 1 .. Total /\ WorldSize \in Nat \ {0}
    BY <1>1, InputRows, Parameters
  <2>3. IsHeap(heap[0], WorldSize, Total, lens) /\ \A s \in heap[0] : Even(s, WorldSize)
    BY <1>1, <1>2 DEF Balances
  <2> QED BY <1>2, <2>1, <2>2, <2>3 DEF HeapFits
<1>3. CASE p # 0
  <2> DEFINE b == Head(rank[p].left)
  <2>1. p \in Ranks
    BY <1>3, RanksAndHeaps
  <2>2. LensOf(p) = Reorder(lens, b)
    BY <1>3 DEF LensOf, BatchLens, Batch
  <2>3. Keeps(rank[p], heap[p]) /\ rank[p].left # <<>>
    BY <1>1, <2>1 DEF Keeps
  <2>4. b \in Seq(1 .. Total)
    BY <2>3, HeadBatch
  <2>5. rank[p].count \in Nat \ {0} /\ IsHeap(heap[p], rank[p].count, Len(b), Reorder(lens, b))
    BY <2>3 DEF Keeps
  <2> HIDE DEF b
  <2>6. Len(b) \in Nat /\ Lengths(Reorder(lens, b), Len(b))
    BY <1>1, <2>4, BatchLengths
  <2>7. DOMAIN Reorder(lens, b) = 1 .. Len(b)
    BY <2>6 DEF Lengths
  <2> QED BY <1>3, <2>1, <2>2, <2>4, <2>5, <2>6, <2>7 DEF HeapFits, b
<1> QED BY <1>2, <1>3

\* The heap of a merge, and of no other step but the first one.
LEMMA MergeMoves ==
  ASSUME Conserving, NEW p \in 0 .. WorldSize, MergeStep(p)
  PROVE  \E s, t \in heap[p] : s # t /\ heap' = [heap EXCEPT ![p] = (heap[p] \ {s, t}) \cup {MergeStates(s, t, LensOf(p))}]
BY DEF MergeStep

LEMMA MergeConserves == \A p \in 0 .. WorldSize : Conserving /\ MergeStep(p) => Conserving'
<1> SUFFICES ASSUME NEW p \in 0 .. WorldSize, Conserving, MergeStep(p) PROVE Conserving'
  OBVIOUS
<1>1. /\ Inputs /\ Workers /\ Balances /\ \A r \in Ranks : Keeps(rank[r], heap[r])
      /\ heap = [x \in 0 .. WorldSize |-> heap[x]]
  BY DEF Conserving, Balances
<1>2. UNCHANGED <<call, lens, rows, pc, rank>>
  BY DEF MergeStep
<1>3. PICK s \in heap[p], t \in heap[p] :
        s # t /\ heap' = [heap EXCEPT ![p] = (heap[p] \ {s, t}) \cup {MergeStates(s, t, LensOf(p))}]
  BY MergeMoves
<1> DEFINE H == (heap[p] \ {s, t}) \cup {MergeStates(s, t, LensOf(p))}
<1>4. heap' = [heap EXCEPT ![p] = H] /\ H # {}
  BY <1>3
<1>5. ASSUME NEW k, NEW n, HeapFits(p, k, n)
      PROVE  IsHeap(H, k, n, LensOf(p)) /\ (p = 0 => \A x \in H : Even(x, k))
  <2>1. /\ k \in Nat /\ n \in Nat /\ Lengths(LensOf(p), n) /\ IsHeap(heap[p], k, n, LensOf(p))
        /\ p = 0 => \A x \in heap[0] : Even(x, k)
    BY <1>5 DEF HeapFits
  <2> QED BY <1>3, <2>1, MergedHeap
<1> HIDE DEF H
<1>6. Inputs'
  BY <1>1, <1>2 DEF Inputs, Total
<1>7. Workers'
  BY <1>1, <1>2 DEF Workers
<1>8. heap' = [x \in 0 .. WorldSize |-> heap'[x]] /\ heap'[p] = H
      /\ \A x \in 0 .. WorldSize : x # p => heap'[x] = heap[x]
  BY <1>1, <1>4
<1>9. Balances'
  <2>1. CASE p = 0
    <3>1. HeapFits(p, WorldSize, Total)
      BY <1>3, <2>1, HeapsFit
    <3>2. LensOf(p) = lens
      BY <2>1 DEF LensOf
    <3>3. IsHeap(H, WorldSize, Total, lens) /\ \A x \in H : Even(x, WorldSize)
      BY <1>5, <2>1, <3>1, <3>2
    <3>4. pc # "start"
      BY <1>1, <1>3, <2>1 DEF Balances
    <3> QED BY <1>1, <1>2, <1>8, <2>1, <3>3, <3>4 DEF Balances, Total
  <2>2. CASE p # 0
    <3>1. heap'[0] = heap[0]
      BY <1>8, <2>2, RanksAndHeaps
    <3> QED BY <1>1, <1>2, <1>8, <3>1 DEF Balances, Total
  <2> QED BY <2>1, <2>2
<1>10. ASSUME NEW r \in Ranks PROVE Keeps(rank[r], heap[r])'
  <2>1. Keeps(rank[r], heap'[r])
    <3>1. CASE r # p
      BY <1>1, <1>8, <3>1, RanksAndHeaps
    <3>2. CASE r = p
      <4>1. p # 0
        BY <3>2, RanksAndHeaps
      <4>2. /\ HeapFits(p, rank[p].count, Len(Head(rank[p].left)))
            /\ LensOf(p) = Reorder(lens, Head(rank[p].left))
        BY <1>3, <4>1, HeapsFit
      <4>3. IsHeap(H, rank[p].count, Len(Head(rank[p].left)), Reorder(lens, Head(rank[p].left)))
        BY <1>5, <4>2
      <4>4. Keeps(rank[p], heap[p]) /\ heap[p] # {}
        BY <1>1, <1>3, <3>2
      <4> QED BY <1>8, <3>2, <4>3, <4>4 DEF Keeps
    <3> QED BY <3>1, <3>2
  <2> QED BY <1>2, <2>1 DEF Keeps, WholeBatches, Total
<1> QED BY <1>6, <1>7, <1>9, <1>10 DEF Conserving

LEMMA NextConserves == Conserving /\ [Next]_vars => Conserving'
<1> SUFFICES ASSUME Conserving, [Next]_vars PROVE Conserving'
  OBVIOUS
<1>1. CASE BeginBalance
  BY <1>1, BeginBalanceConserves
<1>2. CASE EndBalance
  BY <1>2, EndBalanceConserves
<1>3. CASE DispatchCall
  BY <1>3, DispatchConserves
<1>4. CASE AllReduce
  BY <1>4, AllReduceConserves
<1>5. CASE ClipGradNorm
  BY <1>5, ClipConserves
<1>6. CASE Collect
  BY <1>6, SameConserves DEF Collect
<1>7. ASSUME NEW r \in Ranks, Work(r) PROVE Conserving'
  BY <1>7, MostWorkConserves, CountConserves, BeginSplitConserves, StepConserves DEF Work
<1>8. ASSUME NEW p \in 0 .. WorldSize, MergeStep(p) PROVE Conserving'
  BY <1>8, MergeConserves
<1>9. CASE UNCHANGED vars
  BY <1>9, SameConserves DEF vars
<1> QED BY <1>1, <1>2, <1>3, <1>4, <1>5, <1>6, <1>7, <1>8, <1>9 DEF Next

LEMMA EnumeratedSet ==
  ASSUME NEW D, NEW q, Enumerates(q, D)
  PROVE  ToSet(q) = D
<1>1. q \in Seq(D) /\ \A d \in D : \E i \in 1 .. Len(q) : q[i] = d
  BY DEF Enumerates
<1>2. DOMAIN q = 1 .. Len(q) /\ \A i \in 1 .. Len(q) : q[i] \in D
  BY <1>1
<1>3. ToSet(q) = {q[i] : i \in DOMAIN q}
  BY DEF ToSet
<1> QED BY <1>1, <1>2, <1>3

LEMMA ConservesRows == Conserving => RowsAreConserved
<1> SUFFICES ASSUME Conserving, NEW p \in DOMAIN heap, heap[p] # {}
             PROVE  LET all == Concat(SetToSeq({Concat(s) : s \in heap[p]}))
                    IN  /\ Len(all) = Len(LensOf(p))
                        /\ ToSet(all) = DOMAIN LensOf(p)
                        /\ p = 0 => \A s \in heap[p] : \A i, j \in DOMAIN s : Len(s[i]) = Len(s[j])
  BY DEF RowsAreConserved
<1>1. p \in 0 .. WorldSize
  BY DEF Conserving, Balances
<1>2. PICK k, n : HeapFits(p, k, n)
  BY <1>1, HeapsFit
<1> DEFINE all == Concat(SetToSeq({Concat(s) : s \in heap[p]}))
           L == LensOf(p)
<1>3. /\ k \in Nat /\ n \in Nat /\ Lengths(L, n) /\ IsHeap(heap[p], k, n, L)
      /\ p = 0 => \A s \in heap[0] : Even(s, k)
  BY <1>2 DEF HeapFits
<1> HIDE DEF L
<1>4. Enumerates(all, 1 .. n)
  BY <1>3, HeapConserves
<1> HIDE DEF all
<1>5. Len(all) = n
  BY <1>3, <1>4, EnumerationSize
<1>6. Len(L) = n /\ DOMAIN L = 1 .. n
  BY <1>3 DEF Lengths
<1>7. ToSet(all) = 1 .. n
  BY <1>4, EnumeratedSet
<1>8. p = 0 => \A s \in heap[p] : \A i, j \in DOMAIN s : Len(s[i]) = Len(s[j])
  <2> SUFFICES ASSUME p = 0, NEW s \in heap[p] PROVE \A i, j \in DOMAIN s : Len(s[i]) = Len(s[j])
    OBVIOUS
  <2>1. s \in Buckets(k, n) /\ Even(s, k)
    BY <1>3 DEF IsHeap, IsState
  <2>2. DOMAIN s = 1 .. k
    BY <2>1 DEF Buckets
  <2> QED BY <2>1, <2>2 DEF Even
<1> QED BY <1>5, <1>6, <1>7, <1>8 DEF all, L

NoWorse == \A p \in DOMAIN heap : heap[p] # {} =>
             \A s \in heap'[p] : \E t \in heap[p] : Spread(s, LensOf(p)) <= Spread(t, LensOf(p))

LEMMA StatesSpread ==
  ASSUME NEW p, NEW k, NEW n, HeapFits(p, k, n), NEW s \in heap[p]
  PROVE  Spread(s, LensOf(p)) \in Int
<1>1. k \in Nat \ {0} /\ n \in Nat /\ Lengths(LensOf(p), n) /\ IsHeap(heap[p], k, n, LensOf(p))
  BY DEF HeapFits
<1>2. s \in Buckets(k, n)
  BY <1>1 DEF IsHeap, IsState
<1> QED BY <1>1, <1>2, SpreadIsNumber

LEMMA HeapStays ==
  ASSUME Conserving, NEW p \in DOMAIN heap, heap[p] # {}, heap'[p] = heap[p], NEW s \in heap'[p]
  PROVE  \E t \in heap[p] : Spread(s, LensOf(p)) <= Spread(t, LensOf(p))
<1>1. p \in 0 .. WorldSize
  BY DEF Conserving, Balances
<1>2. PICK k, n : HeapFits(p, k, n)
  BY <1>1, HeapsFit
<1> DEFINE x == Spread(s, LensOf(p))
<1>3. x \in Int
  BY <1>2, StatesSpread
<1> HIDE DEF x
<1>4. x <= x
  BY <1>3
<1> QED BY <1>4 DEF x

LEMMA MergeSpread ==
  ASSUME Conserving, NEW p \in 0 .. WorldSize, MergeStep(p)
  PROVE  NoWorse
<1>1. heap = [x \in 0 .. WorldSize |-> heap[x]]
  BY DEF Conserving, Balances
<1>2. PICK s \in heap[p], t \in heap[p] :
        s # t /\ heap' = [heap EXCEPT ![p] = (heap[p] \ {s, t}) \cup {MergeStates(s, t, LensOf(p))}]
  BY MergeMoves
<1>3. PICK k, n : HeapFits(p, k, n)
  BY <1>2, HeapsFit
<1> DEFINE L == LensOf(p)
           u == MergeStates(s, t, L)
<1>4. k \in Nat \ {0} /\ n \in Nat /\ Lengths(L, n) /\ IsHeap(heap[p], k, n, L)
  BY <1>3 DEF HeapFits
<1>5. Spread(u, L) <= Spread(s, L) \/ Spread(u, L) <= Spread(t, L)
  <2>1. s \in Buckets(k, n) /\ t \in Buckets(k, n) /\ Ordered(s, k, L) /\ Ordered(t, k, L)
    BY <1>4 DEF IsHeap, IsState
  <2> HIDE DEF L
  <2> QED BY <1>4, <2>1, MergedSpread
<1>6. heap'[p] = (heap[p] \ {s, t}) \cup {u} /\ \A x \in 0 .. WorldSize : x # p => heap'[x] = heap[x]
  BY <1>1, <1>2
<1> HIDE DEF u
<1> SUFFICES ASSUME NEW x \in DOMAIN heap, heap[x] # {}, NEW v \in heap'[x]
             PROVE  \E y \in heap[x] : Spread(v, LensOf(x)) <= Spread(y, LensOf(x))
  BY DEF NoWorse
<1>7. CASE x # p
  <2>1. heap'[x] = heap[x]
    BY <1>1, <1>6, <1>7
  <2> QED BY <2>1, HeapStays
<1>8. CASE x = p /\ v = u
  BY <1>5, <1>8 DEF L
<1>9. CASE x = p /\ v # u
  <2>1. v \in heap[p]
    BY <1>6, <1>9
  <2> DEFINE z == Spread(v, LensOf(p))
  <2>2. z \in Int
    BY <1>3, <2>1, StatesSpread
  <2> HIDE DEF z
  <2>3. z <= z
    BY <2>2
  <2> QED BY <1>9, <2>1, <2>3 DEF z
<1> QED BY <1>7, <1>8, <1>9

LEMMA NextSpread == Conserving /\ [Next]_vars => NoWorse
<1> SUFFICES ASSUME Conserving, [Next]_vars PROVE NoWorse
  OBVIOUS
<1>1. /\ heap = [x \in 0 .. WorldSize |-> heap[x]] /\ (pc = "start" => heap[0] = {})
      /\ \A r \in Ranks : Keeps(rank[r], heap[r])
  BY DEF Conserving, Balances
<1>2. CASE heap' = heap
  BY <1>2, HeapStays DEF NoWorse
<1>3. ASSUME NEW p \in 0 .. WorldSize, NEW H, heap' = [heap EXCEPT ![p] = H], heap[p] = {} \/ H = {}
      PROVE  NoWorse
  <2> SUFFICES ASSUME NEW x \in DOMAIN heap, heap[x] # {}, NEW v \in heap'[x]
               PROVE  \E y \in heap[x] : Spread(v, LensOf(x)) <= Spread(y, LensOf(x))
    BY DEF NoWorse
  <2>1. x # p
    BY <1>1, <1>3
  <2>2. heap'[x] = heap[x]
    BY <1>3, <2>1
  <2> QED BY <2>2, HeapStays
<1>4. CASE BeginBalance
  <2>1. PICK H : heap' = [heap EXCEPT ![0] = H]
    BY <1>4 DEF BeginBalance
  <2>2. heap[0] = {} /\ 0 \in 0 .. WorldSize
    BY <1>1, <1>4, RanksAndHeaps DEF BeginBalance
  <2> QED BY <1>3, <2>1, <2>2
<1>5. ASSUME NEW r \in Ranks, Work(r) PROVE NoWorse
  <2>1. r \in 0 .. WorldSize
    BY RanksAndHeaps
  <2>2. CASE BeginSplit(r)
    <3>1. PICK H : heap' = [heap EXCEPT ![r] = H]
      BY <2>2 DEF BeginSplit
    <3>2. heap[r] = {}
      BY <1>1, <2>2 DEF BeginSplit, Keeps
    <3> QED BY <1>3, <2>1, <3>1, <3>2
  <2>3. CASE OptimizerStep(r)
    <3>1. heap' = [heap EXCEPT ![r] = {}]
      BY <2>3 DEF OptimizerStep
    <3> QED BY <1>3, <2>1, <3>1
  <2>4. CASE \/ Generate(r) \/ SplitByRows(r) \/ CountMicroBatches(r) \/ EndSplit(r) \/ BeginPass(r)
             \/ EndForward(r) \/ EndBackward(r) \/ ReturnLogProbs(r)
    <3>1. heap' = heap
      BY <2>4 DEF Generate, SplitByRows, CountMicroBatches, EndSplit, BeginPass, EndForward, EndBackward, ReturnLogProbs
    <3> QED BY <1>2, <3>1
  <2> QED BY <1>5, <2>2, <2>3, <2>4 DEF Work
<1>6. ASSUME NEW p \in 0 .. WorldSize, MergeStep(p) PROVE NoWorse
  BY <1>6, MergeSpread
<1>7. CASE EndBalance \/ DispatchCall \/ AllReduce \/ ClipGradNorm \/ Collect \/ UNCHANGED vars
  <2>1. heap' = heap
    BY <1>7 DEF EndBalance, DispatchCall, AllReduce, ClipGradNorm, Collect, vars
  <2> QED BY <1>2, <2>1
<1> QED BY <1>4, <1>5, <1>6, <1>7 DEF Next

-----------------------------------------------------------------------------
(* A rank goes through its plan, and its batches through micro-batches.    *)

\* The batch a rank like w is at, which is one of its plan P.
Current(w) == Head(w.left)

Follows(w, P) ==
  /\ w.at # "idle"
  /\ Len(w.left) <= Len(P)
  /\ \A i \in 1 .. Len(w.left) : w.left[i] = P[Len(P) - Len(w.left) + i]
  /\ call.kind # "update" => Len(w.left) = 1
  /\ w.finite \in BOOLEAN /\ w.steps \in Nat

\* Its micro-batches, as many as were agreed on or of the size configured.
Splits(w, b, m) ==
  /\ w.micro \in Buckets(m, b)
  /\ Shares(w.micro, 1 .. m, 1 .. b)
  /\ \A i \in 1 .. m : w.micro[i] # <<>>
  /\ call.dynamic => m = w.count
  /\ ~call.dynamic => /\ m = Pieces(b, MicroBatchSize)
                      /\ \A i \in 1 .. m : Len(w.micro[i]) = MicroBatchSize
                      /\ Concat(w.micro) = [i \in 1 .. b |-> i]

First(s, d) == [i \in 1 .. d |-> s[i]]

Graded(w, d) ==
  [g \in 1 .. d |->
     LET micro == Reorder(Current(w), w.micro[g])
     IN  [rows  |-> micro,
          scale |-> IF call.dynamic THEN <<Len(micro), MiniBatchSize>>
                                    ELSE <<1, MiniBatchSize \div MicroBatchSize>>]]

\* The passes of the micro-batches, and what they leave behind.
Passes(w) ==
  /\ w.done \in Nat /\ w.begun \in {w.done, w.done + 1} /\ w.begun <= Len(w.micro)
  /\ call.kind = "log_prob" => w.log_probs = Reorder(Current(w), Concat(First(w.micro, w.done)))
  /\ call.kind = "update" => w.grads = Graded(w, w.done)

Goes(w, r) ==
  /\ Follows(w, Plan(r))
  /\ w.at \in {"counted", "agreed", "split"} =>
       call.dynamic /\ call.kind # "generate" /\ w.count \in 1 .. Len(Current(w))
  /\ w.at \notin {"forward", "returned"} =>
       w.begun = 0 /\ w.done = 0 /\ (call.kind # "update" => w.log_probs = <<>>)
  /\ w.at \in {"forward", "clipped"} =>
       call.kind # "generate" /\ Splits(w, Len(Current(w)), Len(w.micro))
  /\ w.at = "forward" => Passes(w)
  /\ w.at = "clipped" => call.kind = "update" /\ w.grads = Graded(w, Len(w.micro))
  /\ w.at = "returned" /\ call.kind # "update" => w.log_probs = Share(r)

\* What a rank will have left and stepped when it has finished a clipped step.
LeftAfter(w) == Len(w.left) - (IF w.at = "clipped" THEN 1 ELSE 0)

StepsAfter(w) == w.steps + (IF w.at = "clipped" /\ w.finite THEN 1 ELSE 0)

InStep(w, v) ==
  /\ LeftAfter(w) = LeftAfter(v)
  /\ StepsAfter(w) = StepsAfter(v)
  /\ w.at = "clipped" /\ v.at = "clipped" => w.finite = v.finite

\* All ranks have agreed on a number of micro-batches, or none has.
Apart(w) == w.at \in {"called", "counted", "clipped", "returned"}

Together(w) == w.at \in {"agreed", "split", "forward", "returned"}

Agreement ==
  call.dynamic =>
    \/ \A r \in Ranks : Apart(rank[r])
    \/ (\A r \in Ranks : Together(rank[r])) /\ (\A r, s \in Ranks : rank[r].count = rank[s].count)

Called == pc \notin {"start", "balance", "ready"}

Working ==
  /\ Called => /\ \A r \in Ranks : Goes(rank[r], r)
               /\ \A r, s \in Ranks : InStep(rank[r], rank[s])
               /\ Agreement
  /\ ~Called => \A r \in Ranks : rank[r].steps = 0
  /\ pc = "done" /\ call.kind # "update" => output = rows

\* No partition is empty when there are no more of them than rows.
LEMMA NonEmptyParts ==
  ASSUME NEW n \in Nat, NEW L, NEW k \in 1 .. n, NEW H, NEW s, H = {s}, IsHeap(H, k, n, L),
         NEW i \in 1 .. k
  PROVE  Len(s[i]) # 0
<1> SUFFICES ASSUME Len(s[i]) = 0 PROVE FALSE
  OBVIOUS
<1> DEFINE K == 1 .. k
           N == 1 .. n
<1>1. IsState(s, k, n, L) /\ \A d \in N : d \in RowsIn(s, n)
  BY DEF IsHeap
<1>2. \A j \in K : s[j] \in Seq(N)
  BY <1>1 DEF IsState, Buckets
<1>3. s[i] = <<>>
  <2> DEFINE b == s[i]
  <2>1. b \in Seq(N) /\ Len(b) = 0
    BY <1>2
  <2> HIDE DEF b, N
  <2>2. b = <<>>
    BY <2>1
  <2> QED BY <2>2 DEF b
<1>4. \A j \in K : Len(s[j]) <= 1
  BY <1>1, <1>3 DEF IsState, Filled
<1>5. ASSUME NEW d \in N PROVE \E j \in K : j # i /\ Len(s[j]) = 1 /\ s[j][1] = d
  <2>1. PICK j \in DOMAIN s : \E x \in 1 .. Len(s[j]) : s[j][x] = d
    BY <1>1 DEF RowsIn
  <2>2. j \in K
    BY <1>1, <2>1 DEF IsState, Buckets
  <2> DEFINE m == Len(s[j])
  <2>3. m \in Nat /\ m <= 1
    <3> DEFINE b == s[j]
    <3>1. b \in Seq(N)
      BY <1>2, <2>2
    <3> HIDE DEF b, N
    <3>2. Len(b) \in Nat
      BY <3>1
    <3> QED BY <1>4, <2>2, <3>2 DEF b
  <2>4. PICK x \in 1 .. m : s[j][x] = d
    BY <2>1
  <2> HIDE DEF m
  <2>5. m = 1 /\ x = 1
    BY <2>3, <2>4
  <2>6. j # i
    BY <2>5 DEF m
  <2> QED BY <2>2, <2>4, <2>5, <2>6 DEF m
<1> DEFINE f == [d \in N |-> CHOOSE j \in K : j # i /\ Len(s[j]) = 1 /\ s[j][1] = d]
           T == K \ {i}
<1>6. \A d \in N : f[d] \in K /\ f[d] # i /\ s[f[d]][1] = d
  BY <1>5
<1>7. f \in [N -> T]
  BY <1>6
<1> HIDE DEF f
<1>8. IsFiniteSet(N) /\ Cardinality(N) = n /\ IsFiniteSet(K) /\ Cardinality(K) = k
  BY FS_Interval
<1> HIDE DEF N
<1>9. IsFiniteSet(T) /\ Cardinality(T) = k - 1
  BY <1>8, FS_RemoveElement
<1>10. Cardinality(T) < Cardinality(N)
  BY <1>8, <1>9
<1> HIDE DEF T
<1>11. PICK x \in N, y \in N : x # y /\ f[x] = f[y]
  BY <1>7, <1>8, <1>9, <1>10, FS_PigeonHole
<1> QED BY <1>6, <1>11

LEMMA ReorderedElements ==
  ASSUME NEW S, NEW q \in Seq(S), NEW p \in Seq(1 .. Len(q))
  PROVE  /\ Reorder(q, p) \in Seq(S) /\ Len(Reorder(q, p)) = Len(p)
         /\ \A i \in 1 .. Len(p) : Reorder(q, p)[i] = q[p[i]]
<1> DEFINE D == 1 .. Len(q)
<1>1. Into(q, D, S) /\ p \in Seq(D)
  BY DEF Into
<1>2. Reorder(q, p) = Applied(q, p)
  BY DEF Reorder, Applied
<1> HIDE DEF D
<1> QED BY <1>1, <1>2, AppliedElements

\* Putting results back undoes the order they were computed in.
LEMMA ReverseRestores ==
  ASSUME NEW S, NEW q \in Seq(S), NEW p, Enumerates(p, 1 .. Len(q))
  PROVE  Reorder(Reorder(q, p), ReverseIdx(p)) = q
<1> DEFINE m == Len(q)
           D == 1 .. m
           u == Reorder(q, p)
           rev == ReverseIdx(p)
           v == Reorder(u, rev)
<1>1. m \in Nat /\ q = [i \in D |-> q[i]]
  OBVIOUS
<1>2. Len(p) = m
  BY <1>1, EnumerationSize
<1>3. Enumerates(p, D) /\ p \in Seq(D)
  BY DEF Enumerates
<1> HIDE DEF m
<1>4. DOMAIN p = D
  <2> HIDE DEF D
  <2>1. DOMAIN p = 1 .. Len(p)
    BY <1>3
  <2> QED BY <1>2, <2>1 DEF D
<1>5. \A j \in D : \E i \in D : p[i] = j
  BY <1>2, <1>3 DEF Enumerates
<1>6. rev = [j \in D |-> CHOOSE i \in D : p[i] = j]
  BY <1>4 DEF ReverseIdx
<1>7. u = [i \in D |-> q[p[i]]]
  BY <1>4 DEF Reorder
<1>8. \A j \in D : rev[j] \in D /\ p[rev[j]] = j
  BY <1>5, <1>6
<1>9. v = [j \in D |-> u[rev[j]]]
  <2>1. DOMAIN rev = D
    BY <1>6
  <2> HIDE DEF rev, u
  <2> QED BY <2>1 DEF Reorder
<1> HIDE DEF u, rev, v, D
<1>10. \A j \in D : u[rev[j]] = q[j]
  BY <1>7, <1>8
<1>11. v = q
  BY <1>1, <1>9, <1>10
<1> QED BY <1>11 DEF v, u, rev

LEMMA IdentityKeeps ==
  ASSUME NEW S, NEW q \in Seq(S)
  PROVE  Reorder(q, [i \in 1 .. Len(q) |-> i]) = q
<1> DEFINE D == 1 .. Len(q)
           p == [i \in D |-> i]
<1>1. DOMAIN p = D /\ \A i \in D : p[i] = i
  OBVIOUS
<1>2. Reorder(q, p) = [i \in D |-> q[p[i]]]
  BY <1>1 DEF Reorder
<1>3. q = [i \in D |-> q[i]]
  OBVIOUS
<1> HIDE DEF D, p
<1>4. Reorder(q, p) = q
  BY <1>1, <1>2, <1>3
<1> QED BY <1>4 DEF p, D

\* The rows of a micro-batch come behind those of the ones before it.
LEMMA FirstMore ==
  ASSUME NEW S, NEW q \in Seq(S), NEW m \in Nat, NEW s \in Buckets(m, Len(q)), NEW d \in Nat, d < m
  PROVE  /\ Reorder(q, Concat(First(s, d + 1))) = Reorder(q, Concat(First(s, d))) \o Reorder(q, s[d + 1])
         /\ Reorder(q, Concat(First(s, d))) \in Seq(S) /\ Reorder(q, s[d + 1]) \in Seq(S)
<1> DEFINE D == 1 .. Len(q)
           t == First(s, d)
           e == s[d + 1]
<1>1. \A i \in 1 .. m : s[i] \in Seq(D)
  BY DEF Buckets
<1>2. Into(q, D, S)
  BY DEF Into
<1> HIDE DEF D
<1>3. d + 1 \in 1 .. m /\ \A i \in 1 .. d : i \in 1 .. m
  OBVIOUS
<1>4. e \in Seq(D)
  BY <1>1, <1>3
<1>5. t = [i \in 1 .. d |-> s[i]] /\ \A i \in 1 .. d : t[i] \in Seq(D) /\ t[i] = s[i]
  BY <1>1, <1>3 DEF First
<1>6. t \in Seq(Seq(D)) /\ Len(t) = d
  BY <1>5
<1> HIDE DEF t, e
<1>7. First(s, d + 1) = Append(t, e)
  <2> DEFINE Q == Seq(D)
  <2>1. t \in Seq(Q) /\ e \in Q /\ d \in Nat /\ Len(t) = d
    BY <1>4, <1>6
  <2> HIDE DEF Q
  <2>2. Append(t, e) = [i \in 1 .. (d + 1) |-> IF i = d + 1 THEN e ELSE t[i]]
    BY <2>1, AppendElements
  <2>3. \A i \in 1 .. (d + 1) : (IF i = d + 1 THEN e ELSE t[i]) = s[i]
    <3> SUFFICES ASSUME NEW i \in 1 .. (d + 1), i # d + 1 PROVE t[i] = s[i]
      BY DEF e
    <3>1. i \in 1 .. d
      OBVIOUS
    <3> QED BY <1>5, <3>1
  <2> QED BY <2>2, <2>3 DEF First
<1>8. Concat(t) \in Seq(D) /\ Concat(First(s, d + 1)) = Concat(t) \o e
  BY <1>4, <1>6, <1>7, FlattenAppend DEF Concat
<1> DEFINE x == Concat(t)
<1>9. x \in Seq(D) /\ Concat(First(s, d + 1)) = x \o e
  BY <1>8
<1> HIDE DEF x
<1>10. Applied(q, x \o e) = Applied(q, x) \o Applied(q, e)
  BY <1>2, <1>4, <1>9, AppliedConcat
<1>11. Applied(q, x) \in Seq(S) /\ Applied(q, e) \in Seq(S)
  BY <1>2, <1>4, <1>9, AppliedElements
<1>12. \A y : Reorder(q, y) = Applied(q, y)
  BY DEF Reorder, Applied
<1> QED BY <1>9, <1>10, <1>11, <1>12 DEF x, e, t

LEMMA FirstAll ==
  ASSUME NEW m \in Nat, NEW b, NEW s \in Buckets(m, b)
  PROVE  First(s, m) = s /\ Len(s) = m
BY DEF First, Buckets

LEMMA FirstNone ==
  ASSUME NEW s, NEW q
  PROVE  Reorder(q, Concat(First(s, 0))) = <<>>
<1>1. First(s, 0) = <<>>
  BY DEF First
<1>2. Concat(<<>>) = <<>>
  <2>1. Len(<<>>) = 0
    OBVIOUS
  <2>2. FlattenSeq(<<>>) = <<>>
    BY <2>1 DEF FlattenSeq
  <2> QED BY <2>2 DEF Concat
<1> QED BY <1>1, <1>2 DEF Reorder

\* The gradients of one more micro-batch.
LEMMA GradedMore ==
  ASSUME NEW w, NEW d \in Nat
  PROVE  Append(Graded(w, d), Graded(w, d + 1)[d + 1]) = Graded(w, d + 1)
<1> DEFINE x(g) == [rows  |-> Reorder(Current(w), w.micro[g]),
                    scale |-> IF call.dynamic THEN <<Len(Reorder(Current(w), w.micro[g])), MiniBatchSize>>
                                              ELSE <<1, MiniBatchSize \div MicroBatchSize>>]
           S == {x(g) : g \in Nat}
           t == Graded(w, d)
           u == Graded(w, d + 1)
           e == x(d + 1)
<1>1. t = [g \in 1 .. d |-> x(g)] /\ u = [g \in 1 .. (d + 1) |-> x(g)]
  BY DEF Graded
<1>2. \A g \in Nat : x(g) \in S
  OBVIOUS
<1> HIDE DEF x, S, t, u
<1>3. t \in Seq(S) /\ Len(t) = d /\ e \in S /\ \A g \in 1 .. d : t[g] = x(g)
  BY <1>1, <1>2
<1>4. d + 1 \in 1 .. (d + 1) /\ u[d + 1] = e
  BY <1>1
<1> HIDE DEF e
<1>5. Append(t, e) = [g \in 1 .. (d + 1) |-> IF g = d + 1 THEN e ELSE t[g]]
  BY <1>3, AppendElements
<1>6. \A g \in 1 .. (d + 1) : (IF g = d + 1 THEN e ELSE t[g]) = x(g)
  <2> SUFFICES ASSUME NEW g \in 1 .. (d + 1), g # d + 1 PROVE t[g] = x(g)
    BY DEF e
  <2>1. g \in 1 .. d
    OBVIOUS
  <2> QED BY <1>3, <2>1
<1>7. Append(t, e) = u
  BY <1>1, <1>5, <1>6
<1> QED BY <1>4, <1>7 DEF t, u

LEMMA FlattenReordered ==
  ASSUME NEW S, NEW q \in Seq(S), NEW m \in Nat, NEW s \in Buckets(m, Len(q))
  PROVE  Concat([g \in 1 .. m |-> Reorder(q, s[g])]) = Reorder(q, Concat(s))
<1> DEFINE D == 1 .. Len(q)
<1>1. s \in [1 .. m -> Seq(D)]
  BY DEF Buckets
<1>2. Into(q, D, S)
  BY DEF Into
<1> HIDE DEF D
<1>3. FlattenSeq([g \in 1 .. m |-> Applied(q, s[g])]) = Applied(q, FlattenSeq(s))
  BY <1>1, <1>2, FlattenApplied, SMTT(30)
<1>4. \A y : Reorder(q, y) = Applied(q, y)
  BY DEF Reorder, Applied
<1> QED BY <1>3, <1>4 DEF Concat

\* The gradients of all micro-batches are those of the rows of the batch.
LEMMA GradedRows ==
  ASSUME NEW S, NEW w, Current(w) \in Seq(S), NEW m \in Nat, w.micro \in Buckets(m, Len(Current(w)))
  PROVE  Concat([g \in DOMAIN Graded(w, m) |-> Graded(w, m)[g].rows])
           = Reorder(Current(w), Concat(w.micro))
<1> DEFINE q == Current(w)
           s == w.micro
           t == [g \in DOMAIN Graded(w, m) |-> Graded(w, m)[g].rows]
<1>1. t = [g \in 1 .. m |-> Reorder(q, s[g])]
  BY DEF Graded
<1>2. q \in Seq(S) /\ s \in Buckets(m, Len(q))
  OBVIOUS
<1> HIDE DEF t, q, s
<1>3. Concat(t) = Reorder(q, Concat(s))
  BY <1>1, <1>2, FlattenReordered
<1> QED BY <1>3 DEF t, q, s

\* A rank that follows its plan is at one of its batches, which ranks that
\* are equally far have of the same size.
LEMMA FollowsBatch ==
  ASSUME Inputs, NEW r \in Ranks, NEW w, Follows(w, Plan(r)), w.left \in Seq(WholeBatches), w.left # <<>>
  PROVE  /\ Len(Plan(r)) - Len(w.left) + 1 \in 1 .. Len(Plan(r))
         /\ Current(w) = Plan(r)[Len(Plan(r)) - Len(w.left) + 1]
<1> DEFINE q == w.left
           B == WholeBatches
           P == Plan(r)
           N == Len(P)
<1>1. N \in Nat \ {0}
  BY PlanRows
<1>2. q \in Seq(B) /\ q # <<>> /\ Len(q) <= N /\ \A i \in 1 .. Len(q) : q[i] = P[N - Len(q) + i]
  BY DEF Follows
<1>3. Current(w) = Head(q)
  BY DEF Current
<1> HIDE DEF q, B, P, N
<1>4. Head(q) = q[1] /\ 1 \in 1 .. Len(q) /\ Len(q) \in Nat
  BY <1>2
<1>5. q[1] = P[N - Len(q) + 1]
  BY <1>2, <1>4
<1>6. N - Len(q) + 1 \in 1 .. N
  BY <1>1, <1>2, <1>4
<1> QED BY <1>3, <1>4, <1>5, <1>6 DEF q, P, N

LEMMA FollowsAlike ==
  ASSUME Inputs, NEW r \in Ranks, NEW w, Follows(w, Plan(r)), w.left \in Seq(WholeBatches), w.left # <<>>,
         NEW s \in Ranks, NEW v, Follows(v, Plan(s)), v.left \in Seq(WholeBatches), v.left # <<>>,
         Len(w.left) = Len(v.left)
  PROVE  Len(Current(w)) = Len(Current(v))
<1> DEFINE i == Len(Plan(r)) - Len(w.left) + 1
           P == Plan(r)
           Q == Plan(s)
<1>1. i \in 1 .. Len(P) /\ Current(w) = P[i]
  BY FollowsBatch
<1>2. Len(P) = Len(Q) /\ \A j \in 1 .. Len(P) : Len(P[j]) = Len(Q[j])
  BY PlansAlike
<1>3. Current(v) = Q[Len(Q) - Len(v.left) + 1]
  BY FollowsBatch
<1>4. Current(v) = Q[i]
  BY <1>2, <1>3
<1> HIDE DEF i, P, Q
<1>5. Len(P[i]) = Len(Q[i])
  BY <1>1, <1>2
<1> QED BY <1>1, <1>4, <1>5

LEMMA SamePlan ==
  ASSUME UNCHANGED <<call, rows>>, NEW r \in Ranks
  PROVE  Plan(r)' = Plan(r) /\ Share(r)' = Share(r)
BY DEF Plan, Share, Batches, Sent

\* A rank that was like w and is like u is as far as it was.
Continues(w, u) ==
  /\ LeftAfter(u) = LeftAfter(w)
  /\ StepsAfter(u) = StepsAfter(w)
  /\ u.at = "clipped" => w.at = "clipped" /\ u.finite = w.finite

LEMMA ContinuesStep ==
  ASSUME NEW w, NEW u, Continues(w, u), NEW v, NEW x, Continues(v, x), InStep(w, v)
  PROVE  InStep(u, x)
BY DEF Continues, InStep

LEMMA GoesStep ==
  ASSUME UNCHANGED <<call, lens, rows>>, \A r \in Ranks : Goes(rank'[r], r)
  PROVE  \A r \in Ranks : Goes(rank[r], r)'
<1> SUFFICES ASSUME NEW r \in Ranks PROVE Goes(rank[r], r)'
  OBVIOUS
<1>1. Plan(r)' = Plan(r) /\ Share(r)' = Share(r)
  BY SamePlan
<1>2. Goes(rank'[r], r)
  OBVIOUS
<1> DEFINE w == rank'[r]
<1>3. call' = call
  OBVIOUS
<1>4. Follows(rank[r], Plan(r))' <=> Follows(w, Plan(r))
  <2> HIDE DEF w
  <2>1. rank'[r] = w
    BY DEF w
  <2> QED BY <1>1, <1>3, <2>1 DEF Follows
<1>5. \A b, m : Splits(rank[r], b, m)' <=> Splits(w, b, m)
  BY <1>3 DEF Splits
<1>6. Current(rank[r])' = Current(w)
  BY DEF Current
<1>7. ASSUME NEW d PROVE Graded(rank[r], d)' = Graded(w, d)
  BY <1>3, <1>6 DEF Graded
<1>8. Passes(rank[r])' <=> Passes(w)
  BY <1>3, <1>6, <1>7 DEF Passes
<1> QED BY <1>1, <1>2, <1>3, <1>4, <1>5, <1>6, <1>7, <1>8 DEF Goes

LEMMA WorkingStep ==
  ASSUME UNCHANGED <<call, lens, rows, pc, output>>, Working, Called,
         \A r \in Ranks : Goes(rank'[r], r), \A r, s \in Ranks : InStep(rank'[r], rank'[s]),
         Agreement'
  PROVE  Working'
<1>1. \A r \in Ranks : Goes(rank[r], r)'
  BY GoesStep
<1>2. \A r, s \in Ranks : InStep(rank[r], rank[s])'
  BY DEF InStep, LeftAfter, StepsAfter
<1> QED BY <1>1, <1>2 DEF Working, Called

\* A rank on its own goes on alone or with the others, as it was.
Aligned(w, u) ==
  call.dynamic =>
    \/ w.at \in {"called", "counted", "clipped"} /\ Apart(u)
    \/ w.at \in {"agreed", "split", "forward"} /\ Together(u) /\ u.count = w.count

LEMMA WorkingRank ==
  ASSUME Conserving, Working, UNCHANGED <<call, lens, rows, pc, output>>, NEW r \in Ranks,
         NEW w, NEW u, Moves(r, w, u), w.at # "idle", Goes(u, r), Continues(w, u), Aligned(w, u)
  PROVE  Working'
<1>1. w = rank[r] /\ u = rank'[r] /\ \A s \in Ranks : s # r => rank'[s] = rank[s]
  BY DEF Moves, Others
<1>2. Called
  BY <1>1 DEF Conserving, Balances, Called
<1>3. /\ \A s \in Ranks : Goes(rank[s], s)
      /\ \A s, t \in Ranks : InStep(rank[s], rank[t])
      /\ Agreement
  BY <1>2 DEF Working
<1>4. \A s \in Ranks : Goes(rank'[s], s)
  BY <1>1, <1>3
<1>5. \A s \in Ranks : Continues(rank[s], rank'[s])
  <2> SUFFICES ASSUME NEW s \in Ranks PROVE Continues(rank[s], rank'[s])
    OBVIOUS
  <2>1. CASE s = r
    BY <1>1, <2>1
  <2>2. CASE s # r
    BY <1>1, <2>2 DEF Continues
  <2> QED BY <2>1, <2>2
<1>6. \A s, t \in Ranks : InStep(rank'[s], rank'[t])
  BY <1>3, <1>5, ContinuesStep
<1>7. Agreement'
  <2> SUFFICES ASSUME call.dynamic
               PROVE  \/ \A s \in Ranks : Apart(rank'[s])
                      \/ /\ \A s \in Ranks : Together(rank'[s])
                         /\ \A s, t \in Ranks : rank'[s].count = rank'[t].count
    BY DEF Agreement, Apart, Together
  <2>1. CASE w.at \in {"called", "counted", "clipped"} /\ Apart(u)
    <3>1. ~Together(rank[r])
      BY <1>1, <2>1 DEF Together
    <3>2. \A s \in Ranks : Apart(rank[s])
      BY <1>3, <3>1 DEF Agreement
    <3> QED BY <1>1, <2>1, <3>2
  <2>2. CASE w.at \in {"agreed", "split", "forward"} /\ Together(u) /\ u.count = w.count
    <3>1. ~Apart(rank[r])
      BY <1>1, <2>2 DEF Apart
    <3>2. /\ \A s \in Ranks : Together(rank[s])
          /\ \A s, t \in Ranks : rank[s].count = rank[t].count
      BY <1>3, <3>1 DEF Agreement
    <3>3. \A s \in Ranks : rank'[s].count = rank[s].count
      BY <1>1, <2>2
    <3>4. \A s, t \in Ranks : rank'[s].count = rank'[t].count
      BY <3>2, <3>3
    <3>5. \A s \in Ranks : Together(rank'[s])
      BY <1>1, <2>2, <3>2
    <3> QED BY <3>4, <3>5
  <2> QED BY <2>1, <2>2 DEF Aligned
<1> QED BY <1>2, <1>4, <1>6, <1>7, WorkingStep

LEMMA FirstRank == 1 \in Ranks
BY Parameters DEF Ranks

\* What holds of a rank at work.
LEMMA AtWork ==
  ASSUME Conserving, Working, NEW r \in Ranks, rank[r].at # "idle"
  PROVE  /\ Inputs /\ Workers /\ Keeps(rank[r], heap[r]) /\ Goes(rank[r], r) /\ Called
         /\ \A s \in Ranks : Goes(rank[s], s) /\ InStep(rank[r], rank[s])
         /\ Agreement
<1>1. Called
  BY DEF Conserving, Balances, Called
<1> QED BY <1>1 DEF Conserving, Working

LEMMA GenerateWorks == \A r \in Ranks : Conserving /\ Working /\ Generate(r) => Working'
<1> SUFFICES ASSUME NEW r \in Ranks, Conserving, Working, Generate(r) PROVE Working'
  OBVIOUS
<1>1. Inputs /\ Workers /\ Keeps(rank[r], heap[r]) /\ Goes(rank[r], r)
  BY AtWork DEF Generate
<1>2. PICK w, u : Moves(r, w, u) /\ u = [w EXCEPT !.at = "returned", !.log_probs = @ \o Head(w.left)]
  BY <1>1, GenerateMoves
<1>3. /\ u.at = "returned" /\ u.left = w.left /\ u.count = w.count /\ u.finite = w.finite
      /\ u.steps = w.steps /\ u.log_probs = w.log_probs \o Head(w.left)
  BY <1>2 DEF Moves, IsWorker
<1>4. /\ w.at = "called" /\ call.kind = "generate" /\ ~call.dynamic
      /\ UNCHANGED <<call, lens, rows, heap, pc, output>>
      /\ Keeps(w, heap[r]) /\ Goes(w, r)
  BY <1>1, <1>2 DEF Generate, Moves, Inputs, Calls
<1>5. w.left # <<>> /\ w.left \in Seq(WholeBatches) /\ Follows(w, Plan(r)) /\ w.log_probs = <<>>
  BY <1>4 DEF Keeps, Goes
<1>6. Head(w.left) = Share(r) /\ Share(r) \in Seq(1 .. Total)
  <2>1. Head(w.left) = Plan(r)[Len(Plan(r)) - Len(w.left) + 1]
    BY <1>1, <1>5, FollowsBatch DEF Current
  <2>2. Len(w.left) = 1 /\ Plan(r) = <<Share(r)>> /\ Len(Plan(r)) = 1
    BY <1>1, <1>4, <1>5, PlanRows DEF Follows
  <2>3. Head(w.left) = Plan(r)[1]
    BY <2>1, <2>2
  <2> QED BY <1>1, <2>2, <2>3, SharedRows
<1>7. u.log_probs = Share(r)
  BY <1>3, <1>5, <1>6
<1>8. Goes(u, r)
  BY <1>3, <1>4, <1>5, <1>7 DEF Goes, Follows
<1>9. Continues(w, u) /\ Aligned(w, u)
  BY <1>3, <1>4 DEF Continues, LeftAfter, StepsAfter, Aligned
<1> QED BY <1>2, <1>4, <1>8, <1>9, WorkingRank

LEMMA AtWorkLike ==
  ASSUME Conserving, Working, NEW r \in Ranks, NEW w, w = rank[r], w.at # "idle"
  PROVE  Inputs /\ Workers /\ Keeps(w, heap[r]) /\ Goes(w, r) /\ Called
BY AtWork

\* A worker that goes on with the same batch and micro-batches.
LEMMA GoesOn ==
  ASSUME NEW w, NEW u, u.left = w.left, u.micro = w.micro, u.count = w.count
  PROVE  /\ Current(u) = Current(w)
         /\ \A d : Graded(u, d) = Graded(w, d)
         /\ \A b, m : Splits(w, b, m) => Splits(u, b, m)
<1>1. Current(u) = Current(w)
  BY DEF Current
<1>2. \A d : Graded(u, d) = Graded(w, d)
  BY <1>1 DEF Graded
<1>3. \A b, m : Splits(w, b, m) => Splits(u, b, m)
  BY DEF Splits
<1> QED BY <1>1, <1>2, <1>3

LEMMA StartGoes ==
  ASSUME NEW r \in Ranks, NEW w, IsWorker(w), Goes(w, r), w.at \in {"called", "split"},
         call.kind # "generate", NEW micro, NEW m \in Nat, Len(micro) = m,
         NEW u, u = [w EXCEPT !.at = "forward", !.micro = micro, !.grads = <<>>],
         Splits(u, Len(Current(w)), m)
  PROVE  Goes(u, r) /\ Continues(w, u)
<1>1. /\ u.at = "forward" /\ u.micro = micro /\ u.grads = <<>> /\ u.left = w.left /\ u.count = w.count
      /\ u.finite = w.finite /\ u.steps = w.steps /\ u.begun = w.begun /\ u.done = w.done
      /\ u.log_probs = w.log_probs
  BY DEF IsWorker
<1>2. Follows(w, Plan(r)) /\ w.begun = 0 /\ w.done = 0 /\ (call.kind # "update" => w.log_probs = <<>>)
  BY DEF Goes
<1>3. Follows(u, Plan(r))
  BY <1>1, <1>2 DEF Follows
<1>4. Current(u) = Current(w)
  BY <1>1 DEF Current
<1>5. Reorder(Current(u), Concat(First(u.micro, 0))) = <<>>
  BY FirstNone
<1>6. Graded(u, 0) = <<>>
  BY DEF Graded
<1>7. Passes(u)
  <2>1. u.done = 0 /\ u.begun = 0 /\ Len(u.micro) = m
    BY <1>1, <1>2
  <2>2. call.kind = "log_prob" => u.log_probs = Reorder(Current(u), Concat(First(u.micro, u.done)))
    BY <1>1, <1>2, <1>5, <2>1
  <2>3. call.kind = "update" => u.grads = Graded(u, u.done)
    BY <1>1, <1>6, <2>1
  <2> QED BY <2>1, <2>2, <2>3 DEF Passes
<1>8. Goes(u, r)
  BY <1>1, <1>3, <1>4, <1>7 DEF Goes
<1>9. Continues(w, u)
  BY <1>1 DEF Continues, LeftAfter, StepsAfter
<1> QED BY <1>8, <1>9

LEMMA SplitByRowsWorks == \A r \in Ranks : Conserving /\ Working /\ SplitByRows(r) => Working'
<1> SUFFICES ASSUME NEW r \in Ranks, Conserving, Working, SplitByRows(r) PROVE Working'
  OBVIOUS
<1>1. Inputs /\ Workers /\ Keeps(rank[r], heap[r]) /\ Goes(rank[r], r)
  BY AtWork DEF SplitByRows
<1> DEFINE b == Batch(r)
           z == MicroBatchSize
           q == [i \in DOMAIN b |-> i]
           micro == SplitBySize(q, z)
           m == Pieces(Len(b), z)
<1>2. rank' = StartPasses(r, micro)
  BY DEF SplitByRows
<1>3. PICK w, u : Moves(r, w, u) /\ u = [w EXCEPT !.at = "forward", !.micro = micro, !.grads = << >>]
  <2> HIDE DEF micro
  <2> QED BY <1>1, <1>2, PassesMove
<1>4. /\ w.at = "called" /\ call.kind # "generate" /\ ~call.dynamic
      /\ UNCHANGED <<call, lens, rows, heap, pc, output>>
      /\ Keeps(w, heap[r]) /\ Goes(w, r) /\ IsWorker(w) /\ Current(w) = b
  BY <1>1, <1>3 DEF SplitByRows, Moves, Batch, Current
<1>5. b \in WholeBatches /\ b \in Seq(1 .. Total) /\ b # <<>>
  BY <1>4, HeadBatch DEF Keeps, Current
<1>6. Len(b) \in Nat \ {0} /\ DOMAIN b = 1 .. Len(b) /\ Len(b) % z = 0 /\ z \in Nat \ {0}
  <2> DEFINE D == 1 .. Total
  <2>1. b \in Seq(D) /\ b # <<>>
    BY <1>5
  <2>2. Len(b) % z = 0 /\ z \in Nat \ {0}
    BY <1>4, <1>5, Parameters DEF WholeBatches
  <2> HIDE DEF D, b, z
  <2> QED BY <2>1, <2>2
<1> HIDE DEF b
<1> DEFINE n == Len(b)
           D == 1 .. n
<1>7. q = [i \in D |-> i] /\ q \in Seq(D) /\ Len(q) = n
  BY <1>6
<1>8. Enumerates(q, D)
  <2>1. \A i \in D : q[i] = i
    BY <1>7
  <2> HIDE DEF q
  <2>2. \A i, j \in D : q[i] = q[j] => i = j
    BY <2>1
  <2>3. \A d \in D : \E i \in 1 .. Len(q) : q[i] = d
    BY <1>7, <2>1
  <2> QED BY <1>7, <2>2, <2>3 DEF Enumerates
<1> HIDE DEF q, z
<1>9. micro \in [1 .. m -> Seq(D)] /\ Concat(micro) = q /\ Shares(micro, 1 .. m, D)
  BY <1>6, <1>7, <1>8, SplitPieces, SplitShares
<1>10. \A i \in 1 .. m : Len(micro[i]) = z
  <2>1. Len(q) = n /\ n % z = 0
    BY <1>6, <1>7
  <2>2. \A i \in 1 .. m : IsPiece(micro[i], q, z, Len(q), i)
    BY <1>6, <1>7, SplitPieces
  <2> HIDE DEF micro, m, n
  <2> QED BY <2>1, <2>2 DEF IsPiece
<1>11. m \in Nat
  BY <1>6, PiecesBounds DEF n
<1> HIDE DEF m, D
<1>12. Len(micro) = m
  BY <1>9, <1>11
<1>13. \A i \in 1 .. m : micro[i] # <<>>
  BY <1>6, <1>10
<1> HIDE DEF micro
<1>14. u.micro = micro
  BY <1>3, <1>4 DEF IsWorker
<1>15. Splits(u, n, m)
  BY <1>4, <1>7, <1>9, <1>10, <1>13, <1>14 DEF Splits, Buckets, D, m, z
<1>16. Goes(u, r) /\ Continues(w, u)
  BY <1>3, <1>4, <1>11, <1>12, <1>15, StartGoes
<1>17. Aligned(w, u)
  BY <1>4 DEF Aligned
<1> QED BY <1>3, <1>4, <1>16, <1>17, WorkingRank

LEMMA CountWorks == \A r \in Ranks : Conserving /\ Working /\ CountMicroBatches(r) => Working'
<1> SUFFICES ASSUME NEW r \in Ranks, Conserving, Working, CountMicroBatches(r) PROVE Working'
  OBVIOUS
<1>1. Inputs /\ Workers /\ Keeps(rank[r], heap[r]) /\ Goes(rank[r], r)
  BY AtWork DEF CountMicroBatches
<1>2. PICK w, u, count :
           /\ Moves(r, w, u)
           /\ u = [w EXCEPT !.at = "counted", !.count = count]
           /\ count = IF CeilDiv(Tokens(Head(w.left), lens), MaxTokenLen) < Len(Head(w.left))
                      THEN CeilDiv(Tokens(Head(w.left), lens), MaxTokenLen) ELSE Len(Head(w.left))
  BY <1>1, CountMoves
<1>3. /\ u.at = "counted" /\ u.count = count /\ u.left = w.left /\ u.finite = w.finite
      /\ u.steps = w.steps /\ u.begun = w.begun /\ u.done = w.done /\ u.log_probs = w.log_probs
  BY <1>2 DEF Moves, IsWorker
<1>4. /\ w.at = "called" /\ call.kind # "generate" /\ call.dynamic
      /\ UNCHANGED <<call, lens, rows, heap, pc, output>>
      /\ Keeps(w, heap[r]) /\ Goes(w, r)
  BY <1>1, <1>2 DEF CountMicroBatches, Moves
<1>5. count \in 1 .. Len(Current(w)) /\ Current(u) = Current(w)
  <2> DEFINE b == Head(w.left)
  <2>1. b \in Seq(1 .. Total) /\ b # <<>> /\ Current(w) = b /\ Current(u) = b
    BY <1>3, <1>4, HeadBatch DEF Keeps, Current
  <2>2. count = IF CeilDiv(Tokens(b, lens), MaxTokenLen) < Len(b)
                THEN CeilDiv(Tokens(b, lens), MaxTokenLen) ELSE Len(b)
    BY <1>2
  <2> HIDE DEF b
  <2> QED BY <1>1, <2>1, <2>2, CountBounds
<1>6. Follows(u, Plan(r))
  BY <1>3, <1>4 DEF Goes, Follows
<1>7. Goes(u, r)
  BY <1>3, <1>4, <1>5, <1>6 DEF Goes
<1>8. Continues(w, u) /\ Aligned(w, u)
  BY <1>3, <1>4 DEF Continues, LeftAfter, StepsAfter, Aligned, Apart
<1> QED BY <1>2, <1>4, <1>7, <1>8, WorkingRank

LEMMA BeginSplitWorks == \A r \in Ranks : Conserving /\ Working /\ BeginSplit(r) => Working'
<1> SUFFICES ASSUME NEW r \in Ranks, Conserving, Working, BeginSplit(r) PROVE Working'
  OBVIOUS
<1>1. Inputs /\ Workers /\ Keeps(rank[r], heap[r]) /\ Goes(rank[r], r)
  BY AtWork DEF BeginSplit
<1>2. PICK w, u : Moves(r, w, u) /\ u = [w EXCEPT !.at = "split"]
  BY <1>1, SplitMoves
<1>3. /\ u.at = "split" /\ u.count = w.count /\ u.left = w.left /\ u.finite = w.finite
      /\ u.steps = w.steps /\ u.begun = w.begun /\ u.done = w.done /\ u.log_probs = w.log_probs
  BY <1>2 DEF Moves, IsWorker
<1>4. w.at = "agreed" /\ UNCHANGED <<call, lens, rows, pc, output>> /\ Goes(w, r)
  BY <1>1, <1>2 DEF BeginSplit, Moves
<1>5. Follows(u, Plan(r)) /\ Current(u) = Current(w)
  BY <1>3, <1>4 DEF Goes, Follows, Current
<1>6. Goes(u, r)
  BY <1>3, <1>4, <1>5 DEF Goes
<1>7. Continues(w, u) /\ Aligned(w, u)
  BY <1>3, <1>4 DEF Continues, LeftAfter, StepsAfter, Aligned, Together
<1> QED BY <1>2, <1>4, <1>6, <1>7, WorkingRank

LEMMA EndSplitWorks == \A r \in Ranks : Conserving /\ Working /\ EndSplit(r) => Working'
<1> SUFFICES ASSUME NEW r \in Ranks, Conserving, Working, EndSplit(r) PROVE Working'
  OBVIOUS
<1>1. Inputs /\ Workers /\ Keeps(rank[r], heap[r]) /\ Goes(rank[r], r)
  BY AtWork DEF EndSplit
<1>2. PICK state \in heap[r] : heap[r] = {state} /\ rank' = StartPasses(r, Partitions(state))
  BY DEF EndSplit
<1> DEFINE micro == Partitions(state)
<1>3. PICK w, u : Moves(r, w, u) /\ u = [w EXCEPT !.at = "forward", !.micro = micro, !.grads = << >>]
  <2>1. rank' = StartPasses(r, micro)
    BY <1>2
  <2> HIDE DEF micro
  <2> QED BY <1>1, <2>1, PassesMove
<1>4. /\ w.at = "split" /\ UNCHANGED <<call, lens, rows, heap, pc, output>>
      /\ Keeps(w, heap[r]) /\ Goes(w, r) /\ IsWorker(w)
  BY <1>1, <1>3 DEF EndSplit, Moves
<1> DEFINE b == Current(w)
           n == Len(b)
           m == w.count
           L == Reorder(lens, b)
<1>5. call.dynamic /\ call.kind # "generate" /\ m \in 1 .. n
  BY <1>4 DEF Goes
<1>6. w.left # <<>> /\ IsHeap(heap[r], m, n, L)
  BY <1>2, <1>4 DEF Keeps, Current
<1>7. n \in Nat /\ m \in Nat
  <2> DEFINE D == 1 .. Total
  <2>1. b \in Seq(D)
    BY <1>4, <1>6, HeadBatch DEF Current
  <2> HIDE DEF D, b
  <2>2. n \in Nat
    BY <2>1
  <2> QED BY <1>5, <2>2
<1> HIDE DEF n, m, L
<1>8. /\ micro \in Buckets(m, n)
      /\ Shares(micro, 1 .. m, 1 .. n)
      /\ \A i \in 1 .. m : Len(micro[i]) = Len(state[i])
  <2>1. IsHeap({state}, m, n, L)
    BY <1>2, <1>6
  <2>2. micro \in Buckets(m, n)
    BY <1>7, <2>1, LastState
  <2>3. Shares(micro, 1 .. m, 1 .. n)
    BY <1>7, <2>1, LastState
  <2>4. SameSizes(micro, state, m)
    BY <1>7, <2>1, LastState
  <2> HIDE DEF micro
  <2> QED BY <2>2, <2>3, <2>4 DEF SameSizes
<1>9. \A i \in 1 .. m : Len(state[i]) # 0
  BY <1>2, <1>5, <1>6, <1>7, NonEmptyParts
<1>10. \A i \in 1 .. m : micro[i] # <<>>
  BY <1>8, <1>9
<1> HIDE DEF micro
<1>11. Len(micro) = m
  BY <1>7, <1>8 DEF Buckets
<1>12. u.micro = micro /\ u.count = m
  BY <1>3, <1>4 DEF IsWorker, m
<1>13. Splits(u, n, m)
  BY <1>5, <1>8, <1>10, <1>12 DEF Splits
<1>14. Goes(u, r) /\ Continues(w, u)
  BY <1>3, <1>4, <1>5, <1>7, <1>11, <1>13, StartGoes DEF n
<1>15. Aligned(w, u)
  BY <1>3, <1>4, <1>12 DEF Aligned, Together, IsWorker, m
<1> QED BY <1>3, <1>4, <1>14, <1>15, WorkingRank

LEMMA BeginPassWorks == \A r \in Ranks : Conserving /\ Working /\ BeginPass(r) => Working'
<1> SUFFICES ASSUME NEW r \in Ranks, Conserving, Working, BeginPass(r) PROVE Working'
  OBVIOUS
<1>1. Inputs /\ Workers /\ Keeps(rank[r], heap[r]) /\ Goes(rank[r], r)
  BY AtWork DEF BeginPass
<1>2. PICK w, u : Moves(r, w, u) /\ u = [w EXCEPT !.begun = w.begun + 1]
  BY <1>1, BeginPassMoves
<1>3. /\ u.at = w.at /\ u.count = w.count /\ u.left = w.left /\ u.finite = w.finite /\ u.micro = w.micro
      /\ u.steps = w.steps /\ u.begun = w.begun + 1 /\ u.done = w.done /\ u.log_probs = w.log_probs
      /\ u.grads = w.grads
  BY <1>2 DEF Moves, IsWorker
<1>4. /\ w.at = "forward" /\ w.begun = w.done /\ w.begun < Len(w.micro)
      /\ UNCHANGED <<call, lens, rows, pc, output>> /\ Goes(w, r)
  BY <1>1, <1>2 DEF BeginPass, Moves
<1>5. /\ Follows(w, Plan(r)) /\ Splits(w, Len(Current(w)), Len(w.micro)) /\ Passes(w)
      /\ call.kind # "generate"
  BY <1>4 DEF Goes
<1>6. Follows(u, Plan(r))
  BY <1>3, <1>5 DEF Follows
<1>7. Current(u) = Current(w) /\ Splits(u, Len(Current(u)), Len(u.micro)) /\ \A d : Graded(u, d) = Graded(w, d)
  BY <1>3, <1>5, GoesOn
<1>8. Passes(u)
  <2>1. Len(u.micro) \in Nat
    BY <1>7 DEF Splits, Buckets
  <2>2. w.done \in Nat /\ u.begun <= Len(u.micro)
    BY <1>3, <1>4, <1>5, <2>1 DEF Passes
  <2> QED BY <1>3, <1>4, <1>5, <1>7, <2>2 DEF Passes
<1>9. Goes(u, r)
  BY <1>3, <1>4, <1>5, <1>6, <1>7, <1>8 DEF Goes
<1>10. Continues(w, u) /\ Aligned(w, u)
  BY <1>3, <1>4 DEF Continues, LeftAfter, StepsAfter, Aligned, Together
<1> QED BY <1>2, <1>4, <1>9, <1>10, WorkingRank

\* The batch of a worker in the passes over its micro-batches.
LEMMA CurrentRows ==
  ASSUME Inputs, NEW w, NEW H, Keeps(w, H), w.left # <<>>
  PROVE  Current(w) \in Seq(1 .. Total) /\ Len(Current(w)) \in Nat
<1> DEFINE D == 1 .. Total
           b == Current(w)
<1>1. b \in Seq(D)
  BY HeadBatch DEF Current
<1> HIDE DEF D, b
<1>2. Len(b) \in Nat
  BY <1>1
<1> QED BY <1>1, <1>2 DEF D, b

LEMMA CurrentShare ==
  ASSUME Inputs, NEW r \in Ranks, NEW w, NEW H, Keeps(w, H), w.left # <<>>, Follows(w, Plan(r)),
         call.kind # "update"
  PROVE  Current(w) = Share(r)
<1>1. w.left \in Seq(WholeBatches)
  BY DEF Keeps
<1>2. Current(w) = Plan(r)[Len(Plan(r)) - Len(w.left) + 1]
  BY <1>1, FollowsBatch
<1>3. Len(w.left) = 1 /\ Plan(r) = <<Share(r)>> /\ Len(Plan(r)) = 1
  BY PlanRows DEF Follows
<1>4. Current(w) = Plan(r)[1]
  BY <1>2, <1>3
<1> QED BY <1>3, <1>4

\* What a worker needs to end a pass.
LEMMA PassEnds ==
  ASSUME Conserving, Working, NEW r \in Ranks, NEW w, w = rank[r], AllBegan(r)
  PROVE  /\ Inputs /\ Workers /\ w.at = "forward" /\ w.left # <<>> /\ Keeps(w, heap[r]) /\ Goes(w, r)
         /\ Follows(w, Plan(r)) /\ Splits(w, Len(Current(w)), Len(w.micro)) /\ Passes(w)
         /\ w.done \in Nat /\ Len(w.micro) \in Nat /\ w.done < Len(w.micro) /\ w.begun = w.done + 1
         /\ MicroRows(r) = Reorder(Current(w), w.micro[w.done + 1])
<1>1. w.at = "forward" /\ w.begun > w.done
  BY DEF AllBegan
<1>2. Inputs /\ Workers /\ Keeps(w, heap[r]) /\ Goes(w, r)
  BY <1>1, AtWork
<1>3. Follows(w, Plan(r)) /\ Splits(w, Len(Current(w)), Len(w.micro)) /\ Passes(w)
  BY <1>1, <1>2 DEF Goes
<1>4. Len(w.micro) \in Nat
  BY <1>3 DEF Splits, Buckets
<1>5. w.done \in Nat /\ w.begun = w.done + 1 /\ w.done < Len(w.micro)
  BY <1>1, <1>3, <1>4 DEF Passes
<1>6. w.left # <<>>
  BY <1>1, <1>2 DEF Keeps
<1>7. MicroRows(r) = Reorder(Current(w), w.micro[w.done + 1])
  BY <1>5 DEF MicroRows, Batch, Current
<1> QED BY <1>1, <1>2, <1>3, <1>4, <1>5, <1>6, <1>7

LEMMA EndForwardWorks == \A r \in Ranks : Conserving /\ Working /\ EndForward(r) => Working'
<1> SUFFICES ASSUME NEW r \in Ranks, Conserving, Working, EndForward(r) PROVE Working'
  OBVIOUS
<1>1. Workers /\ AllBegan(r) /\ call.kind = "log_prob"
  BY DEF EndForward, Conserving
<1>2. PICK w, u : /\ Moves(r, w, u)
                  /\ u = [w EXCEPT !.done = w.done + 1, !.log_probs = w.log_probs \o MicroRows(r)]
  BY <1>1, ForwardMoves
<1>3. /\ u.at = w.at /\ u.count = w.count /\ u.left = w.left /\ u.finite = w.finite /\ u.micro = w.micro
      /\ u.steps = w.steps /\ u.begun = w.begun /\ u.done = w.done + 1
      /\ u.log_probs = w.log_probs \o MicroRows(r)
  BY <1>2 DEF Moves, IsWorker
<1>4. UNCHANGED <<call, lens, rows, heap, pc, output>> /\ w = rank[r]
  BY <1>2 DEF EndForward, Moves
<1>5. /\ Inputs /\ w.at = "forward" /\ w.left # <<>> /\ Keeps(w, heap[r]) /\ Goes(w, r)
      /\ Follows(w, Plan(r)) /\ Splits(w, Len(Current(w)), Len(w.micro)) /\ Passes(w)
      /\ w.done \in Nat /\ Len(w.micro) \in Nat /\ w.done < Len(w.micro) /\ w.begun = w.done + 1
      /\ MicroRows(r) = Reorder(Current(w), w.micro[w.done + 1])
  BY <1>1, <1>4, PassEnds
<1>6. Follows(u, Plan(r))
  BY <1>3, <1>5 DEF Follows
<1>7. Current(u) = Current(w) /\ Splits(u, Len(Current(u)), Len(u.micro))
  BY <1>3, <1>5, GoesOn
<1>8. u.log_probs = Reorder(Current(w), Concat(First(w.micro, w.done + 1)))
  <2> DEFINE D == 1 .. Total
             b == Current(w)
             s == w.micro
             d == w.done
             m == Len(s)
  <2>1. b \in Seq(D)
    BY <1>5, CurrentRows
  <2>2. s \in Buckets(m, Len(b)) /\ m \in Nat /\ d \in Nat /\ d < m
    BY <1>5 DEF Splits
  <2>3. u.log_probs = Reorder(b, Concat(First(s, d))) \o Reorder(b, s[d + 1])
    BY <1>1, <1>3, <1>5 DEF Passes
  <2> HIDE DEF D, b, s, d, m
  <2>4. u.log_probs = Reorder(b, Concat(First(s, d + 1)))
    BY <2>1, <2>2, <2>3, FirstMore
  <2> QED BY <2>4 DEF b, s, d
<1>9. Passes(u)
  <2>1. u.done \in Nat /\ u.begun = u.done /\ u.begun <= Len(u.micro)
    BY <1>3, <1>5
  <2>2. u.log_probs = Reorder(Current(u), Concat(First(u.micro, u.done)))
    BY <1>3, <1>7, <1>8
  <2> QED BY <1>1, <2>1, <2>2 DEF Passes
<1>10. Goes(u, r)
  BY <1>1, <1>3, <1>5, <1>6, <1>7, <1>9 DEF Goes
<1>11. Continues(w, u) /\ Aligned(w, u)
  BY <1>3, <1>5 DEF Continues, LeftAfter, StepsAfter, Aligned, Together
<1> QED BY <1>2, <1>4, <1>5, <1>10, <1>11, WorkingRank

LEMMA EndBackwardWorks == \A r \in Ranks : Conserving /\ Working /\ EndBackward(r) => Working'
<1> SUFFICES ASSUME NEW r \in Ranks, Conserving, Working, EndBackward(r) PROVE Working'
  OBVIOUS
<1>1. Workers /\ AllBegan(r) /\ call.kind = "update"
  BY DEF EndBackward, Conserving
<1>2. PICK w, u : /\ Moves(r, w, u)
                  /\ u = [w EXCEPT !.done = w.done + 1,
                            !.grads = Append(w.grads, [rows |-> MicroRows(r), scale |-> LossScale(r)])]
  BY <1>1, BackwardMoves
<1>3. /\ u.at = w.at /\ u.count = w.count /\ u.left = w.left /\ u.finite = w.finite /\ u.micro = w.micro
      /\ u.steps = w.steps /\ u.begun = w.begun /\ u.done = w.done + 1
      /\ u.grads = Append(w.grads, [rows |-> MicroRows(r), scale |-> LossScale(r)])
  BY <1>2 DEF Moves, IsWorker
<1>4. UNCHANGED <<call, lens, rows, heap, pc, output>> /\ w = rank[r]
  BY <1>2 DEF EndBackward, Moves
<1>5. /\ Inputs /\ w.at = "forward" /\ w.left # <<>> /\ Keeps(w, heap[r]) /\ Goes(w, r)
      /\ Follows(w, Plan(r)) /\ Splits(w, Len(Current(w)), Len(w.micro)) /\ Passes(w)
      /\ w.done \in Nat /\ Len(w.micro) \in Nat /\ w.done < Len(w.micro) /\ w.begun = w.done + 1
      /\ MicroRows(r) = Reorder(Current(w), w.micro[w.done + 1])
  BY <1>1, <1>4, PassEnds
<1>6. Follows(u, Plan(r))
  BY <1>3, <1>5 DEF Follows
<1>7. Current(u) = Current(w) /\ Splits(u, Len(Current(u)), Len(u.micro)) /\ \A d : Graded(u, d) = Graded(w, d)
  BY <1>3, <1>5, GoesOn
<1>8. u.grads = Graded(w, w.done + 1)
  <2> DEFINE g == [rows |-> MicroRows(r), scale |-> LossScale(r)]
  <2>1. w.done + 1 \in 1 .. (w.done + 1)
    BY <1>5
  <2>2. Graded(w, w.done + 1)[w.done + 1] = g
    BY <1>5, <2>1 DEF Graded, LossScale
  <2>3. u.grads = Append(w.grads, g) /\ w.grads = Graded(w, w.done)
    BY <1>1, <1>3, <1>5 DEF Passes
  <2> HIDE DEF g
  <2> QED BY <1>5, <2>2, <2>3, GradedMore
<1>9. Passes(u)
  BY <1>1, <1>3, <1>5, <1>7, <1>8 DEF Passes
<1>10. Goes(u, r)
  BY <1>1, <1>3, <1>5, <1>6, <1>7, <1>9 DEF Goes
<1>11. Continues(w, u) /\ Aligned(w, u)
  BY <1>3, <1>5 DEF Continues, LeftAfter, StepsAfter, Aligned, Together
<1> QED BY <1>2, <1>4, <1>5, <1>10, <1>11, WorkingRank

LEMMA ReturnWorks == \A r \in Ranks : Conserving /\ Working /\ ReturnLogProbs(r) => Working'
<1> SUFFICES ASSUME NEW r \in Ranks, Conserving, Working, ReturnLogProbs(r) PROVE Working'
  OBVIOUS
<1>1. Inputs /\ Workers /\ Keeps(rank[r], heap[r]) /\ Goes(rank[r], r)
  BY AtWork DEF ReturnLogProbs
<1>2. PICK w, u, answer :
           /\ Moves(r, w, u)
           /\ u = [w EXCEPT !.at = "returned", !.log_probs = answer]
           /\ answer = IF call.dynamic THEN Reorder(w.log_probs, ReverseIdx(Concat(w.micro)))
                                       ELSE w.log_probs
  BY <1>1, ReturnMoves
<1>3. /\ u.at = "returned" /\ u.count = w.count /\ u.left = w.left /\ u.finite = w.finite
      /\ u.steps = w.steps /\ u.log_probs = answer
  BY <1>2 DEF Moves, IsWorker
<1>4. /\ w.at = "forward" /\ call.kind = "log_prob" /\ w.done = Len(w.micro)
      /\ UNCHANGED <<call, lens, rows, heap, pc, output>>
      /\ Keeps(w, heap[r]) /\ Goes(w, r)
  BY <1>1, <1>2 DEF ReturnLogProbs, Moves
<1>5. /\ w.left # <<>> /\ Follows(w, Plan(r)) /\ Splits(w, Len(Current(w)), Len(w.micro))
      /\ w.log_probs = Reorder(Current(w), Concat(First(w.micro, Len(w.micro))))
  BY <1>4 DEF Keeps, Goes, Passes
<1>6. answer = Current(w)
  <2> DEFINE D == 1 .. Total
             b == Current(w)
             s == w.micro
             m == Len(s)
             n == Len(b)
  <2>1. b \in Seq(D) /\ n \in Nat
    BY <1>1, <1>4, <1>5, CurrentRows
  <2>2. s \in Buckets(m, n) /\ m \in Nat /\ Shares(s, 1 .. m, 1 .. n)
    BY <1>5 DEF Splits, Buckets
  <2>3. ~call.dynamic => Concat(s) = [i \in 1 .. n |-> i]
    BY <1>5 DEF Splits
  <2>4. w.log_probs = Reorder(b, Concat(First(s, m)))
    BY <1>5
  <2>5. answer = IF call.dynamic THEN Reorder(w.log_probs, ReverseIdx(Concat(s))) ELSE w.log_probs
    BY <1>2
  <2> HIDE DEF D, b, s, m
  <2>6. First(s, m) = s
    BY <2>1, <2>2, FirstAll
  <2>7. w.log_probs = Reorder(b, Concat(s))
    BY <2>4, <2>6
  <2>8. CASE call.dynamic
    <3>1. s \in [1 .. m -> Seq(1 .. n)]
      BY <2>2 DEF Buckets
    <3>2. Enumerates(Concat(s), 1 .. n)
      <4> HIDE DEF n
      <4> QED BY <2>1, <2>2, <3>1, FlattenEnumerates DEF Concat
    <3>3. Reorder(Reorder(b, Concat(s)), ReverseIdx(Concat(s))) = b
      BY <2>1, <3>2, ReverseRestores
    <3> QED BY <2>5, <2>7, <2>8, <3>3 DEF b
  <2>9. CASE ~call.dynamic
    <3>1. Reorder(b, [i \in 1 .. n |-> i]) = b
      BY <2>1, IdentityKeeps
    <3>2. Reorder(b, Concat(s)) = b
      BY <2>3, <2>9, <3>1
    <3> QED BY <2>5, <2>7, <2>9, <3>2 DEF b
  <2> QED BY <2>8, <2>9
<1>7. u.log_probs = Share(r)
  BY <1>1, <1>3, <1>4, <1>5, <1>6, CurrentShare
<1>8. Follows(u, Plan(r))
  BY <1>3, <1>5 DEF Follows
<1>9. Goes(u, r)
  BY <1>3, <1>7, <1>8 DEF Goes
<1>10. Continues(w, u) /\ Aligned(w, u)
  BY <1>3, <1>4 DEF Continues, LeftAfter, StepsAfter, Aligned, Together
<1> QED BY <1>2, <1>4, <1>9, <1>10, WorkingRank

LEMMA StepWorks == \A r \in Ranks : Conserving /\ Working /\ OptimizerStep(r) => Working'
<1> SUFFICES ASSUME NEW r \in Ranks, Conserving, Working, OptimizerStep(r) PROVE Working'
  OBVIOUS
<1>1. Inputs /\ Workers /\ Keeps(rank[r], heap[r]) /\ Goes(rank[r], r)
  BY AtWork DEF OptimizerStep
<1>2. PICK w, u :
        /\ Moves(r, w, u)
        /\ u = [w EXCEPT !.at = IF Len(w.left) > 1 THEN "called" ELSE "returned",
                         !.left = Tail(w.left),
                         !.steps = IF w.finite THEN w.steps + 1 ELSE w.steps,
                         !.grads = IF w.finite /\ Len(w.left) > 1 THEN w.grads ELSE << >>]
  BY <1>1, StepMoves
<1>3. /\ u.at = IF Len(w.left) > 1 THEN "called" ELSE "returned"
      /\ u.left = Tail(w.left) /\ u.finite = w.finite
      /\ u.steps = IF w.finite THEN w.steps + 1 ELSE w.steps
      /\ u.begun = w.begun /\ u.done = w.done
  BY <1>2 DEF Moves, IsWorker
<1>4. /\ w.at = "clipped" /\ UNCHANGED <<call, lens, rows, pc, output>>
      /\ Keeps(w, heap[r]) /\ Goes(w, r)
  BY <1>1, <1>2 DEF OptimizerStep, Moves
<1>5. /\ w.left \in Seq(WholeBatches) /\ w.left # <<>> /\ Follows(w, Plan(r)) /\ call.kind = "update"
      /\ w.begun = 0 /\ w.done = 0 /\ w.finite \in BOOLEAN /\ w.steps \in Nat
  BY <1>4 DEF Keeps, Goes, Follows
<1>6. /\ Len(w.left) \in Nat \ {0} /\ Len(u.left) = Len(w.left) - 1
      /\ \A i \in 1 .. Len(u.left) : u.left[i] = w.left[i + 1]
  <2> DEFINE q == w.left
             B == WholeBatches
  <2>1. q \in Seq(B) /\ q # <<>> /\ u.left = Tail(q)
    BY <1>3, <1>5
  <2> HIDE DEF q, B
  <2>2. /\ Len(q) \in Nat \ {0} /\ Len(Tail(q)) = Len(q) - 1
        /\ \A i \in 1 .. (Len(q) - 1) : Tail(q)[i] = q[i + 1]
    BY <2>1
  <2> QED BY <2>1, <2>2 DEF q
<1>7. Follows(u, Plan(r))
  <2> DEFINE P == Plan(r)
             N == Len(P)
             k == Len(w.left)
  <2>1. N \in Nat
    BY <1>1, PlanRows
  <2>2. k <= N /\ \A i \in 1 .. k : w.left[i] = P[N - k + i]
    BY <1>5 DEF Follows
  <2>3. k \in Nat \ {0} /\ Len(u.left) = k - 1 /\ \A i \in 1 .. (k - 1) : u.left[i] = w.left[i + 1]
    BY <1>6
  <2> HIDE DEF N, k, P
  <2>4. Len(u.left) <= N
    BY <2>1, <2>2, <2>3
  <2>5. ASSUME NEW i \in 1 .. (k - 1) PROVE u.left[i] = P[N - (k - 1) + i]
    <3>1. i + 1 \in 1 .. k /\ N - k + (i + 1) = N - (k - 1) + i
      BY <2>1, <2>3
    <3>2. w.left[i + 1] = P[N - k + (i + 1)]
      BY <2>2, <3>1
    <3> QED BY <2>3, <3>1, <3>2
  <2>6. u.at # "idle" /\ u.finite \in BOOLEAN /\ u.steps \in Nat
    BY <1>3, <1>5
  <2> QED BY <1>5, <2>3, <2>4, <2>5, <2>6 DEF Follows, N, P
<1>8. u.at \in {"called", "returned"}
  BY <1>3
<1>9. Goes(u, r)
  BY <1>3, <1>5, <1>7, <1>8 DEF Goes
<1>10. Continues(w, u)
  BY <1>3, <1>4, <1>5, <1>6, <1>8 DEF Continues, LeftAfter, StepsAfter
<1>11. Aligned(w, u)
  BY <1>4, <1>8 DEF Aligned, Apart
<1> QED BY <1>2, <1>4, <1>9, <1>10, <1>11, WorkingRank

\* Ranks that have no step to finish are equally far if they are in step.
LEMMA StillInStep ==
  ASSUME NEW w, NEW v, InStep(w, v), w.at = v.at, w.at # "clipped",
         Len(w.left) \in Nat, Len(v.left) \in Nat, w.steps \in Nat, v.steps \in Nat
  PROVE  Len(w.left) = Len(v.left) /\ w.steps = v.steps
<1> DEFINE a == Len(w.left)
           b == Len(v.left)
<1>1. a - 0 = b - 0 /\ w.steps + 0 = v.steps + 0
  BY DEF InStep, LeftAfter, StepsAfter
<1>2. a \in Nat /\ b \in Nat
  OBVIOUS
<1> HIDE DEF a, b
<1>3. a = b
  BY <1>1, <1>2
<1>4. w.steps = v.steps
  <2> DEFINE c == w.steps
             d == v.steps
  <2>1. c + 0 = d + 0 /\ c \in Nat /\ d \in Nat
    BY <1>1
  <2> HIDE DEF c, d
  <2>2. c = d
    BY <2>1
  <2> QED BY <2>2 DEF c, d
<1> QED BY <1>3, <1>4 DEF a, b

LEMMA AllReduceWorks == Conserving /\ Working /\ AllReduce => Working'
<1> SUFFICES ASSUME Conserving, Working, AllReduce PROVE Working'
  OBVIOUS
<1>1. UNCHANGED <<call, lens, rows, pc, output>> /\ \A r \in Ranks : rank[r].at = "counted"
  BY DEF AllReduce
<1>2. /\ Inputs /\ Workers /\ \A r \in Ranks : Keeps(rank[r], heap[r]) /\ Goes(rank[r], r)
      /\ Called
  BY <1>1, AtWork, FirstRank DEF Conserving
<1>3. \A r, s \in Ranks : InStep(rank[r], rank[s])
  BY <1>1, AtWork
<1>4. PICK most :
        /\ \E r \in Ranks : most = rank[r].count
        /\ \A r \in Ranks : rank[r].count <= most
        /\ \A r \in Ranks : \E w, u : Turns(r, w, u) /\ u = [w EXCEPT !.at = "agreed", !.count = most]
  BY <1>2, AgreedMove
<1>5. PICK s \in Ranks : most = rank[s].count
  BY <1>4
<1>6. \A r \in Ranks : /\ rank[r].left \in Seq(WholeBatches) /\ rank[r].left # <<>>
                       /\ Follows(rank[r], Plan(r)) /\ rank[r].count \in 1 .. Len(Current(rank[r]))
                       /\ call.dynamic /\ call.kind # "generate"
  BY <1>1, <1>2 DEF Keeps, Goes
<1>7. ASSUME NEW r \in Ranks PROVE most \in 1 .. Len(Current(rank[r]))
  <2>1. Len(rank[r].left) = Len(rank[s].left)
    <3>1. Len(rank[r].left) \in Nat /\ Len(rank[s].left) \in Nat
      BY <1>2, <1>6, HeadBatch
    <3>2. rank[r].steps \in Nat /\ rank[s].steps \in Nat
      BY <1>6 DEF Follows
    <3>3. InStep(rank[r], rank[s]) /\ rank[r].at = "counted" /\ rank[s].at = "counted"
      BY <1>1, <1>3
    <3> QED BY <3>1, <3>2, <3>3, StillInStep
  <2>2. Len(Current(rank[r])) = Len(Current(rank[s]))
    BY <1>2, <1>6, <2>1, FollowsAlike
  <2> QED BY <1>5, <1>6, <2>2
<1>8. ASSUME NEW r \in Ranks
      PROVE  /\ Goes(rank'[r], r) /\ Continues(rank[r], rank'[r])
             /\ rank'[r].at = "agreed" /\ rank'[r].count = most
  <2>1. PICK w, u : Turns(r, w, u) /\ u = [w EXCEPT !.at = "agreed", !.count = most]
    BY <1>4
  <2>2. w = rank[r] /\ u = rank'[r]
    BY <2>1 DEF Turns
  <2>3. /\ u.at = "agreed" /\ u.count = most /\ u.left = w.left /\ u.finite = w.finite
        /\ u.steps = w.steps /\ u.begun = w.begun /\ u.done = w.done /\ u.log_probs = w.log_probs
    BY <2>1 DEF Turns, IsWorker
  <2>4. w.at = "counted" /\ Goes(w, r) /\ Follows(w, Plan(r)) /\ call.dynamic /\ call.kind # "generate"
    BY <1>1, <1>2, <1>6, <2>2
  <2>5. Current(u) = Current(w) /\ most \in 1 .. Len(Current(u))
    BY <1>7, <2>2, <2>3 DEF Current
  <2>6. Follows(u, Plan(r))
    BY <2>3, <2>4 DEF Follows
  <2>7. Goes(u, r)
    BY <2>3, <2>4, <2>5, <2>6 DEF Goes
  <2>8. Continues(w, u)
    BY <2>3, <2>4 DEF Continues, LeftAfter, StepsAfter
  <2> QED BY <2>2, <2>3, <2>7, <2>8
<1>9. \A r, t \in Ranks : InStep(rank'[r], rank'[t])
  BY <1>3, <1>8, ContinuesStep
<1>10. Agreement'
  BY <1>8 DEF Agreement, Together
<1> QED BY <1>1, <1>2, <1>8, <1>9, <1>10, WorkingStep

LEMMA ClipWorks == Conserving /\ Working /\ ClipGradNorm => Working'
<1> SUFFICES ASSUME Conserving, Working, ClipGradNorm PROVE Working'
  OBVIOUS
<1>1. /\ UNCHANGED <<call, lens, rows, pc, output>> /\ call.kind = "update"
      /\ \A r \in Ranks : rank[r].at = "forward" /\ rank[r].done = Len(rank[r].micro)
  BY DEF ClipGradNorm
<1>2. Workers /\ Called /\ \A r \in Ranks : Goes(rank[r], r)
  BY <1>1, AtWork, FirstRank DEF Conserving
<1>3. \A r, s \in Ranks : InStep(rank[r], rank[s])
  BY <1>1, AtWork
<1>4. PICK finite \in BOOLEAN : \A r \in Ranks : \E w, u :
        /\ Turns(r, w, u)
        /\ u = [w EXCEPT !.at = "clipped", !.finite = finite, !.begun = 0, !.done = 0]
  BY <1>2, ClippedMove
<1>5. ASSUME NEW r \in Ranks
      PROVE  /\ Goes(rank'[r], r) /\ rank'[r].at = "clipped" /\ rank'[r].finite = finite
             /\ rank'[r].left = rank[r].left /\ rank'[r].steps = rank[r].steps
  <2>1. PICK w, u :
          /\ Turns(r, w, u)
          /\ u = [w EXCEPT !.at = "clipped", !.finite = finite, !.begun = 0, !.done = 0]
    BY <1>4
  <2>2. w = rank[r] /\ u = rank'[r]
    BY <2>1 DEF Turns
  <2>3. /\ u.at = "clipped" /\ u.finite = finite /\ u.begun = 0 /\ u.done = 0 /\ u.left = w.left
        /\ u.count = w.count /\ u.micro = w.micro /\ u.grads = w.grads /\ u.steps = w.steps
    BY <2>1 DEF Turns, IsWorker
  <2>4. w.at = "forward" /\ w.done = Len(w.micro) /\ Goes(w, r)
    BY <1>1, <1>2, <2>2
  <2>5. Follows(w, Plan(r)) /\ Splits(w, Len(Current(w)), Len(w.micro)) /\ w.grads = Graded(w, Len(w.micro))
    BY <1>1, <2>4 DEF Goes, Passes
  <2>6. /\ Current(u) = Current(w) /\ Splits(u, Len(Current(u)), Len(u.micro))
        /\ u.grads = Graded(u, Len(u.micro))
    BY <2>3, <2>5, GoesOn
  <2>7. Follows(u, Plan(r))
    BY <2>3, <2>5 DEF Follows
  <2>8. Goes(u, r)
    BY <1>1, <2>3, <2>6, <2>7 DEF Goes
  <2> QED BY <2>2, <2>3, <2>8
<1>6. ASSUME NEW r \in Ranks, NEW s \in Ranks PROVE InStep(rank'[r], rank'[s])
  <2>1. ASSUME NEW x \in Ranks
        PROVE  Len(rank[x].left) \in Nat /\ rank[x].steps \in Nat /\ rank[x].at = "forward"
    <3>1. Keeps(rank[x], heap[x]) /\ rank[x].left # <<>> /\ rank[x].at = "forward"
      BY <1>1 DEF Conserving, Keeps
    <3>2. rank[x].steps \in Nat
      BY <1>2 DEF Goes, Follows
    <3> QED BY <3>1, <3>2, HeadBatch
  <2>2. Len(rank[r].left) = Len(rank[s].left) /\ rank[r].steps = rank[s].steps
    <3>1. InStep(rank[r], rank[s])
      BY <1>3
    <3> QED BY <2>1, <3>1, StillInStep
  <2> QED BY <1>5, <2>2 DEF InStep, LeftAfter, StepsAfter
<1>7. Agreement'
  BY <1>5 DEF Agreement, Apart
<1> QED BY <1>1, <1>2, <1>5, <1>6, <1>7, WorkingStep

LEMMA DispatchWorks == Conserving /\ Working /\ DispatchCall => Working'
<1> SUFFICES ASSUME Conserving, DispatchCall PROVE Working'
  OBVIOUS
<1>1. UNCHANGED <<call, lens, rows, output>> /\ pc' = "calling" /\ Inputs
  BY DEF DispatchCall, Conserving
<1>2. ASSUME NEW r \in Ranks
      PROVE  /\ Goes(rank'[r], r) /\ rank'[r].at = "called" /\ rank'[r].left = Plan(r)
             /\ rank'[r].steps = 0
  <2>1. PICK u : /\ u = rank'[r] /\ IsWorker(u)
                 /\ u = [IdleRank EXCEPT !.at = "called", !.left = Plan(r)]
    BY CalledMove
  <2>2. /\ u.at = "called" /\ u.left = Plan(r) /\ u.begun = 0 /\ u.done = 0 /\ u.log_probs = <<>>
        /\ u.finite = TRUE /\ u.steps = 0
    BY <2>1 DEF IdleRank
  <2> DEFINE P == Plan(r)
             N == Len(P)
  <2>3. N \in Nat /\ (call.kind # "update" => N = 1)
    BY <1>1, PlanRows
  <2>4. Len(u.left) = N /\ \A i \in 1 .. N : u.left[i] = P[i]
    BY <2>2
  <2> HIDE DEF P, N
  <2>5. \A i \in 1 .. N : N - N + i = i
    BY <2>3
  <2>6. \A i \in 1 .. Len(u.left) : u.left[i] = P[N - Len(u.left) + i]
    BY <2>4, <2>5
  <2>7. Follows(u, P)
    <3>1. Len(u.left) <= Len(P) /\ (call.kind # "update" => Len(u.left) = 1)
      BY <2>3, <2>4 DEF N
    <3>2. \A i \in 1 .. Len(u.left) : u.left[i] = P[Len(P) - Len(u.left) + i]
      BY <2>6 DEF N
    <3>3. u.finite \in BOOLEAN
      <4>1. u.finite = TRUE
        BY <2>2
      <4> QED BY <4>1, Zenon
    <3>4. u.at # "idle" /\ u.steps \in Nat
      BY <2>2
    <3> QED BY <3>1, <3>2, <3>3, <3>4 DEF Follows
  <2>8. Goes(u, r)
    BY <2>2, <2>7 DEF Goes, P
  <2> QED BY <2>1, <2>2, <2>8
<1>3. \A r \in Ranks : Goes(rank[r], r)'
  BY <1>1, <1>2, GoesStep
<1>4. \A r, s \in Ranks : InStep(rank[r], rank[s])'
  <2> SUFFICES ASSUME NEW r \in Ranks, NEW s \in Ranks PROVE InStep(rank'[r], rank'[s])
    BY DEF InStep, LeftAfter, StepsAfter
  <2>1. Len(Plan(r)) = Len(Plan(s))
    BY <1>1, PlansAlike
  <2> QED BY <1>2, <2>1 DEF InStep, LeftAfter, StepsAfter
<1>5. Agreement'
  BY <1>2 DEF Agreement, Apart
<1> QED BY <1>1, <1>3, <1>4, <1>5 DEF Working, Called

\* What has nothing to do with the workers.
LEMMA SameWorks ==
  ASSUME Working, UNCHANGED <<call, lens, rows, pc, rank, output>>
  PROVE  Working'
<1>1. CASE ~Called
  BY <1>1 DEF Working, Called
<1>2. CASE Called
  <2>1. /\ \A r \in Ranks : Goes(rank[r], r)
        /\ \A r, s \in Ranks : InStep(rank[r], rank[s])
        /\ Agreement
    BY <1>2 DEF Working
  <2>2. Agreement'
    BY <2>1 DEF Agreement, Apart, Together
  <2>3. \A r \in Ranks : Goes(rank'[r], r)
    BY <2>1
  <2>4. \A r, s \in Ranks : InStep(rank'[r], rank'[s])
    BY <2>1
  <2> QED BY <1>2, <2>2, <2>3, <2>4, WorkingStep
<1> QED BY <1>1, <1>2

LEMMA CollectWorks == Conserving /\ Working /\ Collect => Working'
<1> SUFFICES ASSUME Conserving, Working, Collect PROVE Working'
  OBVIOUS
<1>1. /\ UNCHANGED <<call, lens, rows, rank>> /\ pc = "calling" /\ pc' = "done"
      /\ \A r \in Ranks : rank[r].at = "returned"
      /\ output' = Unpad(Concat([r \in Ranks |-> rank[r].log_probs]),
                         IF call.kind = "generate" THEN PadSize(rows, WorldSize) ELSE 0)
  BY DEF Collect
<1>2. /\ \A r \in Ranks : Goes(rank[r], r)
      /\ \A r, s \in Ranks : InStep(rank[r], rank[s])
      /\ Agreement
  BY <1>1 DEF Working, Called
<1>3. \A r \in Ranks : Goes(rank[r], r)'
  <2>1. \A r \in Ranks : Goes(rank'[r], r)
    BY <1>1, <1>2
  <2> QED BY <1>1, <2>1, GoesStep
<1>4. \A r, s \in Ranks : InStep(rank[r], rank[s])'
  BY <1>1, <1>2 DEF InStep, LeftAfter, StepsAfter
<1>5. Agreement'
  BY <1>1, <1>2 DEF Agreement, Apart, Together
<1>6. call.kind # "update" => output' = rows
  <2> SUFFICES ASSUME call.kind # "update" PROVE output' = rows
    OBVIOUS
  <2>1. \A r \in Ranks : rank[r].log_probs = Share(r)
    BY <1>1, <1>2 DEF Goes
  <2>2. [r \in Ranks |-> rank[r].log_probs] = [r \in Ranks |-> Share(r)]
    BY <2>1
  <2>3. Inputs
    BY DEF Conserving
  <2>4. [r \in Ranks |-> Share(r)] = Chunk(Sent, WorldSize)
    <3>1. Chunk(Sent, WorldSize) \in [Ranks -> Seq(1 .. Total)]
      BY <2>3, SharedRows
    <3> DEFINE c == Chunk(Sent, WorldSize)
    <3>2. c = [r \in Ranks |-> c[r]]
      BY <3>1
    <3> HIDE DEF c
    <3> QED BY <3>2 DEF Share, c
  <2>5. Concat([r \in Ranks |-> rank[r].log_probs]) = Sent
    BY <2>2, <2>3, <2>4, SharedRows
  <2> QED BY <1>1, <2>3, <2>5, SentRows
<1> QED BY <1>1, <1>3, <1>4, <1>5, <1>6 DEF Working, Called

LEMMA NextWorks == Conserving /\ Working /\ [Next]_vars => Working'
<1> SUFFICES ASSUME Conserving, Working, [Next]_vars PROVE Working'
  OBVIOUS
<1>1. CASE BeginBalance
  BY <1>1 DEF BeginBalance, Working, Called
<1>2. CASE EndBalance
  BY <1>2 DEF EndBalance, Working, Called
<1>3. CASE DispatchCall
  BY <1>3, DispatchWorks
<1>4. CASE AllReduce
  BY <1>4, AllReduceWorks
<1>5. CASE ClipGradNorm
  BY <1>5, ClipWorks
<1>6. CASE Collect
  BY <1>6, CollectWorks
<1>7. ASSUME NEW r \in Ranks, Work(r) PROVE Working'
  BY <1>7, GenerateWorks, SplitByRowsWorks, CountWorks, BeginSplitWorks, EndSplitWorks,
     BeginPassWorks, EndForwardWorks, EndBackwardWorks, ReturnWorks, StepWorks DEF Work
<1>8. ASSUME NEW p \in 0 .. WorldSize, MergeStep(p) PROVE Working'
  BY <1>8, SameWorks DEF MergeStep
<1>9. CASE UNCHANGED vars
  BY <1>9, SameWorks DEF vars
<1> QED BY <1>1, <1>2, <1>3, <1>4, <1>5, <1>6, <1>7, <1>8, <1>9 DEF Next

LEMMA InitWorking == Init => Working
<1> SUFFICES ASSUME Init PROVE Working
  OBVIOUS
<1>1. pc = "start" /\ rank = [r \in Ranks |-> IdleRank]
  BY DEF Init
<1>2. IdleRank.steps = 0
  BY DEF IdleRank
<1>3. \A r \in Ranks : rank[r].steps = 0
  BY <1>1, <1>2
<1> QED BY <1>1, <1>3 DEF Working, Called

-----------------------------------------------------------------------------
(* What the invariant says about the batches of the ranks.                 *)

LEMMA SplitEnumerates ==
  ASSUME NEW w, NEW n \in Nat, NEW m, Splits(w, n, m)
  PROVE  m \in Nat => Enumerates(Concat(w.micro), 1 .. n) /\ Len(Concat(w.micro)) = n
<1> SUFFICES ASSUME m \in Nat PROVE Enumerates(Concat(w.micro), 1 .. n) /\ Len(Concat(w.micro)) = n
  OBVIOUS
<1> DEFINE s == w.micro
           q == Concat(s)
<1>1. s \in [1 .. m -> Seq(1 .. n)] /\ Shares(s, 1 .. m, 1 .. n)
  BY DEF Splits, Buckets
<1> HIDE DEF s
<1>2. Enumerates(q, 1 .. n)
  <2> DEFINE D == 1 .. n
  <2>1. s \in [1 .. m -> Seq(D)] /\ Shares(s, 1 .. m, D)
    BY <1>1
  <2> HIDE DEF D
  <2>2. Enumerates(q, D)
    BY <2>1, FlattenEnumerates DEF Concat
  <2> QED BY <2>2 DEF D
<1> HIDE DEF q
<1>3. Len(q) = n
  BY <1>2, EnumerationSize
<1> QED BY <1>2, <1>3 DEF q, s

LEMMA WorksPartition == Conserving /\ Working => MicroBatchesPartition
<1> SUFFICES ASSUME Conserving, Working, NEW r \in Ranks, rank[r].at = "forward"
             PROVE  LET all == Concat(rank[r].micro)
                    IN  /\ Len(all) = Len(Batch(r))
                        /\ ToSet(all) = DOMAIN Batch(r)
                        /\ \A i \in DOMAIN rank[r].micro : rank[r].micro[i] # << >>
                        /\ \A s \in Ranks : rank[s].at = "forward" =>
                             Len(rank[s].micro) = Len(rank[r].micro)
  BY DEF MicroBatchesPartition
<1>1. ASSUME NEW s \in Ranks, rank[s].at = "forward"
      PROVE  /\ Inputs /\ Keeps(rank[s], heap[s]) /\ rank[s].left # <<>> /\ Follows(rank[s], Plan(s))
             /\ rank[s].left \in Seq(WholeBatches)
             /\ Splits(rank[s], Len(Batch(s)), Len(rank[s].micro))
             /\ Len(rank[s].micro) \in Nat /\ Batch(s) = Current(rank[s])
  <2>1. Inputs /\ Keeps(rank[s], heap[s]) /\ Goes(rank[s], s)
    BY <1>1, AtWork
  <2>2. Batch(s) = Current(rank[s])
    BY DEF Batch, Current
  <2>3. Follows(rank[s], Plan(s)) /\ Splits(rank[s], Len(Batch(s)), Len(rank[s].micro))
    BY <1>1, <2>1, <2>2 DEF Goes
  <2>4. Len(rank[s].micro) \in Nat
    BY <2>3 DEF Splits, Buckets
  <2>5. rank[s].left # <<>> /\ rank[s].left \in Seq(WholeBatches)
    BY <1>1, <2>1 DEF Keeps
  <2> QED BY <2>1, <2>2, <2>3, <2>4, <2>5
<1> DEFINE b == Batch(r)
           n == Len(b)
           all == Concat(rank[r].micro)
<1>2. b \in Seq(1 .. Total) /\ n \in Nat
  BY <1>1, CurrentRows
<1>3. DOMAIN b = 1 .. n
  <2> DEFINE D == 1 .. Total
  <2>1. b \in Seq(D)
    BY <1>2
  <2> HIDE DEF D, b
  <2> QED BY <2>1
<1>4. Enumerates(all, 1 .. n) /\ Len(all) = n
  <2>1. Splits(rank[r], n, Len(rank[r].micro)) /\ Len(rank[r].micro) \in Nat
    BY <1>1
  <2> HIDE DEF n
  <2> QED BY <1>2, <2>1, SplitEnumerates
<1>5. ToSet(all) = 1 .. n
  BY <1>4, EnumeratedSet
<1>6. \A i \in DOMAIN rank[r].micro : rank[r].micro[i] # << >>
  <2>1. Splits(rank[r], n, Len(rank[r].micro))
    BY <1>1
  <2> QED BY <2>1 DEF Splits, Buckets
<1>7. ASSUME NEW s \in Ranks, rank[s].at = "forward"
      PROVE  Len(rank[s].micro) = Len(rank[r].micro)
  <2>1. CASE call.dynamic
    <3>1. Agreement
      BY AtWork
    <3>2. ~Apart(rank[r])
      BY DEF Apart
    <3>3. rank[s].count = rank[r].count
      BY <2>1, <3>1, <3>2 DEF Agreement
    <3>4. Len(rank[s].micro) = rank[s].count /\ Len(rank[r].micro) = rank[r].count
      BY <1>1, <1>7, <2>1 DEF Splits
    <3> QED BY <3>3, <3>4
  <2>2. CASE ~call.dynamic
    <3>1. InStep(rank[r], rank[s])
      BY AtWork
    <3>2. ASSUME NEW x \in Ranks, rank[x].at = "forward"
          PROVE  Len(rank[x].left) \in Nat /\ rank[x].steps \in Nat
      BY <1>1, <3>2, HeadBatch DEF Follows
    <3>3. Len(rank[r].left) = Len(rank[s].left)
      BY <1>7, <3>1, <3>2, StillInStep
    <3>4. Len(Batch(r)) = Len(Batch(s))
      BY <1>1, <1>7, <3>3, FollowsAlike
    <3>5. /\ Len(rank[s].micro) = Pieces(Len(Batch(s)), MicroBatchSize)
          /\ Len(rank[r].micro) = Pieces(Len(Batch(r)), MicroBatchSize)
      BY <1>1, <1>7, <2>2 DEF Splits
    <3> QED BY <3>4, <3>5
  <2> QED BY <2>1, <2>2
<1> HIDE DEF n, b
<1>8. Len(all) = Len(Batch(r)) /\ ToSet(all) = DOMAIN Batch(r)
  BY <1>3, <1>4, <1>5 DEF n, b
<1> QED BY <1>6, <1>7, <1>8

LEMMA ReorderedSet ==
  ASSUME NEW S, NEW q \in Seq(S), NEW p, Enumerates(p, 1 .. Len(q))
  PROVE  Len(Reorder(q, p)) = Len(q) /\ ToSet(Reorder(q, p)) = ToSet(q)
<1> DEFINE n == Len(q)
           D == 1 .. n
           t == Reorder(q, p)
<1>1. n \in Nat /\ DOMAIN q = D
  OBVIOUS
<1>2. Enumerates(p, D) /\ Len(p) = n
  BY <1>1, EnumerationSize
<1>3. t \in Seq(S) /\ Len(t) = n /\ \A i \in 1 .. Len(p) : t[i] = q[p[i]]
  <2>1. p \in Seq(1 .. Len(q))
    BY DEF Enumerates
  <2> QED BY <1>2, <2>1, ReorderedElements
<1> HIDE DEF t
<1>4. DOMAIN t = D
  BY <1>3
<1> HIDE DEF n, D
<1>5. p \in Seq(D) /\ \A d \in D : \E i \in 1 .. Len(p) : p[i] = d
  BY <1>2 DEF Enumerates
<1>6. \A i \in 1 .. Len(p) : p[i] \in D
  BY <1>5
<1>7. 1 .. Len(p) = D
  BY <1>2 DEF D
<1>8. ToSet(t) = {t[i] : i \in D} /\ ToSet(q) = {q[i] : i \in D}
  BY <1>1, <1>4 DEF ToSet
<1>9. ToSet(t) = ToSet(q)
  <2>1. \A i \in D : t[i] = q[p[i]] /\ p[i] \in D
    BY <1>3, <1>6, <1>7
  <2>2. \A d \in D : \E i \in D : p[i] = d
    BY <1>5, <1>7
  <2> QED BY <1>8, <2>1, <2>2
<1> QED BY <1>3, <1>9 DEF n, t

\* The gradients at the end of a mini-batch.
LEMMA WorksWeigh ==
  ASSUME Conserving, Working, NEW r \in Ranks, rank[r].at = "clipped"
  PROVE  LET grads == rank[r].grads
             all   == Concat([g \in DOMAIN grads |-> grads[g].rows])
         IN  /\ Len(all) = Len(Batch(r))
             /\ ToSet(all) = ToSet(Batch(r))
             /\ \A g \in DOMAIN grads :
                  grads[g].scale[1] * MiniBatchSize = Len(grads[g].rows) * grads[g].scale[2]
<1> DEFINE w == rank[r]
           b == Current(w)
           n == Len(b)
           m == Len(w.micro)
           p == Concat(w.micro)
           D == 1 .. Total
           grads == Graded(w, m)
           all == Concat([g \in DOMAIN grads |-> grads[g].rows])
<1>1. Inputs /\ Keeps(w, heap[r]) /\ Goes(w, r)
  BY AtWork
<1>2. w.left # <<>> /\ Splits(w, n, m) /\ w.grads = grads
  BY <1>1 DEF Keeps, Goes
<1>3. b \in Seq(D) /\ n \in Nat
  BY <1>1, <1>2, CurrentRows
<1>4. m \in Nat /\ w.micro \in Buckets(m, n)
  BY <1>2 DEF Splits, Buckets
<1>5. Enumerates(p, 1 .. n) /\ Len(p) = n
  <2> HIDE DEF n, m
  <2> QED BY <1>2, <1>3, <1>4, SplitEnumerates
<1>6. all = Reorder(b, p)
  <2> HIDE DEF D, m
  <2> QED BY <1>3, <1>4, GradedRows
<1>7. Len(all) = n /\ ToSet(all) = ToSet(b)
  <2> HIDE DEF all, p, D, b
  <2> QED BY <1>3, <1>5, <1>6, ReorderedSet
<1>8. ASSUME NEW g \in DOMAIN grads
      PROVE  grads[g].scale[1] * MiniBatchSize = Len(grads[g].rows) * grads[g].scale[2]
  <2> DEFINE micro == Reorder(b, w.micro[g])
  <2>1. g \in 1 .. m
    BY DEF Graded
  <2>2. /\ grads[g].rows = micro
        /\ grads[g].scale = IF call.dynamic THEN <<Len(micro), MiniBatchSize>>
                                            ELSE <<1, MiniBatchSize \div MicroBatchSize>>
    BY <2>1 DEF Graded
  <2>3. CASE call.dynamic
    <3> HIDE DEF micro, grads
    <3> QED BY <2>2, <2>3
  <2>4. CASE ~call.dynamic
    <3>1. Len(w.micro[g]) = MicroBatchSize /\ w.micro[g] \in Seq(1 .. n)
      BY <1>2, <2>1, <2>4 DEF Splits, Buckets
    <3>2. Len(micro) = MicroBatchSize
      <4> DEFINE q == w.micro[g]
      <4>1. q \in Seq(1 .. Len(b)) /\ Len(q) = MicroBatchSize
        BY <3>1
      <4> HIDE DEF q, b, D
      <4>2. Len(Reorder(b, q)) = MicroBatchSize
        BY <1>3, <4>1, ReorderedElements
      <4> QED BY <4>2 DEF q
    <3> DEFINE k == MiniBatchSize \div MicroBatchSize
    <3>3. MiniBatchSize = MicroBatchSize * k /\ k \in Nat
      <4>1. MiniBatchSize \in Nat /\ MicroBatchSize \in Nat \ {0} /\ MiniBatchSize % MicroBatchSize = 0
        BY Parameters
      <4>2. k \in Nat /\ MiniBatchSize = MicroBatchSize * k + (MiniBatchSize % MicroBatchSize)
        BY <4>1, DivMod
      <4>3. MicroBatchSize * k \in Nat
        BY <4>1, <4>2
      <4> DEFINE x == MicroBatchSize * k
      <4> HIDE DEF x
      <4>4. MiniBatchSize = x
        BY <4>1, <4>2, <4>3 DEF x
      <4> QED BY <4>2, <4>4 DEF x
    <3>4. MiniBatchSize \in Nat /\ grads[g].scale[1] = 1 /\ grads[g].scale[2] = k
      BY <2>2, <2>4, Parameters
    <3> HIDE DEF k, micro, grads
    <3> QED BY <2>2, <3>2, <3>3, <3>4
  <2> QED BY <2>3, <2>4
<1>9. w.grads = grads /\ Batch(r) = b
  BY <1>2 DEF Batch, Current
<1> HIDE DEF b, n, m, p, D, grads
<1> QED BY <1>7, <1>8, <1>9 DEF n

LEMMA WorksEqually ==
  ASSUME Conserving, Working, NEW r \in Ranks, NEW s \in Ranks, Len(rank[s].left) = Len(rank[r].left)
  PROVE  rank[s].steps = rank[r].steps
<1>1. CASE ~Called
  BY <1>1 DEF Working
<1>2. CASE Called
  <2> DEFINE a == Len(rank[r].left)
             x == rank[r].steps
             y == rank[s].steps
  <2>1. a \in Nat
    <3> DEFINE q == rank[r].left
               B == WholeBatches
    <3>1. q \in Seq(B)
      BY DEF Conserving, Keeps
    <3> HIDE DEF q, B
    <3>2. Len(q) \in Nat
      BY <3>1
    <3> QED BY <3>2 DEF q
  <2>2. x \in Nat /\ y \in Nat /\ InStep(rank[s], rank[r])
    BY <1>2 DEF Working, Goes, Follows
  <2>3. /\ Len(rank[s].left) = a
        /\ LeftAfter(rank[r]) = LeftAfter(rank[s]) /\ StepsAfter(rank[r]) = StepsAfter(rank[s])
        /\ rank[s].at = "clipped" /\ rank[r].at = "clipped" => rank[s].finite = rank[r].finite
    BY <2>2 DEF InStep
  <2> DEFINE c(z) == z.at = "clipped"
             i(z) == IF c(z) THEN 1 ELSE 0
             j(z) == IF c(z) /\ z.finite THEN 1 ELSE 0
  <2>4. a - i(rank[r]) = a - i(rank[s])
    BY <2>3 DEF LeftAfter
  <2>5. x + j(rank[r]) = y + j(rank[s])
    BY <2>3 DEF StepsAfter
  <2>6. \A z : i(z) \in {0, 1} /\ j(z) \in {0, 1} /\ (i(z) = 1 <=> c(z))
    OBVIOUS
  <2> HIDE DEF a, x, y, i
  <2>7. i(rank[r]) = i(rank[s])
    <3>1. i(rank[r]) \in {0, 1} /\ i(rank[s]) \in {0, 1}
      BY <2>6
    <3> QED BY <2>1, <2>4, <3>1
  <2>8. c(rank[r]) <=> c(rank[s])
    BY <2>6, <2>7
  <2>9. j(rank[r]) = j(rank[s])
    BY <2>3, <2>8
  <2> HIDE DEF j
  <2>10. x = y
    <3>1. j(rank[r]) \in {0, 1}
      BY <2>6
    <3> QED BY <2>2, <2>5, <2>9, <3>1
  <2> QED BY <2>10 DEF x, y
<1> QED BY <1>1, <1>2

-----------------------------------------------------------------------------
(* The theorems.                                                           *)

CallsInv == Conserving /\ Working

\* From the start of a call to its answer: every row is in one state of a
\* heap, and every rank is at a batch of its plan, has gone through the
\* micro-batches it says it has, and is in step with the others.
THEOREM CallsInductive == Spec => []CallsInv
<1>1. Init => CallsInv
  BY InitConserving, InitWorking DEF CallsInv
<1>2. CallsInv /\ [Next]_vars => CallsInv'
  BY NextConserves, NextWorks DEF CallsInv
<1> QED BY <1>1, <1>2, PTL DEF Spec

\* The controller and the ranks split rows up exactly: none is lost or taken
\* twice while the differencing method runs, and the micro-batches of a rank
\* cover its batch, are not empty and are as many as those of the others.
THEOREM RowsSplitExactly == Spec => []PartitionsAreExact
<1>1. CallsInv => PartitionsAreExact
  BY ConservesRows, WorksPartition DEF CallsInv, PartitionsAreExact
<1> QED BY <1>1, CallsInductive, PTL

\* A rollout and a recomputation of log probabilities return one entry for
\* every row of the controller's batch, in its order.
THEOREM AnswersComeBack == Spec => []AnswersAligned
<1>1. CallsInv => AnswersAligned
  BY DEF CallsInv, Working, AnswersAligned
<1> QED BY <1>1, CallsInductive, PTL

\* Every optimizer step is over the rows of its mini-batch, each of them once
\* and with the same weight, and no rank has taken or skipped a step that the
\* ranks as far as it have not.
THEOREM RowsWeighAlike == Spec => []UpdatesWeighRowsAlike
<1>1. CallsInv => UpdatesWeighRowsAlike
  BY WorksWeigh, WorksEqually DEF CallsInv, UpdatesWeighRowsAlike
<1> QED BY <1>1, CallsInductive, PTL

\* No merge of two states makes the worst state worse: the heaviest buckets
\* of one are put to the lightest of the other.
THEOREM SpreadStaysBounded == Spec => SpreadNeverGrows
<1>1. Init => Conserving
  BY InitConserving
<1>2. Conserving /\ [Next]_vars => Conserving'
  BY NextConserves
<1>3. Conserving /\ [Next]_vars => [NoWorse]_vars
  BY NextSpread
<1>4. [NoWorse]_vars => [\A p \in DOMAIN heap : heap[p] # {} =>
        \A s \in heap'[p] : \E t \in heap[p] : Spread(s, LensOf(p)) <= Spread(t, LensOf(p))]_vars
  BY DEF NoWorse
<1> QED BY <1>1, <1>2, <1>3, <1>4, PTL DEF Spec, SpreadNeverGrows
=============================================================================
