------------------------------ MODULE GroupProofs ------------------------------
(***************************************************************************)
(* Proofs about the groups of a prompt's trajectories, in two parts.       *)
(*                                                                         *)
(* The estimators, which compare the rows of a prompt: for every batch and *)
(* any rewards.  Sums over the rows of a prompt are split into step groups *)
(* and carried over to the places balancing gives the rows.                *)
(*                                                                         *)
(* Dynamic sampling, which fills the groups: for every size of the groups  *)
(* and of the batches, any number of tries and any games.                  *)
(***************************************************************************)
EXTENDS MultiTurnLoopProperties, GroupAdvantagesProperties, SequenceLemmas

-----------------------------------------------------------------------------
(* The clusters of build_step_group, one row after another.                 *)

\* Rows with the fields an estimator looks at.
AdvantageRows == [uid : Int, anchor_obs : Observations, reward : Int,
                 step_reward : Int]

GigpoEstimators == {"gigpo", "gigpo_similarity"}

(* f has the clusters of any of the first n rows, the way FoldLeft places     *)
(* them.                                                                     *)
PlacedOver(f, rows, est, s, n) ==
  f = [T \in SUBSET (1 .. n) |-> IF T = {} THEN <<>>
                                 ELSE Placed(rows, est, f[T \ {Max(T)}], s[Max(T)])]

(* The clusters of the first rows come from those of the rows before.        *)
LEMMA ClustersExist ==
  ASSUME NEW rows, NEW est, NEW s, NEW n \in Nat PROVE \E f : PlacedOver(f, rows, est, s, n)
<1> DEFINE T == {k \in 0 .. n : \E f : PlacedOver(f, rows, est, s, k)}
           P(x, i) == Placed(rows, est, x, s[i])
<1>1. 0 \in T
  <2> DEFINE f == [U \in SUBSET (1 .. 0) |-> <<>>]
  <2>1. \A U \in SUBSET (1 .. 0) : U = {}
    OBVIOUS
  <2>2. PlacedOver(f, rows, est, s, 0)
    BY <2>1 DEF PlacedOver
  <2> QED BY <2>2
<1>2. ASSUME NEW k \in 1 .. n, k - 1 \in T PROVE k \in T
  <2>1. PICK f : PlacedOver(f, rows, est, s, k - 1)
    BY <1>2
  <2> DEFINE h == [U \in SUBSET (1 .. k) |-> IF k \in U THEN P(f[U \ {k}], k) ELSE f[U]]
  <2>2. \A U \in SUBSET (1 .. (k - 1)) :
          f[U] = IF U = {} THEN <<>> ELSE P(f[U \ {Max(U)}], Max(U))
    BY <2>1 DEF PlacedOver
  <2> HIDE DEF P
  <2>3. \A U \in SUBSET (1 .. k) : k \notin U => U \in SUBSET (1 .. (k - 1))
    OBVIOUS
  <2>4. \A U \in SUBSET (1 .. k) : h[U] = IF k \in U THEN P(f[U \ {k}], k) ELSE f[U]
    OBVIOUS
  <2>5. h = [U \in SUBSET (1 .. k) |-> h[U]]
    OBVIOUS
  <2> HIDE DEF h
  <2>6. ASSUME NEW U \in SUBSET (1 .. k)
        PROVE  h[U] = IF U = {} THEN <<>> ELSE P(h[U \ {Max(U)}], Max(U))
    <3>1. CASE U = {}
      BY <2>2, <2>3, <2>4, <3>1
    <3>2. CASE U # {}
      <4>1. Max(U) \in U /\ \A y \in U : y <= Max(U)
        <5>1. U \in SUBSET (0 .. k) /\ k \in Nat
          OBVIOUS
        <5> QED BY <3>2, <5>1, MaxIsGreatest
      <4>2. U \ {Max(U)} \in SUBSET (1 .. k)
        OBVIOUS
      <4>3. CASE k \in U
        <5>1. Max(U) = k
          <6>1. Max(U) \in 1 .. k /\ k <= Max(U)
            BY <4>1, <4>3
          <6> QED BY <6>1
        <5>2. h[U \ {k}] = f[U \ {k}]
          BY <2>4, <4>2, <5>1
        <5> QED BY <2>4, <3>2, <4>3, <5>1, <5>2
      <4>4. CASE k \notin U
        <5>1. f[U] = P(f[U \ {Max(U)}], Max(U))
          BY <2>2, <2>3, <3>2, <4>4
        <5>2. h[U \ {Max(U)}] = f[U \ {Max(U)}]
          BY <2>4, <4>2, <4>4
        <5> QED BY <2>4, <3>2, <4>4, <5>1, <5>2
      <4> QED BY <4>3, <4>4
    <3> QED BY <3>1, <3>2
  <2>7. PlacedOver(h, rows, est, s, k)
    BY <2>5, <2>6 DEF PlacedOver, P
  <2> QED BY <2>7
<1> HIDE DEF T
<1>3. \A k \in 0 .. n : k \in T
  BY <1>1, <1>2, UpTo
<1> QED BY <1>3 DEF T

(* The clusters after any number of rows.                                    *)
Growing(g, rows, est, n) ==
  /\ g[0] = <<>>
  /\ \A k \in 1 .. n : g[k] = Placed(rows, est, g[k - 1], k)
  /\ Clusters(rows, est) = g[n]

(* Clusters places the rows one after another.                               *)
LEMMA ClusterSteps ==
  ASSUME NEW n \in Nat, NEW rows, DOMAIN rows = 1 .. n, NEW est
  PROVE  \E g : Growing(g, rows, est, n)
<1> DEFINE s == [i \in DOMAIN rows |-> i]
<1>1. DOMAIN s = 1 .. n /\ \A i \in 1 .. n : s[i] = i
  OBVIOUS
<1>2. Clusters(rows, est) = FoldLeft(LAMBDA clusters, i : Placed(rows, est, clusters, i), <<>>, s)
  BY DEF Clusters
<1> HIDE DEF s
<1>3. \E f : PlacedOver(f, rows, est, s, n)
  BY ClustersExist
<1>4. \E f : PlacedOver(f, rows, est, s, n) /\ Clusters(rows, est) = f[1 .. n]
  BY <1>1, <1>2, <1>3 DEF FoldLeft, MapThenFoldSet, PlacedOver
<1>5. PICK f : PlacedOver(f, rows, est, s, n) /\ Clusters(rows, est) = f[1 .. n]
  BY <1>4
<1> DEFINE g == [k \in 0 .. n |-> f[1 .. k]]
<1>6. \A U \in SUBSET (1 .. n) :
        f[U] = IF U = {} THEN <<>> ELSE Placed(rows, est, f[U \ {Max(U)}], s[Max(U)])
  BY <1>5 DEF PlacedOver
<1>7. g[0] = <<>>
  <2>1. 1 .. 0 = {} /\ 1 .. 0 \in SUBSET (1 .. n)
    OBVIOUS
  <2>2. f[1 .. 0] = <<>>
    BY <1>6, <2>1
  <2> QED BY <2>2
<1>8. ASSUME NEW k \in 1 .. n PROVE g[k] = Placed(rows, est, g[k - 1], k)
  <2> DEFINE U == 1 .. k
  <2>1. U \in SUBSET (1 .. n) /\ k \in U /\ U # {}
    BY SMTT(30)
  <2>2. Max(U) \in U /\ \A y \in U : y <= Max(U)
    <3>1. U \in SUBSET (0 .. k) /\ k \in Nat
      OBVIOUS
    <3> HIDE DEF U
    <3> QED BY <2>1, <3>1, MaxIsGreatest
  <2>3. Max(U) = k
    <3>1. Max(U) \in 1 .. k /\ k <= Max(U)
      BY <2>1, <2>2
    <3> QED BY <3>1
  <2>4. U \ {k} = 1 .. (k - 1)
    OBVIOUS
  <2>5. f[U] = Placed(rows, est, f[1 .. (k - 1)], k)
    BY <1>1, <1>6, <2>1, <2>3, <2>4
  <2>6. g[k] = f[U] /\ g[k - 1] = f[1 .. (k - 1)]
    OBVIOUS
  <2> QED BY <2>5, <2>6
<1>9. g[n] = f[1 .. n]
  OBVIOUS
<1> HIDE DEF g
<1> QED BY <1>5, <1>7, <1>8, <1>9 DEF Growing

Alike(rows, est, r, i) ==
  /\ rows[r].uid = rows[i].uid
  /\ AreSimilar(est, rows[i].anchor_obs, rows[r].anchor_obs)

(* The clusters the first k of n rows make: the rows of a cluster resemble   *)
(* its first row, and the first row of no cluster before it.                 *)
ClustersInv(g, rows, est, n, k) ==
  /\ g \in Seq([rep : 1 .. n, locs : SUBSET (1 .. n)])
  /\ \A c \in 1 .. Len(g) :
       /\ g[c].rep \in g[c].locs
       /\ \A i \in g[c].locs :
            /\ i \in 1 .. k /\ Alike(rows, est, g[c].rep, i)
            /\ \A d \in 1 .. (c - 1) : ~Alike(rows, est, g[d].rep, i)
  /\ \A i \in 1 .. k : \E c \in 1 .. Len(g) : i \in g[c].locs

(* The least of some numbers is below the others.                            *)
LEMMA MinIsLeast ==
  ASSUME NEW n \in Nat, NEW T \in SUBSET (1 .. n), T # {}
  PROVE  Min(T) \in T /\ \A y \in T : Min(T) <= y
<1>1. T \subseteq Nat
  OBVIOUS
<1>2. \E x \in T : \A y \in T : x <= y
  BY <1>1, LeastExists
<1> QED BY <1>2 DEF Min

(* The next row is placed.                                                   *)
LEMMA PlacedKeeps ==
  ASSUME NEW rows, NEW est, NEW n \in Nat, NEW k \in 1 .. n, NEW g,
         ClustersInv(g, rows, est, n, k - 1),
         Alike(rows, est, k, k)
  PROVE  ClustersInv(Placed(rows, est, g, k), rows, est, n, k)
<1> DEFINE C == [rep : 1 .. n, locs : SUBSET (1 .. n)]
           m == Len(g)
           fitting == {c \in 1 .. m : Alike(rows, est, g[c].rep, k)}
           new == [rep |-> k, locs |-> {k}]
           h == Placed(rows, est, g, k)
<1>1. /\ g \in Seq(C) /\ m \in Nat /\ DOMAIN g = 1 .. m
      /\ \A c \in 1 .. m : g[c] \in C /\ g[c].rep \in 1 .. n /\ g[c].locs \in SUBSET (1 .. n)
  <2>1. g \in Seq(C)
    BY DEF ClustersInv
  <2> HIDE DEF C
  <2>2. m \in Nat /\ DOMAIN g = 1 .. m /\ \A c \in 1 .. m : g[c] \in C
    BY <2>1
  <2>3. \A x \in C : x.rep \in 1 .. n /\ x.locs \in SUBSET (1 .. n)
    BY DEF C
  <2> QED BY <2>1, <2>2, <2>3
<1>2. /\ \A c \in 1 .. m :
           /\ g[c].rep \in g[c].locs
           /\ \A i \in g[c].locs :
                /\ i \in 1 .. (k - 1) /\ Alike(rows, est, g[c].rep, i)
                /\ \A d \in 1 .. (c - 1) : ~Alike(rows, est, g[d].rep, i)
      /\ \A i \in 1 .. (k - 1) : \E c \in 1 .. m : i \in g[c].locs
  BY DEF ClustersInv
<1>3. h = IF fitting = {} THEN Append(g, new)
          ELSE [g EXCEPT ![Min(fitting)].locs = @ \cup {k}]
  BY <1>1 DEF Placed, Fits, Alike
<1>4. new \in C /\ new.rep = k /\ new.locs = {k}
  OBVIOUS
<1> HIDE DEF C, m, new, h
<1>5. CASE fitting = {}
  <2>1. /\ h \in Seq(C) /\ Len(h) = m + 1 /\ h[m + 1] = new /\ \A c \in 1 .. m : h[c] = g[c]
    BY <1>1, <1>3, <1>4, <1>5 DEF m
  <2>2. ASSUME NEW c \in 1 .. Len(h)
        PROVE  /\ h[c].rep \in h[c].locs
               /\ \A i \in h[c].locs :
                    /\ i \in 1 .. k /\ Alike(rows, est, h[c].rep, i)
                    /\ \A d \in 1 .. (c - 1) : ~Alike(rows, est, h[d].rep, i)
    <3>1. \A d \in 1 .. (c - 1) : d \in 1 .. m /\ h[d] = g[d]
      BY <1>1, <2>1
    <3>2. CASE c \in 1 .. m
      <4>1. h[c] = g[c] /\ k - 1 <= k
        BY <2>1, <3>2
      <4>2. ASSUME NEW i \in g[c].locs
            PROVE  /\ i \in 1 .. k /\ Alike(rows, est, g[c].rep, i)
                   /\ \A d \in 1 .. (c - 1) : ~Alike(rows, est, g[d].rep, i)
        <5>1. i \in 1 .. (k - 1)
          BY <1>2, <3>2
        <5> QED BY <1>2, <3>2, <5>1
      <4> QED BY <1>2, <3>1, <3>2, <4>1, <4>2
    <3>3. CASE c = m + 1
      <4>1. h[c] = new
        BY <2>1, <3>3
      <4>2. \A d \in 1 .. (c - 1) : ~Alike(rows, est, h[d].rep, k)
        BY <1>5, <3>1
      <4> QED BY <1>4, <4>1, <4>2
    <3> QED BY <1>1, <2>1, <3>2, <3>3
  <2>3. ASSUME NEW i \in 1 .. k PROVE \E c \in 1 .. Len(h) : i \in h[c].locs
    <3>1. CASE i = k
      BY <1>1, <1>4, <2>1, <3>1
    <3>2. CASE i # k
      <4>1. i \in 1 .. (k - 1)
        BY <3>2
      <4>2. PICK c \in 1 .. m : i \in g[c].locs
        BY <1>2, <4>1
      <4>3. c \in 1 .. Len(h) /\ h[c] = g[c]
        BY <1>1, <2>1
      <4> QED BY <4>2, <4>3
    <3> QED BY <3>1, <3>2
  <2> QED BY <2>1, <2>2, <2>3 DEF ClustersInv, C, h
<1>6. CASE fitting # {}
  <2> DEFINE f == Min(fitting)
             joined == [g[f] EXCEPT !.locs = @ \cup {k}]
  <2>1. f \in fitting /\ \A c \in fitting : f <= c
    BY <1>1, <1>6, MinIsLeast
  <2>2. f \in 1 .. m /\ Alike(rows, est, g[f].rep, k) /\ \A d \in 1 .. (f - 1) : ~Alike(rows, est, g[d].rep, k)
    <3>1. f \in 1 .. m /\ Alike(rows, est, g[f].rep, k)
      BY <2>1
    <3> HIDE DEF f
    <3>2. ASSUME NEW d \in 1 .. (f - 1) PROVE ~Alike(rows, est, g[d].rep, k)
      <4>1. d \in 1 .. m /\ ~(f <= d)
        BY <1>1, <3>1
      <4> QED BY <2>1, <4>1
    <3> QED BY <3>1, <3>2
  <2>3. h = [g EXCEPT ![f] = joined]
    BY <1>3, <1>6
  <2>4. joined \in C /\ joined.rep = g[f].rep /\ joined.locs = g[f].locs \cup {k}
    BY <1>1, <2>2 DEF C
  <2> HIDE DEF f, joined
  <2>5. h \in Seq(C) /\ Len(h) = m /\ h[f] = joined /\ \A c \in 1 .. m : c # f => h[c] = g[c]
    BY <1>1, <2>2, <2>3, <2>4 DEF m
  <2>6. \A c \in 1 .. m : h[c].rep = g[c].rep
    BY <2>4, <2>5
  <2>7. ASSUME NEW c \in 1 .. m
        PROVE  /\ h[c].rep \in h[c].locs
               /\ \A i \in h[c].locs :
                    /\ i \in 1 .. k /\ Alike(rows, est, h[c].rep, i)
                    /\ \A d \in 1 .. (c - 1) : ~Alike(rows, est, h[d].rep, i)
    <3>1. \A d \in 1 .. (c - 1) : d \in 1 .. m
      BY <1>1
    <3>2. CASE c # f
      <4>1. h[c] = g[c] /\ \A i \in 1 .. (k - 1) : i \in 1 .. k
        BY <2>5, <3>2
      <4> QED BY <1>2, <2>6, <3>1, <4>1
    <3>3. CASE c = f
      <4>1. h[c].locs = g[c].locs \cup {k} /\ h[c].rep = g[c].rep
        BY <2>4, <2>5, <3>3
      <4>2. ASSUME NEW i \in g[c].locs
            PROVE  /\ i \in 1 .. k /\ Alike(rows, est, h[c].rep, i)
                   /\ \A d \in 1 .. (c - 1) : ~Alike(rows, est, h[d].rep, i)
        <5>1. i \in 1 .. (k - 1)
          BY <1>2
        <5> QED BY <1>2, <2>6, <3>1, <5>1
      <4>3. /\ Alike(rows, est, h[c].rep, k)
            /\ \A d \in 1 .. (c - 1) : ~Alike(rows, est, h[d].rep, k)
        BY <2>2, <2>6, <3>1, <3>3
      <4> QED BY <1>2, <4>1, <4>2, <4>3
    <3> QED BY <3>2, <3>3
  <2>8. ASSUME NEW i \in 1 .. k PROVE \E c \in 1 .. m : i \in h[c].locs
    <3>1. CASE i = k
      BY <2>2, <2>4, <2>5, <3>1
    <3>2. CASE i # k
      <4>1. i \in 1 .. (k - 1)
        BY <3>2
      <4>2. PICK c \in 1 .. m : i \in g[c].locs
        BY <1>2, <4>1
      <4>3. i \in h[c].locs
        BY <2>4, <2>5, <4>2
      <4> QED BY <4>3
    <3> QED BY <3>1, <3>2
  <2> QED BY <2>5, <2>7, <2>8 DEF ClustersInv, C, h
<1> QED BY <1>5, <1>6 DEF h

(* Every row resembles itself.                                               *)
LEMMA AlikeItself ==
  ASSUME NEW rows \in Seq(AdvantageRows), NEW est, NEW i \in DOMAIN rows
  PROVE  Alike(rows, est, i, i)
<1>1. rows[i] \in AdvantageRows
  OBVIOUS
<1>2. rows[i].anchor_obs \in Observations
  BY <1>1 DEF AdvantageRows
<1> QED BY <1>2, AdvantagesAssumption DEF Alike, AreSimilar

(* So the clusters of all rows keep the invariant.                           *)
LEMMA ClustersOfRows ==
  ASSUME NEW rows \in Seq(AdvantageRows), NEW est
  PROVE  ClustersInv(Clusters(rows, est), rows, est, Len(rows), Len(rows))
<1> DEFINE n == Len(rows)
<1>1. n \in Nat /\ DOMAIN rows = 1 .. n
  OBVIOUS
<1> HIDE DEF n
<1>2. PICK g : Growing(g, rows, est, n)
  BY <1>1, ClusterSteps
<1>3. /\ g[0] = <<>> /\ Clusters(rows, est) = g[n]
      /\ \A k \in 1 .. n : g[k] = Placed(rows, est, g[k - 1], k)
  BY <1>2 DEF Growing
<1> DEFINE T == {k \in 0 .. n : ClustersInv(g[k], rows, est, n, k)}
<1>4. 0 \in T
  <2>1. g[0] = <<>> /\ Len(g[0]) = 0
    BY <1>3
  <2>2. <<>> \in Seq([rep : 1 .. n, locs : SUBSET (1 .. n)])
    OBVIOUS
  <2>3. ClustersInv(<<>>, rows, est, n, 0)
    BY <2>2 DEF ClustersInv
  <2> QED BY <1>1, <2>1, <2>3
<1>5. ASSUME NEW k \in 1 .. n, k - 1 \in T PROVE k \in T
  <2>1. Alike(rows, est, k, k)
    BY <1>1, AlikeItself
  <2> QED BY <1>1, <1>3, <1>5, <2>1, PlacedKeeps
<1> HIDE DEF T
<1>6. n \in T
  BY <1>1, <1>4, <1>5, UpTo
<1> QED BY <1>3, <1>6 DEF T, n

-----------------------------------------------------------------------------
(* Step groups.                                                             *)

(* The clusters of a batch, once all rows are placed.                        *)
Clustered(groups, rows, est) ==
  /\ Len(groups) \in Nat /\ DOMAIN groups = 1 .. Len(groups)
  /\ \A c \in DOMAIN groups :
       /\ groups[c].rep \in groups[c].locs /\ groups[c].locs \subseteq DOMAIN rows
       /\ \A i \in groups[c].locs :
            /\ Alike(rows, est, groups[c].rep, i)
            /\ \A d \in DOMAIN groups : d < c => ~Alike(rows, est, groups[d].rep, i)
  /\ \A i \in DOMAIN rows : \E c \in DOMAIN groups : i \in groups[c].locs

(* The invariant, of all the rows.                                           *)
LEMMA RowsGrouped ==
  ASSUME NEW rows \in Seq(AdvantageRows), NEW est
  PROVE  Clustered(Clusters(rows, est), rows, est)
<1> DEFINE g == Clusters(rows, est)
           n == Len(rows)
           m == Len(g)
<1>1. n \in Nat /\ DOMAIN rows = 1 .. n /\ ClustersInv(g, rows, est, n, n)
  BY ClustersOfRows
<1> HIDE DEF n, g
<1>2. /\ m \in Nat /\ DOMAIN g = 1 .. m
      /\ \A c \in 1 .. m :
           /\ g[c].rep \in g[c].locs
           /\ \A i \in g[c].locs :
                /\ i \in 1 .. n /\ Alike(rows, est, g[c].rep, i)
                /\ \A d \in 1 .. (c - 1) : ~Alike(rows, est, g[d].rep, i)
      /\ \A i \in 1 .. n : \E c \in 1 .. m : i \in g[c].locs
  <2> DEFINE K == [rep : 1 .. n, locs : SUBSET (1 .. n)]
  <2>1. g \in Seq(K)
    BY <1>1 DEF ClustersInv
  <2> HIDE DEF K
  <2>2. m \in Nat /\ DOMAIN g = 1 .. m
    BY <2>1
  <2> QED BY <1>1, <2>2 DEF ClustersInv
<1> HIDE DEF m
<1>3. ASSUME NEW c \in 1 .. m, NEW d \in 1 .. m, d < c PROVE d \in 1 .. (c - 1)
  BY <1>2, <1>3
<1> QED BY <1>1, <1>2, <1>3 DEF Clustered, g, m

(* A row is in one cluster.                                                  *)
LEMMA OneCluster ==
  ASSUME NEW rows, NEW est, NEW groups, Clustered(groups, rows, est),
         NEW c \in DOMAIN groups, NEW d \in DOMAIN groups,
         NEW i \in groups[c].locs, i \in groups[d].locs
  PROVE  c = d
<1> SUFFICES ASSUME c # d PROVE FALSE
  OBVIOUS
<1>1. c \in Int /\ d \in Int /\ (c < d \/ d < c)
  BY DEF Clustered
<1> QED BY <1>1 DEF Clustered

Same(rows, i, k) == rows[i].uid = rows[k].uid /\ rows[i].anchor_obs = rows[k].anchor_obs

(* Rows of the same prompt and observation resemble the same rows.           *)
LEMMA SameAreAlike ==
  ASSUME NEW rows, NEW est, NEW i, NEW k, Same(rows, i, k)
  PROVE  \A r : Alike(rows, est, r, i) <=> Alike(rows, est, r, k)
BY DEF Same, Alike

(* Rows of the same prompt and observation are in the same cluster.          *)
LEMMA SameTogether ==
  ASSUME NEW rows, NEW est, NEW groups, Clustered(groups, rows, est),
         NEW c \in DOMAIN groups, NEW i \in groups[c].locs,
         NEW k \in DOMAIN rows, Same(rows, i, k)
  PROVE  k \in groups[c].locs
<1>1. PICK d \in DOMAIN groups : k \in groups[d].locs
  BY DEF Clustered
<1>2. c \in Int /\ d \in Int
  BY DEF Clustered
<1>3. CASE d < c
  <2>1. Alike(rows, est, groups[d].rep, k) /\ ~Alike(rows, est, groups[d].rep, i)
    BY <1>1, <1>3 DEF Clustered
  <2> QED BY <2>1, SameAreAlike
<1>4. CASE c < d
  <2>1. Alike(rows, est, groups[c].rep, i) /\ ~Alike(rows, est, groups[c].rep, k)
    BY <1>1, <1>4 DEF Clustered
  <2> QED BY <2>1, SameAreAlike
<1>5. CASE c = d
  BY <1>1, <1>5
<1> QED BY <1>2, <1>3, <1>4, <1>5

(* What the fields of rows say of resemblance.                               *)
LEMMA AlikeMeans ==
  ASSUME NEW rows \in Seq(AdvantageRows), NEW est, NEW r \in DOMAIN rows, NEW i \in DOMAIN rows,
         Alike(rows, est, r, i)
  PROVE  /\ rows[i].uid = rows[r].uid
         /\ <<rows[i].anchor_obs, rows[r].anchor_obs>> \in SimilarPairs
         /\ est = "gigpo" => Same(rows, r, i)
<1>1. rows[i] \in AdvantageRows
  OBVIOUS
<1>2. rows[i].anchor_obs \in Observations
  BY <1>1 DEF AdvantageRows
<1>3. <<rows[i].anchor_obs, rows[i].anchor_obs>> \in SimilarPairs
  BY <1>2, AdvantagesAssumption
<1> QED BY <1>3 DEF Alike, AreSimilar, Same

(* The clusters of any rows are as the property says.                        *)
LEMMA StepGroupsSound ==
  ASSUME NEW rows \in Seq(AdvantageRows), NEW est \in {"gigpo", "gigpo_similarity"}, NEW groups,
         groups = Clusters(rows, est)
  PROVE  /\ \A i \in DOMAIN rows : Cardinality({c \in DOMAIN groups : i \in groups[c].locs}) = 1
         /\ \A c \in DOMAIN groups : \A i \in DOMAIN rows :
              /\ Same(rows, groups[c].rep, i) => i \in groups[c].locs
              /\ i \in groups[c].locs =>
                   /\ rows[i].uid = rows[groups[c].rep].uid
                   /\ <<rows[i].anchor_obs, rows[groups[c].rep].anchor_obs>> \in SimilarPairs
                   /\ est = "gigpo" => Same(rows, groups[c].rep, i)
         /\ \A i, k \in DOMAIN rows : \A c \in DOMAIN groups :
              Same(rows, i, k) /\ i \in groups[c].locs => k \in groups[c].locs
         /\ \A c, d \in DOMAIN groups :
              c < d /\ rows[groups[c].rep].uid = rows[groups[d].rep].uid =>
                <<rows[groups[d].rep].anchor_obs, rows[groups[c].rep].anchor_obs>>
                  \notin SimilarPairs \/ est = "gigpo"
<1>1. Clustered(groups, rows, est)
  BY RowsGrouped
<1>2. ASSUME NEW i \in DOMAIN rows
      PROVE  Cardinality({c \in DOMAIN groups : i \in groups[c].locs}) = 1
  <2>1. PICK c \in DOMAIN groups : i \in groups[c].locs
    BY <1>1 DEF Clustered
  <2>2. {d \in DOMAIN groups : i \in groups[d].locs} = {c}
    BY <1>1, <2>1, OneCluster
  <2> QED BY <2>2, FS_Singleton
<1>3. ASSUME NEW c \in DOMAIN groups
      PROVE  groups[c].rep \in groups[c].locs /\ groups[c].rep \in DOMAIN rows
  BY <1>1 DEF Clustered
<1>4. ASSUME NEW c \in DOMAIN groups, NEW i \in DOMAIN rows, Same(rows, groups[c].rep, i)
      PROVE  i \in groups[c].locs
  BY <1>1, <1>3, <1>4, SameTogether
<1>5. ASSUME NEW c \in DOMAIN groups, NEW i \in DOMAIN rows, i \in groups[c].locs
      PROVE  /\ rows[i].uid = rows[groups[c].rep].uid
             /\ <<rows[i].anchor_obs, rows[groups[c].rep].anchor_obs>> \in SimilarPairs
             /\ est = "gigpo" => Same(rows, groups[c].rep, i)
  <2>1. Alike(rows, est, groups[c].rep, i)
    BY <1>1, <1>5 DEF Clustered
  <2> QED BY <1>3, <2>1, AlikeMeans
<1>6. ASSUME NEW i \in DOMAIN rows, NEW k \in DOMAIN rows, NEW c \in DOMAIN groups,
             Same(rows, i, k), i \in groups[c].locs
      PROVE  k \in groups[c].locs
  BY <1>1, <1>6, SameTogether
<1>7. ASSUME NEW c \in DOMAIN groups, NEW d \in DOMAIN groups, c < d,
             rows[groups[c].rep].uid = rows[groups[d].rep].uid, est # "gigpo"
      PROVE  <<rows[groups[d].rep].anchor_obs, rows[groups[c].rep].anchor_obs>> \notin SimilarPairs
  <2>1. ~Alike(rows, est, groups[c].rep, groups[d].rep)
    BY <1>1, <1>7 DEF Clustered
  <2> QED BY <1>7, <2>1 DEF Alike, AreSimilar
<1> QED BY <1>2, <1>4, <1>5, <1>6, <1>7

-----------------------------------------------------------------------------
(* The invariant.                                                            *)

AdvantagesInv ==
  /\ adv_estimator \in Estimators
  /\ batch \in Seq(AdvantageRows)
  /\ stage = "done" =>
       /\ advantages = [i \in DOMAIN batch |-> AdvantageOf(batch, adv_estimator, i)]
       /\ adv_estimator = "grpo_passk" => \A i \in DOMAIN batch : OfPrompt(batch, i) # {i}

(* The invariant holds at first.                                             *)
LEMMA AdvantagesStart == AdvantageInit => AdvantagesInv
BY DEF AdvantageInit, AdvantagesInv, Estimators

(* A rollout makes rows.                                                     *)
LEMMA RolloutRows == AdvantagesInv /\ Rollout => AdvantagesInv'
<1> SUFFICES ASSUME AdvantagesInv, Rollout PROVE AdvantagesInv'
  OBVIOUS
<1>1. adv_estimator' \in Estimators /\ stage' = "adjust"
  BY DEF Rollout
<1>2. PICK n \in 1 .. MaxRows : \E rows \in [1 .. n -> RowsFor(adv_estimator')] :
        batch' = [i \in 1 .. n |-> [uid |-> (rows[i].traj_uid - 1) \div RolloutN,
                                    anchor_obs |-> rows[i].anchor_obs,
                                    reward |-> rows[i].reward,
                                    step_reward |-> rows[i].step_reward]]
  BY DEF Rollout
<1>3. PICK rows \in [1 .. n -> RowsFor(adv_estimator')] :
        batch' = [i \in 1 .. n |-> [uid |-> (rows[i].traj_uid - 1) \div RolloutN,
                                    anchor_obs |-> rows[i].anchor_obs,
                                    reward |-> rows[i].reward,
                                    step_reward |-> rows[i].step_reward]]
  BY <1>2
<1>4. ASSUME NEW i \in 1 .. n
      PROVE  [uid |-> (rows[i].traj_uid - 1) \div RolloutN, anchor_obs |-> rows[i].anchor_obs,
              reward |-> rows[i].reward, step_reward |-> rows[i].step_reward] \in AdvantageRows
  <2>1. rows[i] \in RowsFor(adv_estimator')
    OBVIOUS
  <2>2. /\ rows[i].traj_uid \in Int /\ rows[i].anchor_obs \in Observations
        /\ rows[i].reward \in Int /\ rows[i].step_reward \in Int
    <3> DEFINE est == adv_estimator'
               Seen(values) == IF est \in {"gigpo", "gigpo_similarity"} THEN values
                               ELSE {CHOOSE v \in values : TRUE}
               seen == Seen(Observations)
               told == Seen(Returns)
    <3>1. seen \subseteq Observations /\ told \subseteq Returns
      BY AdvantagesAssumption
    <3>2. rows[i] \in [traj_uid : 1 .. Trajectories, anchor_obs : seen, reward : Rewards,
                       step_reward : told]
      BY <2>1 DEF RowsFor
    <3> HIDE DEF seen, told
    <3>3. /\ rows[i].traj_uid \in 1 .. Trajectories
          /\ rows[i].anchor_obs \in seen /\ rows[i].reward \in Rewards
          /\ rows[i].step_reward \in told
      BY <3>2
    <3>4. \A t \in 1 .. Trajectories : t \in Int
      OBVIOUS
    <3> QED BY <3>1, <3>3, <3>4, AdvantagesAssumption
  <2> DEFINE u == (rows[i].traj_uid - 1) \div RolloutN
  <2>3. u \in Int
    BY <2>2, AdvantagesAssumption
  <2> HIDE DEF u
  <2>4. [uid |-> u, anchor_obs |-> rows[i].anchor_obs, reward |-> rows[i].reward,
         step_reward |-> rows[i].step_reward] \in AdvantageRows
    BY <2>2, <2>3 DEF AdvantageRows
  <2> QED BY <2>4 DEF u
<1>5. batch' \in [1 .. n -> AdvantageRows]
  <2> HIDE DEF AdvantageRows
  <2> QED BY <1>3, <1>4
<1>6. batch' \in Seq(AdvantageRows)
  BY <1>2, <1>5
<1> QED BY <1>1, <1>6 DEF AdvantagesInv

(* adjust_batch adds rows that are in the batch.                             *)
LEMMA AdjustRows == AdvantagesInv /\ AdjustBatch => AdvantagesInv'
<1> SUFFICES ASSUME AdvantagesInv, AdjustBatch PROVE AdvantagesInv'
  OBVIOUS
<1> DEFINE add == (WorldSize - (Len(batch) % WorldSize)) % WorldSize
<1>1. /\ stage' = "balance" /\ UNCHANGED adv_estimator
      /\ \E copies \in [1 .. add -> DOMAIN batch] :
           batch' = batch \o [k \in 1 .. add |-> batch[copies[k]]]
  BY DEF AdjustBatch
<1>2. batch \in Seq(AdvantageRows)
  BY DEF AdvantagesInv
<1>3. add \in Nat
  <2>1. Len(batch) \in Nat /\ WorldSize \in Nat \ {0}
    BY <1>2, AdvantagesAssumption
  <2> HIDE DEF AdvantagesInv
  <2>2. Len(batch) % WorldSize \in Int
    BY <2>1
  <2>3. WorldSize - (Len(batch) % WorldSize) \in Int
    BY <2>1, <2>2
  <2> QED BY <2>1, <2>3
<1> HIDE DEF add
<1>4. PICK copies \in [1 .. add -> DOMAIN batch] :
        batch' = batch \o [k \in 1 .. add |-> batch[copies[k]]]
  BY <1>1
<1>5. [k \in 1 .. add |-> batch[copies[k]]] \in [1 .. add -> AdvantageRows]
  BY <1>2
<1>6. [k \in 1 .. add |-> batch[copies[k]]] \in Seq(AdvantageRows)
  BY <1>3, <1>5
<1>7. batch' \in Seq(AdvantageRows)
  <2> DEFINE copied == [k \in 1 .. add |-> batch[copies[k]]]
  <2>1. copied \in Seq(AdvantageRows) /\ batch' = batch \o copied
    BY <1>4, <1>6
  <2> HIDE DEF copied
  <2> QED BY <1>2, <2>1, ConcatElements
<1> QED BY <1>1, <1>7 DEF AdvantagesInv

(* compute_advantage leaves the rows alone.                                  *)
LEMMA ComputeRows == AdvantagesInv /\ ComputeAdvantage => AdvantagesInv'
<1> SUFFICES ASSUME AdvantagesInv, ComputeAdvantage PROVE AdvantagesInv'
  OBVIOUS
<1>1. UNCHANGED <<adv_estimator, batch>>
  BY DEF ComputeAdvantage
<1>2. CASE stage' = "done"
  BY <1>1, <1>2 DEF AdvantagesInv, ComputeAdvantage
<1>3. CASE stage' # "done"
  BY <1>1, <1>3 DEF AdvantagesInv
<1> QED BY <1>2, <1>3

(* The parts the ranks get hold every place of the batch once, in any order. *)
Parts(n, rank) == [r \in 1 .. WorldSize |-> InOrder({i \in 1 .. n : rank[i] = r})]

(* A set of places has its list, the smallest place first.                   *)
LEMMA InOrderLists ==
  ASSUME NEW n \in Nat, NEW S \in SUBSET (1 .. n)
  PROVE  /\ Cardinality(S) \in Nat
         /\ Lists(InOrder(S), S, Cardinality(S))
         /\ InOrder(S) \in Seq(S) /\ Len(InOrder(S)) = Cardinality(S)
<1> DEFINE m == Cardinality(S)
           s == InOrder(S)
<1>1. IsFiniteSet(S) /\ S \in SUBSET Nat
  <2>1. IsFiniteSet(1 .. n)
    BY FS_Interval
  <2>2. IsFiniteSet(S)
    BY <2>1, FS_Subset
  <2>3. \A i \in 1 .. n : i \in Nat
    OBVIOUS
  <2> QED BY <2>2, <2>3
<1>2. m \in Nat
  BY <1>1, FS_CardinalityType
<1> HIDE DEF m
<1>3. \E l : Lists(l, S, m)
  BY <1>1, <1>2, ListExists DEF m
<1>4. \E l \in [1 .. m -> S] : \A i, j \in DOMAIN l : i < j => l[i] < l[j]
  <2>1. PICK l : Lists(l, S, m)
    BY <1>3
  <2>2. l \in [1 .. m -> S] /\ \A i, j \in DOMAIN l : i < j => l[i] < l[j]
    BY <2>1 DEF Lists
  <2> QED BY <2>2
<1>5. s \in [1 .. m -> S] /\ \A i, j \in DOMAIN s : i < j => s[i] < s[j]
  BY <1>4 DEF InOrder, m
<1> HIDE DEF s
<1>6. s \in Seq(S) /\ Len(s) = m /\ Lists(s, S, m)
  BY <1>2, <1>5 DEF Lists
<1> QED BY <1>2, <1>6 DEF s, m

(* The ranks share the places.                                               *)
LEMMA PartsShare ==
  ASSUME NEW n \in Nat, NEW rank \in [1 .. n -> 1 .. WorldSize]
  PROVE  /\ Parts(n, rank) \in [1 .. WorldSize -> Seq(1 .. n)]
         /\ Shares(Parts(n, rank), 1 .. WorldSize, 1 .. n)
<1> DEFINE D == 1 .. n
           I == 1 .. WorldSize
           S(r) == {i \in 1 .. n : rank[i] = r}
           p == Parts(n, rank)
<1>1. ASSUME NEW r \in I
      PROVE  /\ p[r] \in Seq(S(r)) /\ p[r] \in Seq(D) /\ Len(p[r]) \in Nat
             /\ \A i \in 1 .. Len(p[r]) : p[r][i] \in S(r)
             /\ \A i, j \in 1 .. Len(p[r]) : p[r][i] = p[r][j] => i = j
             /\ \A x \in S(r) : \E i \in 1 .. Len(p[r]) : p[r][i] = x
  <2> DEFINE T == S(r)
             s == InOrder(T)
             m == Cardinality(T)
  <2>1. p[r] = s
    BY DEF Parts
  <2>2. T \in SUBSET (1 .. n) /\ T \in SUBSET Nat /\ IsFiniteSet(T)
    <3>1. T \in SUBSET (1 .. n) /\ IsFiniteSet(1 .. n)
      BY FS_Interval
    <3> QED BY <3>1, FS_Subset
  <2>3. T \subseteq D
    OBVIOUS
  <2> HIDE DEF T, p, D
  <2>4. m \in Nat /\ Lists(s, T, m) /\ s \in Seq(T) /\ Len(s) = m
    BY <2>2, InOrderLists
  <2>5. /\ \A i, j \in 1 .. m : s[i] = s[j] => i = j
        /\ \A x \in T : \E i \in 1 .. m : s[i] = x
    BY <2>2, <2>4, ListIsWhole
  <2> HIDE DEF s, m
  <2>6. s \in Seq(D) /\ \A i \in 1 .. m : s[i] \in T
    BY <2>3, <2>4
  <2> QED BY <2>1, <2>4, <2>5, <2>6 DEF T
<1>2. p \in [I -> Seq(D)]
  <2>1. p = [r \in I |-> p[r]]
    BY DEF Parts
  <2> HIDE DEF p, D, I
  <2> QED BY <1>1, <2>1
<1> HIDE DEF p
<1>3. ASSUME NEW k \in I, NEW l \in I, NEW i \in 1 .. Len(p[k]), NEW j \in 1 .. Len(p[l]), p[k][i] = p[l][j]
      PROVE  k = l /\ i = j
  <2>1. rank[p[k][i]] = k /\ rank[p[l][j]] = l
    BY <1>1
  <2>2. k = l
    BY <1>3, <2>1
  <2>3. \A a, b \in 1 .. Len(p[k]) : p[k][a] = p[k][b] => a = b
    BY <1>1
  <2> QED BY <1>3, <2>2, <2>3
<1>4. ASSUME NEW d \in D PROVE \E k \in I : \E i \in 1 .. Len(p[k]) : p[k][i] = d
  <2>1. rank[d] \in I /\ d \in S(rank[d])
    OBVIOUS
  <2> QED BY <1>1, <2>1
<1>5. Shares(p, I, D)
  <2> HIDE DEF I, D
  <2> QED BY <1>1, <1>3, <1>4 DEF Shares
<1> QED BY <1>2, <1>5 DEF p

(* So every place comes once.                                                *)
LEMMA PlacesEnumerate ==
  ASSUME NEW n \in Nat, NEW rank \in [1 .. n -> 1 .. WorldSize]
  PROVE  Enumerates(FlattenSeq(Parts(n, rank)), 1 .. n)
<1> DEFINE D == 1 .. n
           p == Parts(n, rank)
<1>1. WorldSize \in Nat
  BY AdvantagesAssumption
<1>2. p \in [1 .. WorldSize -> Seq(D)] /\ Shares(p, 1 .. WorldSize, D)
  BY PartsShare
<1> HIDE DEF p, D
<1>3. Enumerates(FlattenSeq(p), D)
  BY <1>1, <1>2, FlattenEnumerates
<1> QED BY <1>3 DEF p, D

(* Rows in another order are rows.                                           *)
LEMMA ReorderedType ==
  ASSUME NEW S, NEW rows \in Seq(S), NEW rank \in [1 .. Len(rows) -> 1 .. WorldSize]
  PROVE  Reordered(rows, rank) \in Seq(S)
<1> DEFINE n == Len(rows)
           p == Parts(n, rank)
           W == 1 .. WorldSize
           seqs == [r \in W |-> [k \in DOMAIN p[r] |-> rows[p[r][k]]]]
<1>1. n \in Nat /\ DOMAIN rows = 1 .. n /\ WorldSize \in Nat
  BY AdvantagesAssumption
<1>2. p \in [W -> Seq(1 .. n)]
  BY <1>1, PartsShare
<1>3. Reordered(rows, rank) = FlattenSeq(seqs)
  BY <1>1 DEF Reordered, Parts
<1> HIDE DEF p, n
<1>4. ASSUME NEW r \in W PROVE seqs[r] \in Seq(S)
  <2> DEFINE q == p[r]
  <2>1. q \in Seq(1 .. n)
    BY <1>2
  <2>2. seqs[r] = [k \in DOMAIN q |-> rows[q[k]]]
    OBVIOUS
  <2> HIDE DEF q
  <2>3. Len(q) \in Nat /\ DOMAIN q = 1 .. Len(q) /\ \A k \in 1 .. Len(q) : q[k] \in 1 .. n
    <3> DEFINE D == 1 .. n
    <3>1. q \in Seq(D)
      BY <2>1
    <3> HIDE DEF D
    <3>2. Len(q) \in Nat /\ DOMAIN q = 1 .. Len(q) /\ \A k \in 1 .. Len(q) : q[k] \in D
      BY <3>1
    <3> QED BY <3>2 DEF D
  <2>4. \A k \in 1 .. Len(q) : rows[q[k]] \in S
    BY <1>1, <2>3
  <2>5. [k \in DOMAIN q |-> rows[q[k]]] \in [1 .. Len(q) -> S]
    BY <2>3, <2>4
  <2> QED BY <2>2, <2>3, <2>5, SMTT(30)
<1>5. seqs \in [W -> Seq(S)]
  BY <1>4
<1> HIDE DEF seqs
<1>6. PICK F \in [0 .. WorldSize -> Seq(S)] :
           /\ F[0] = <<>>
           /\ \A k \in 1 .. WorldSize : F[k] = F[k - 1] \o seqs[k]
           /\ F[WorldSize] = FlattenSeq(seqs)
  BY <1>1, <1>5, FlattenParts DEF W
<1> QED BY <1>1, <1>3, <1>6

(* Balancing moves rows.                                                     *)
LEMMA BalanceRows == AdvantagesInv /\ BalanceBatch => AdvantagesInv'
<1> SUFFICES ASSUME AdvantagesInv, BalanceBatch PROVE AdvantagesInv'
  OBVIOUS
<1>1. batch \in Seq(AdvantageRows) /\ stage' = "advantage" /\ UNCHANGED adv_estimator
  BY DEF AdvantagesInv, BalanceBatch
<1>2. PICK rank \in EqualShares(Len(batch)) : batch' = Reordered(batch, rank)
  BY DEF BalanceBatch
<1>3. rank \in [1 .. Len(batch) -> 1 .. WorldSize]
  BY <1>2 DEF EqualShares
<1>4. batch' \in Seq(AdvantageRows)
  BY <1>1, <1>2, <1>3, ReorderedType
<1> QED BY <1>1, <1>4 DEF AdvantagesInv

(* The rows of a batch have a prompt, an observation and a reward throughout, and*)
(* advantages, once there are any, are those of the rows as they stand, of prompts*)
(* of several rows when the estimator is pass@k.                             *)
THEOREM AdvantagesInductive == AdvantageSpec => []AdvantagesInv
<1>1. AdvantagesInv /\ [AdvantageNext]_advantage_vars => AdvantagesInv'
  <2> SUFFICES ASSUME AdvantagesInv, [AdvantageNext]_advantage_vars PROVE AdvantagesInv'
    OBVIOUS
  <2>1. CASE Rollout
    BY <2>1, RolloutRows
  <2>2. CASE AdjustBatch
    BY <2>2, AdjustRows
  <2>3. CASE BalanceBatch
    BY <2>3, BalanceRows
  <2>4. CASE ComputeAdvantage
    BY <2>4, ComputeRows
  <2>5. CASE UNCHANGED advantage_vars
    BY <2>5 DEF AdvantagesInv, advantage_vars
  <2> QED BY <2>1, <2>2, <2>3, <2>4, <2>5 DEF AdvantageNext
<1> QED BY <1>1, AdvantagesStart, PTL DEF AdvantageSpec

(* build_step_group, for every batch: each row is in one step group, which is of*)
(* its prompt and whose founder it resembles; rows of the same prompt and    *)
(* observation are together; a founder does not resemble an earlier one.     *)
THEOREM GroupsAreOfOneState == AdvantageSpec => []StepGroupsAreOfOneState
<1>1. AdvantagesInv => StepGroupsAreOfOneState
  <2> SUFFICES ASSUME AdvantagesInv, adv_estimator \in {"gigpo", "gigpo_similarity"}
               PROVE  StepGroupsAreOfOneState
    BY DEF StepGroupsAreOfOneState
  <2> DEFINE groups == Clusters(batch, adv_estimator)
  <2>1. batch \in Seq(AdvantageRows)
    BY DEF AdvantagesInv
  <2> HIDE DEF groups
  <2> QED BY <2>1, StepGroupsSound DEF StepGroupsAreOfOneState, Same, groups
<1> QED BY <1>1, AdvantagesInductive, PTL

-----------------------------------------------------------------------------
(* Sums over finite sets.                                                   *)

(* Induction over the subsets of a finite set.                               *)
LEMMA SubsetsUp ==
  ASSUME NEW S, IsFiniteSet(S), NEW Z,
         \A T \in SUBSET S : (\A U \in SUBSET T : U # T => U \in Z) => T \in Z
  PROVE  \A T \in SUBSET S : T \in Z
<1> SUFFICES ASSUME NEW B \in SUBSET S, B \notin Z PROVE FALSE
  OBVIOUS
<1> DEFINE N == {k \in Nat : \E T \in SUBSET S : T \notin Z /\ Cardinality(T) = k}
<1>1. \A T \in SUBSET S : IsFiniteSet(T) /\ Cardinality(T) \in Nat
  BY FS_Subset, FS_CardinalityType
<1>2. N \subseteq Nat /\ N # {}
  BY <1>1
<1>3. PICK k \in N : \A l \in N : k <= l
  BY <1>2, LeastExists
<1>4. PICK T \in SUBSET S : T \notin Z /\ Cardinality(T) = k
  BY <1>3
<1>5. ASSUME NEW U \in SUBSET T, U # T PROVE U \in Z
  <2>1. Cardinality(U) <= Cardinality(T) /\ Cardinality(U) # Cardinality(T)
    BY <1>1, <1>4, <1>5, FS_Subset
  <2>2. Cardinality(U) \in Nat /\ Cardinality(T) \in Nat /\ U \in SUBSET S
    BY <1>1
  <2>3. ~(k <= Cardinality(U))
    BY <1>4, <2>1, <2>2
  <2> QED BY <1>3, <2>2, <2>3
<1> QED BY <1>4, <1>5

AnyOf(T) == CHOOSE x \in T : TRUE

(* CHOOSE takes an element.                                                  *)
LEMMA AnyIsOne == ASSUME NEW T, T # {} PROVE AnyOf(T) \in T
BY DEF AnyOf

(* Numbers or fractions added over the subsets of a set, the way the folds   *)
(* do.                                                                       *)
Nothing(fractions) == IF fractions THEN <<0, 1>> ELSE 0
Added(fractions, x, y) == IF fractions THEN Plus(x, y) ELSE x + y

FoldedOver(f, fractions, r, S) ==
  f = [T \in S |-> IF T = {} THEN Nothing(fractions)
                   ELSE Added(fractions, r[AnyOf(T)], f[T \ {AnyOf(T)}])]

(* There is a fold over the subsets of a finite set.                         *)
LEMMA FoldExists ==
  ASSUME NEW S, IsFiniteSet(S), NEW fractions, NEW r
  PROVE  \E f : FoldedOver(f, fractions, r, SUBSET S)
<1> DEFINE Z(k) == {T \in SUBSET S : Cardinality(T) <= k}
           G == {k \in 0 .. Cardinality(S) : \E f : FoldedOver(f, fractions, r, Z(k))}
<1>1. \A T \in SUBSET S : IsFiniteSet(T) /\ Cardinality(T) \in Nat /\ Cardinality(T) <= Cardinality(S)
  BY FS_Subset, FS_CardinalityType
<1>2. Cardinality(S) \in Nat
  BY <1>1
<1>3. 0 \in G
  <2> DEFINE f == [T \in Z(0) |-> Nothing(fractions)]
  <2>1. \A T \in Z(0) : T = {}
    <3> SUFFICES ASSUME NEW T \in Z(0) PROVE T = {}
      OBVIOUS
    <3>1. IsFiniteSet(T) /\ Cardinality(T) = 0
      BY <1>1
    <3> QED BY <3>1, FS_EmptySet
  <2>2. FoldedOver(f, fractions, r, Z(0))
    BY <2>1 DEF FoldedOver
  <2> HIDE DEF f, Z
  <2> QED BY <1>2, <2>2
<1>4. ASSUME NEW k \in 1 .. Cardinality(S), k - 1 \in G PROVE k \in G
  <2>1. PICK f : FoldedOver(f, fractions, r, Z(k - 1))
    BY <1>4
  <2> DEFINE Following(g, T) == IF T = {} THEN Nothing(fractions)
                            ELSE Added(fractions, r[AnyOf(T)], g[T \ {AnyOf(T)}])
             h == [T \in Z(k) |-> Following(f, T)]
  <2>2. \A T \in Z(k - 1) : f[T] = Following(f, T)
    BY <2>1 DEF FoldedOver
  <2>3. ASSUME NEW T \in Z(k), T # {} PROVE T \ {AnyOf(T)} \in Z(k - 1) /\ T \ {AnyOf(T)} \in Z(k)
    <3>1. AnyOf(T) \in T
      BY <2>3, AnyIsOne
    <3>2. Cardinality(T \ {AnyOf(T)}) = Cardinality(T) - 1
      BY <1>1, <3>1, FS_RemoveElement
    <3>3. T \ {AnyOf(T)} \in SUBSET S /\ Cardinality(T) \in Nat /\ Cardinality(T) <= k /\ k \in Int
      BY <1>1, <1>2
    <3> QED BY <3>2, <3>3
  <2>4. \A T \in Z(k) : h[T] = Following(f, T)
    OBVIOUS
  <2>5. h = [T \in Z(k) |-> h[T]]
    OBVIOUS
  <2>6. \A T \in Z(k - 1) : T \in Z(k)
    BY <1>1, <1>2
  <2> HIDE DEF h, Z
  <2>7. ASSUME NEW T \in Z(k) PROVE h[T] = Following(h, T)
    <3>1. CASE T = {}
      BY <2>4, <3>1
    <3>2. CASE T # {}
      <4> DEFINE U == T \ {AnyOf(T)}
      <4>1. U \in Z(k - 1) /\ U \in Z(k)
        BY <2>3, <3>2
      <4>2. h[U] = f[U]
        BY <2>2, <2>4, <4>1
      <4> QED BY <2>4, <3>2, <4>2
    <3> QED BY <3>1, <3>2
  <2>8. FoldedOver(h, fractions, r, Z(k))
    BY <2>5, <2>7 DEF FoldedOver
  <2> QED BY <2>8
<1> HIDE DEF G
<1>5. Cardinality(S) \in G
  BY <1>2, <1>3, <1>4, UpTo
<1>6. PICK f : FoldedOver(f, fractions, r, Z(Cardinality(S)))
  BY <1>5 DEF G
<1>7. Z(Cardinality(S)) = SUBSET S
  BY <1>1
<1> QED BY <1>6, <1>7

-----------------------------------------------------------------------------
(* Sums.                                                                     *)

(* G has the sum of r over every subset of S.                                *)
IsSum(G, r, S) ==
  /\ G[{}] = 0
  /\ \A T \in SUBSET S : G[T] \in Int /\ \A x \in T : G[T] = G[T \ {x}] + r[x]

(* Whichever element is taken first.                                         *)
LEMMA FoldIsSum ==
  ASSUME NEW S, IsFiniteSet(S), NEW r, \A x \in S : r[x] \in Int, NEW G,
         FoldedOver(G, FALSE, r, SUBSET S)
  PROVE  IsSum(G, r, S)
<1> DEFINE Z == {T \in SUBSET S : G[T] \in Int /\ \A x \in T : G[T] = G[T \ {x}] + r[x]}
<1>1. \A T \in SUBSET S : G[T] = IF T = {} THEN 0 ELSE r[AnyOf(T)] + G[T \ {AnyOf(T)}]
  BY DEF FoldedOver, Nothing, Added
<1>2. ASSUME NEW T \in SUBSET S, \A U \in SUBSET T : U # T => U \in Z PROVE T \in Z
  <2>1. CASE T = {}
    <3>1. G[T] = 0
      BY <1>1, <2>1
    <3> QED BY <2>1, <3>1
  <2>2. CASE T # {}
    <3> DEFINE c == AnyOf(T)
    <3>1. c \in T /\ G[T] = r[c] + G[T \ {c}]
      BY <1>1, <2>2, AnyIsOne
    <3> HIDE DEF c
    <3>2. \A x \in T : T \ {x} \in SUBSET S /\ T \ {x} \in SUBSET T /\ T \ {x} # T
      OBVIOUS
    <3>3. \A x \in T : T \ {x} \in Z
      BY <1>2, <3>2
    <3>4. G[T] \in Int
      <4>1. r[c] \in Int /\ G[T \ {c}] \in Int
        BY <3>1, <3>3
      <4> HIDE DEF Z
      <4> QED BY <3>1, <4>1
    <3>5. ASSUME NEW x \in T, x # c PROVE G[T] = G[T \ {x}] + r[x]
      <4>1. (T \ {c}) \ {x} = (T \ {x}) \ {c} /\ x \in T \ {c} /\ c \in T \ {x}
        BY <3>1, <3>5
      <4> DEFINE a == G[(T \ {c}) \ {x}]
      <4>2. G[T \ {c}] = a + r[x]
        BY <3>1, <3>3, <4>1
      <4>3. G[T \ {x}] = a + r[c]
        BY <3>3, <4>1
      <4>4. a \in Int
        <5>1. (T \ {c}) \ {x} \in SUBSET T /\ (T \ {c}) \ {x} # T
          BY <3>1
        <5> QED BY <1>2, <5>1
      <4>5. r[x] \in Int /\ r[c] \in Int
        BY <3>1
      <4> HIDE DEF a
      <4> QED BY <3>1, <4>2, <4>3, <4>4, <4>5
    <3>6. ASSUME NEW x \in T, x = c PROVE G[T] = G[T \ {x}] + r[x]
      <4>1. r[c] \in Int /\ G[T \ {c}] \in Int
        BY <3>1, <3>3
      <4> QED BY <3>1, <3>6, <4>1
    <3> QED BY <3>4, <3>5, <3>6
  <2> QED BY <2>1, <2>2
<1> HIDE DEF Z
<1>3. \A T \in SUBSET S : T \in Z
  BY <1>2, SubsetsUp
<1>4. G[{}] = 0
  BY <1>1
<1> QED BY <1>3, <1>4 DEF IsSum, Z

(* There is one sum.                                                         *)
LEMMA SumUnique ==
  ASSUME NEW S, IsFiniteSet(S), NEW r, NEW q, \A x \in S : r[x] = q[x],
         NEW G, NEW H, IsSum(G, r, S), IsSum(H, q, S)
  PROVE  \A T \in SUBSET S : G[T] = H[T]
<1> DEFINE Z == {T \in SUBSET S : G[T] = H[T]}
<1>1. ASSUME NEW T \in SUBSET S, \A U \in SUBSET T : U # T => U \in Z PROVE T \in Z
  <2>1. CASE T = {}
    BY <2>1 DEF IsSum
  <2>2. CASE T # {}
    <3>1. PICK x \in T : TRUE
      BY <2>2
    <3>2. G[T \ {x}] = H[T \ {x}]
      <4>1. T \ {x} \in SUBSET T /\ T \ {x} # T
        OBVIOUS
      <4> QED BY <1>1, <4>1
    <3>3. G[T] = G[T \ {x}] + r[x] /\ H[T] = H[T \ {x}] + q[x] /\ r[x] = q[x]
      BY DEF IsSum
    <3> QED BY <3>2, <3>3
  <2> QED BY <2>1, <2>2
<1> HIDE DEF Z
<1>2. \A T \in SUBSET S : T \in Z
  BY <1>1, SubsetsUp
<1> QED BY <1>2 DEF Z

(* There is a sum.                                                           *)
LEMMA SumExists ==
  ASSUME NEW S, IsFiniteSet(S), NEW r, \A x \in S : r[x] \in Int
  PROVE  \E G : IsSum(G, r, S)
<1>1. PICK G : FoldedOver(G, FALSE, r, SUBSET S)
  BY FoldExists
<1> QED BY <1>1, FoldIsSum

(* Total adds the scores.                                                    *)
LEMMA TotalIsSum ==
  ASSUME NEW r, NEW S, IsFiniteSet(S), \A x \in S : r[x] \in Int
  PROVE  \E G : IsSum(G, r, S) /\ Total(r, S) = G[S]
<1>1. PICK f : FoldedOver(f, FALSE, r, SUBSET S)
  BY FoldExists
<1>2. f = [T \in SUBSET S |-> IF T = {} THEN 0
                              ELSE r[CHOOSE x \in T : TRUE] + f[T \ {CHOOSE x \in T : TRUE}]]
  BY <1>1 DEF FoldedOver, Nothing, Added, AnyOf
<1>3. \E g : /\ g = [T \in SUBSET S |-> IF T = {} THEN 0
                                        ELSE r[CHOOSE x \in T : TRUE] + g[T \ {CHOOSE x \in T : TRUE}]]
             /\ Total(r, S) = g[S]
  BY <1>2 DEF Total, MapThenSumSet, MapThenFoldSet
<1>4. PICK g : /\ g = [T \in SUBSET S |-> IF T = {} THEN 0
                                        ELSE r[CHOOSE x \in T : TRUE] + g[T \ {CHOOSE x \in T : TRUE}]]
               /\ Total(r, S) = g[S]
  BY <1>3
<1>5. FoldedOver(g, FALSE, r, SUBSET S)
  BY <1>4 DEF FoldedOver, Nothing, Added, AnyOf
<1>6. IsSum(g, r, S)
  BY <1>1, <1>5, FoldIsSum
<1> QED BY <1>4, <1>6

-----------------------------------------------------------------------------
(* Arithmetic.                                                              *)

(* Arithmetic.                                                               *)
LEMMA Distributes ==
  ASSUME NEW a \in Int, NEW b \in Int, NEW g \in Int, NEW h \in Int, NEW x \in Int, NEW y \in Int
  PROVE  a * (g + x) + b * (h + y) = (a * g + b * h) + (a * x + b * y)
<1>1. a * (g + x) = a * g + a * x
  OBVIOUS
<1>2. b * (h + y) = b * h + b * y
  OBVIOUS
<1>3. a * g \in Int /\ a * x \in Int /\ b * h \in Int /\ b * y \in Int
  OBVIOUS
<1> QED BY <1>1, <1>2, <1>3

\* a / d and x / y, added.
CrossSum(a, d, e, m, x, y, s) == (a * y + x * d) * m = (d * y) * (a * e + s)

(* Adding fractions and adding them over a common denominator agree.         *)
LEMMA OverOne ==
  ASSUME NEW a \in Int, NEW d \in Int, NEW e \in Int, NEW m \in Int, NEW x \in Int, NEW y \in Int,
         NEW s \in Int, d * e = m, x * m = y * s
  PROVE  CrossSum(a, d, e, m, x, y, s)
<1>1. (a * y + x * d) * m = (a * y) * m + (x * d) * m
  <2>1. a * y \in Int /\ x * d \in Int
    OBVIOUS
  <2> QED BY <2>1
<1>2. (d * y) * (a * e + s) = (d * y) * (a * e) + (d * y) * s
  <2>1. a * e \in Int /\ d * y \in Int
    OBVIOUS
  <2> QED BY <2>1
<1>3. (a * y) * m = (d * y) * (a * e)
  <2>1. (a * y) * (d * e) = (d * y) * (a * e)
    OBVIOUS
  <2> QED BY <2>1
<1>4. (x * d) * m = (d * y) * s
  <2>1. (x * d) * m = (x * m) * d
    OBVIOUS
  <2>2. (d * y) * s = (y * s) * d
    OBVIOUS
  <2> QED BY <2>1, <2>2
<1> QED BY <1>1, <1>2, <1>3, <1>4 DEF CrossSum

(* Positive numbers have a positive product.                                 *)
LEMMA PositiveProduct ==
  ASSUME NEW k \in Nat \ {0}, NEW d \in Nat \ {0}
  PROVE  k * d \in Nat \ {0}
<1>1. k * d = (k - 1) * d + d
  OBVIOUS
<1>2. (k - 1) * d \in Nat
  OBVIOUS
<1> QED BY <1>1, <1>2

(* Multiplying by a positive number keeps the order.                         *)
LEMMA Scaled ==
  ASSUME NEW x \in Int, NEW y \in Int, NEW d \in Nat \ {0}
  PROVE  /\ x * d < y * d <=> x < y
         /\ d * x < d * y <=> x < y
         /\ x * d = y * d => x = y
         /\ d * x = d * y => x = y
<1>1. CASE x < y
  <2>1. y * d = x * d + (y - x) * d
    OBVIOUS
  <2>2. (y - x) * d > 0 /\ x * d \in Int
    <3> DEFINE k == y - x
    <3>1. k \in Nat \ {0}
      BY <1>1
    <3> HIDE DEF k
    <3>2. k * d \in Nat \ {0}
      BY <3>1, PositiveProduct
    <3> QED BY <3>2 DEF k
  <2>3. d * x = x * d /\ d * y = y * d
    OBVIOUS
  <2> QED BY <1>1, <2>1, <2>2, <2>3
<1>2. CASE y < x
  <2>1. x * d = y * d + (x - y) * d
    OBVIOUS
  <2>2. (x - y) * d > 0 /\ y * d \in Int
    <3> DEFINE k == x - y
    <3>1. k \in Nat \ {0}
      BY <1>2
    <3> HIDE DEF k
    <3>2. k * d \in Nat \ {0}
      BY <3>1, PositiveProduct
    <3> QED BY <3>2 DEF k
  <2>3. d * x = x * d /\ d * y = y * d
    OBVIOUS
  <2> QED BY <1>2, <2>1, <2>2, <2>3
<1>3. CASE x = y
  <2>1. x * d \in Int /\ d * x \in Int
    OBVIOUS
  <2> QED BY <1>3, <2>1
<1> QED BY <1>1, <1>2, <1>3

-----------------------------------------------------------------------------
(* Laws of sums.                                                             *)

\* q is a times r and b times t, on S.
Linear(q, a, r, b, t, S) ==
  \A x \in S : r[x] \in Int /\ t[x] \in Int /\ q[x] = a * r[x] + b * t[x]

Combined(K, a, G, b, H, S) == \A T \in SUBSET S : K[T] = a * G[T] + b * H[T]

(* The sum of linear combinations is the combination of the sums.            *)
LEMMA SumLinear ==
  ASSUME NEW S, IsFiniteSet(S), NEW r, NEW t, NEW q, NEW a \in Int, NEW b \in Int,
         Linear(q, a, r, b, t, S),
         NEW G, NEW H, NEW K, IsSum(G, r, S), IsSum(H, t, S), IsSum(K, q, S)
  PROVE  Combined(K, a, G, b, H, S)
<1> DEFINE L == [T \in SUBSET S |-> a * G[T] + b * H[T]]
<1>1. G[{}] = 0 /\ H[{}] = 0 /\ L[{}] = 0
  <2>1. G[{}] = 0 /\ H[{}] = 0
    BY DEF IsSum
  <2>2. a * 0 + b * 0 = 0
    OBVIOUS
  <2> QED BY <2>1, <2>2
<1>2. ASSUME NEW T \in SUBSET S
      PROVE  L[T] \in Int /\ \A x \in T : L[T] = L[T \ {x}] + q[x]
  <2>1. G[T] \in Int /\ H[T] \in Int
    BY DEF IsSum
  <2>2. L[T] = a * G[T] + b * H[T] /\ L[T] \in Int
    BY <2>1
  <2>3. ASSUME NEW x \in T PROVE L[T] = L[T \ {x}] + q[x]
    <3> DEFINE U == T \ {x}
    <3>1. U \in SUBSET S
      OBVIOUS
    <3>2. G[T] = G[U] + r[x] /\ H[T] = H[U] + t[x] /\ G[U] \in Int /\ H[U] \in Int
      BY <3>1 DEF IsSum
    <3>3. L[U] = a * G[U] + b * H[U]
      BY <3>1
    <3>4. r[x] \in Int /\ t[x] \in Int /\ q[x] = a * r[x] + b * t[x]
      BY DEF Linear
    <3> HIDE DEF U, L
    <3>5. a * (G[U] + r[x]) + b * (H[U] + t[x]) = (a * G[U] + b * H[U]) + (a * r[x] + b * t[x])
      BY <3>2, <3>4, Distributes
    <3> QED BY <2>2, <3>2, <3>3, <3>4, <3>5 DEF U
  <2> QED BY <2>2, <2>3
<1>3. \A T \in SUBSET S : L[T] = a * G[T] + b * H[T]
  OBVIOUS
<1> HIDE DEF L
<1>4. IsSum(L, q, S)
  BY <1>1, <1>2 DEF IsSum
<1>5. \A T \in SUBSET S : K[T] = L[T]
  BY <1>4, SumUnique
<1> QED BY <1>3, <1>5 DEF Combined

(* The sum of ones is the size.                                              *)
LEMMA SumOfOnes ==
  ASSUME NEW S, IsFiniteSet(S)
  PROVE  IsSum([T \in SUBSET S |-> Cardinality(T)], [x \in S |-> 1], S)
<1> DEFINE G == [T \in SUBSET S |-> Cardinality(T)]
<1>1. G[{}] = 0
  BY FS_EmptySet
<1>2. ASSUME NEW T \in SUBSET S
      PROVE  G[T] \in Int /\ \A x \in T : G[T] = G[T \ {x}] + 1
  <2>1. IsFiniteSet(T) /\ Cardinality(T) \in Nat
    BY FS_Subset, FS_CardinalityType
  <2>2. \A x \in T : Cardinality(T \ {x}) = Cardinality(T) - 1
    BY <2>1, FS_RemoveElement
  <2>3. \A x \in T : T \ {x} \in SUBSET S
    OBVIOUS
  <2> QED BY <2>1, <2>2, <2>3
<1> HIDE DEF G
<1>3. IsSum(G, [x \in S |-> 1], S)
  BY <1>1, <1>2 DEF IsSum
<1> QED BY <1>3 DEF G

(* q is a times r less b.                                                    *)
Affine(q, a, r, b, S) == \A x \in S : r[x] \in Int /\ q[x] = a * r[x] - b

(* The sum of multiples less a number.                                       *)
LEMMA SumAffine ==
  ASSUME NEW S, IsFiniteSet(S), NEW r, NEW q, NEW a \in Int, NEW b \in Int, Affine(q, a, r, b, S),
         NEW G, NEW K, IsSum(G, r, S), IsSum(K, q, S)
  PROVE  \A T \in SUBSET S : K[T] = a * G[T] - b * Cardinality(T)
<1> DEFINE H == [T \in SUBSET S |-> Cardinality(T)]
           t == [x \in S |-> 1]
           c == 0 - b
<1>1. IsSum(H, t, S)
  BY SumOfOnes
<1>2. c \in Int /\ \A x \in S : t[x] = 1
  OBVIOUS
<1>3. \A x \in S : r[x] \in Int /\ t[x] \in Int /\ q[x] = a * r[x] + c * t[x]
  <2>1. ASSUME NEW x \in S PROVE r[x] \in Int /\ q[x] = a * r[x] + c * 1
    <3>1. r[x] \in Int /\ q[x] = a * r[x] - b
      BY DEF Affine
    <3>2. a * r[x] \in Int
      BY <3>1
    <3> QED BY <3>1, <3>2
  <2> HIDE DEF t, c
  <2> QED BY <1>2, <2>1
<1>4. \A T \in SUBSET S : H[T] = Cardinality(T) /\ Cardinality(T) \in Int /\ G[T] \in Int
  BY FS_Subset, FS_CardinalityType DEF IsSum
<1> HIDE DEF H, t, c
<1>5. \A T \in SUBSET S : K[T] = a * G[T] + c * H[T]
  <2>1. Linear(q, a, r, c, t, S)
    BY <1>3 DEF Linear
  <2>2. Combined(K, a, G, c, H, S)
    BY <1>1, <1>2, <2>1, SumLinear
  <2> QED BY <2>2 DEF Combined
<1>6. ASSUME NEW T \in SUBSET S PROVE K[T] = a * G[T] - b * Cardinality(T)
  <2>1. a * G[T] \in Int /\ b * Cardinality(T) \in Int /\ (0 - b) * Cardinality(T) = 0 - b * Cardinality(T)
    BY <1>4
  <2> QED BY <1>4, <1>5, <2>1 DEF c
<1> QED BY <1>6

AddsUp(G, A, B) == G[A \cup B] = G[A] + G[B]

(* The sum over disjoint sets is the sum of the sums.                        *)
LEMMA SumUnion ==
  ASSUME NEW S, IsFiniteSet(S), NEW r, \A x \in S : r[x] \in Int, NEW G, IsSum(G, r, S),
         NEW A \in SUBSET S, NEW B \in SUBSET S, A \cap B = {}
  PROVE  AddsUp(G, A, B)
<1> DEFINE Z == {T \in SUBSET S : A \cap T = {} => G[A \cup T] = G[A] + G[T]}
<1>1. ASSUME NEW T \in SUBSET S, \A U \in SUBSET T : U # T => U \in Z PROVE T \in Z
  <2>1. CASE T = {}
    <3>1. A \cup T = A
      BY <2>1
    <3>2. G[A] \in Int /\ G[T] = 0
      BY <2>1 DEF IsSum
    <3>3. G[A \cup T] = G[A]
      BY <3>1
    <3>4. G[A \cup T] = G[A] + G[T]
      BY <3>2, <3>3
    <3> QED BY <3>4
  <2>2. CASE T # {} /\ A \cap T = {}
    <3>1. PICK x \in T : TRUE
      BY <2>2
    <3> DEFINE U == T \ {x}
    <3>2. U \in SUBSET T /\ U # T /\ A \cap U = {} /\ U \in SUBSET S /\ A \cup T \in SUBSET S
      BY <2>2
    <3>3. G[A \cup U] = G[A] + G[U]
      BY <1>1, <3>2
    <3>4. (A \cup T) \ {x} = A \cup U /\ x \in A \cup T
      BY <2>2, <3>1
    <3>5. G[T] = G[U] + r[x]
      BY DEF IsSum
    <3>6. G[A \cup T] = G[(A \cup T) \ {x}] + r[x]
      BY <3>2, <3>4 DEF IsSum
    <3>7. G[A] \in Int /\ G[U] \in Int /\ r[x] \in Int
      BY <3>2 DEF IsSum
    <3> HIDE DEF U
    <3>8. G[A \cup T] = G[A] + G[T]
      <4>1. G[A \cup T] = (G[A] + G[U]) + r[x]
        BY <3>3, <3>4, <3>6
      <4> QED BY <3>5, <3>7, <4>1
    <3> QED BY <3>8
  <2> QED BY <2>1, <2>2
<1> HIDE DEF Z
<1>2. B \in Z
  BY <1>1, SubsetsUp
<1> QED BY <1>2 DEF Z, AddsUp

\* q has what r has at the places p, which are different.
Carries(q, r, p, S) ==
  /\ \A x \in S : q[x] = r[p[x]]
  /\ \A x, y \in S : p[x] = p[y] => x = y

PlacesOf(p, T) == {p[x] : x \in T}

(* A sum does not depend on the places of its numbers.                       *)
LEMMA SumMoved ==
  ASSUME NEW S, IsFiniteSet(S), NEW D, IsFiniteSet(D), NEW p \in [S -> D],
         NEW r, NEW q, Carries(q, r, p, S),
         NEW G, NEW H, IsSum(G, r, D), IsSum(H, q, S)
  PROVE  H[S] = G[PlacesOf(p, S)]
<1> DEFINE K == [T \in SUBSET S |-> G[{p[x] : x \in T}]]
<1>1. (\A x \in S : q[x] = r[p[x]]) /\ \A x, y \in S : p[x] = p[y] => x = y
  BY DEF Carries
<1>2. K[{}] = 0
  <2>1. {p[x] : x \in {}} = {}
    OBVIOUS
  <2> QED BY <2>1 DEF IsSum
<1>3. ASSUME NEW T \in SUBSET S PROVE K[T] \in Int /\ \A x \in T : K[T] = K[T \ {x}] + q[x]
  <2>1. {p[x] : x \in T} \in SUBSET D
    OBVIOUS
  <2>2. K[T] \in Int
    BY <2>1 DEF IsSum
  <2>3. ASSUME NEW x \in T PROVE K[T] = K[T \ {x}] + q[x]
    <3>1. {p[y] : y \in T \ {x}} = {p[y] : y \in T} \ {p[x]} /\ p[x] \in {p[y] : y \in T}
      BY <1>1
    <3>2. T \ {x} \in SUBSET S
      OBVIOUS
    <3>3. G[{p[y] : y \in T}] = G[{p[y] : y \in T} \ {p[x]}] + r[p[x]]
      BY <2>1, <3>1 DEF IsSum
    <3> QED BY <1>1, <3>1, <3>2, <3>3
  <2> QED BY <2>2, <2>3
<1>4. \A T \in SUBSET S : K[T] = G[{p[x] : x \in T}]
  OBVIOUS
<1> HIDE DEF K
<1>5. IsSum(K, q, S)
  BY <1>2, <1>3 DEF IsSum
<1>6. \A T \in SUBSET S : H[T] = K[T]
  BY <1>5, SumUnique, SMTT(30)
<1> QED BY <1>4, <1>6 DEF PlacesOf

(* Fractions with a common multiple m of their denominators.                 *)
Fractions(f, num, den, e, m, w, S) ==
  \A x \in S : /\ f[x] = <<num[x], den[x]>>
               /\ num[x] \in Int /\ den[x] \in Int /\ e[x] \in Int /\ den[x] * e[x] = m
               /\ w[x] = num[x] * e[x]

\* Times m, the fractions F are the sums W.
InTermsOf(F, m, W, S) ==
  \A T \in SUBSET S : F[T][1] \in Int /\ F[T][2] \in Int /\ F[T][1] * m = F[T][2] * W[T]

(* The sum of fractions, taken over a common denominator.                    *)
LEMMA FractionSum ==
  ASSUME NEW S, IsFiniteSet(S), NEW f, NEW num, NEW den, NEW e, NEW m \in Int, NEW w,
         Fractions(f, num, den, e, m, w, S),
         NEW W, IsSum(W, w, S),
         NEW F, FoldedOver(F, TRUE, f, SUBSET S)
  PROVE  InTermsOf(F, m, W, S)
<1> DEFINE Z == {T \in SUBSET S : F[T][1] \in Int /\ F[T][2] \in Int /\ F[T][1] * m = F[T][2] * W[T]}
<1>1. \A T \in SUBSET S : F[T] = IF T = {} THEN <<0, 1>> ELSE Plus(f[AnyOf(T)], F[T \ {AnyOf(T)}])
  BY DEF FoldedOver, Nothing, Added
<1>2. ASSUME NEW T \in SUBSET S, \A U \in SUBSET T : U # T => U \in Z PROVE T \in Z
  <2>1. CASE T = {}
    <3>1. F[T] = <<0, 1>> /\ W[T] = 0
      BY <1>1, <2>1 DEF IsSum
    <3>2. 0 * m = 0 /\ 1 * 0 = 0
      OBVIOUS
    <3> QED BY <3>1, <3>2
  <2>2. CASE T # {}
    <3> DEFINE c == AnyOf(T)
               U == T \ {c}
               x == F[U][1]
               y == F[U][2]
               s == W[U]
               a == num[c]
               d == den[c]
    <3>1. c \in T /\ F[T] = Plus(f[c], F[U])
      BY <1>1, <2>2, AnyIsOne
    <3> HIDE DEF c
    <3>2. U \in SUBSET T /\ U # T /\ U \in SUBSET S
      BY <3>1
    <3>3. x \in Int /\ y \in Int /\ x * m = y * s
      BY <1>2, <3>2
    <3>4. s \in Int /\ W[T] = s + w[c]
      BY <3>1, <3>2 DEF IsSum
    <3>5. f[c] = <<a, d>> /\ a \in Int /\ d \in Int /\ e[c] \in Int /\ d * e[c] = m /\ w[c] = a * e[c]
      BY <3>1 DEF Fractions
    <3>6. F[T] = <<a * y + x * d, d * y>>
      BY <3>1, <3>5 DEF Plus
    <3> HIDE DEF U, x, y, s, a, d
    <3>7. (a * y + x * d) * m = (d * y) * (a * e[c] + s)
      <4> DEFINE u == e[c]
      <4>1. u \in Int /\ d * u = m
        BY <3>5
      <4> HIDE DEF u
      <4>2. CrossSum(a, d, u, m, x, y, s)
        BY <3>3, <3>4, <3>5, <4>1, OverOne
      <4> QED BY <4>2 DEF CrossSum, u
    <3>8. a * e[c] + s = W[T]
      <4>1. a * e[c] \in Int
        BY <3>5
      <4> QED BY <3>4, <3>5, <4>1
    <3>9. F[T][1] = a * y + x * d /\ F[T][2] = d * y /\ F[T][1] \in Int /\ F[T][2] \in Int
      BY <3>3, <3>5, <3>6
    <3>10. F[T][1] * m = F[T][2] * W[T]
      BY <3>7, <3>8, <3>9
    <3> QED BY <3>9, <3>10
  <2> QED BY <2>1, <2>2
<1> HIDE DEF Z
<1>3. \A T \in SUBSET S : T \in Z
  BY <1>2, SubsetsUp
<1> QED BY <1>3 DEF Z, InTermsOf

(* So fractions whose numerators add up to nothing over a common denominator *)
(* do.                                                                       *)
LEMMA FractionsCancel ==
  ASSUME NEW S, IsFiniteSet(S), NEW num, NEW den, NEW e, NEW m \in Nat \ {0}, NEW w,
         Fractions(advantages, num, den, e, m, w, S),
         NEW W, IsSum(W, w, S), W[S] = 0
  PROVE  SumsToNothing(S)
<1>1. PICK F : FoldedOver(F, TRUE, advantages, SUBSET S)
  BY FoldExists
<1>2. F = [T \in SUBSET S |-> IF T = {} THEN <<0, 1>>
                              ELSE Plus(advantages[CHOOSE x \in T : TRUE], F[T \ {CHOOSE x \in T : TRUE}])]
  BY <1>1 DEF FoldedOver, Nothing, Added, AnyOf
<1>3. \E H : /\ H = [T \in SUBSET S |-> IF T = {} THEN <<0, 1>>
                      ELSE Plus(advantages[CHOOSE x \in T : TRUE], H[T \ {CHOOSE x \in T : TRUE}])]
             /\ SumsToNothing(S) <=> H[S][1] = 0
  BY <1>2 DEF SumsToNothing, MapThenFoldSet
<1>4. PICK H : /\ H = [T \in SUBSET S |-> IF T = {} THEN <<0, 1>>
                      ELSE Plus(advantages[CHOOSE x \in T : TRUE], H[T \ {CHOOSE x \in T : TRUE}])]
               /\ SumsToNothing(S) <=> H[S][1] = 0
  BY <1>3
<1>5. FoldedOver(H, TRUE, advantages, SUBSET S)
  BY <1>4 DEF FoldedOver, Nothing, Added, AnyOf
<1>6. H[S][1] \in Int /\ H[S][2] \in Int /\ H[S][1] * m = H[S][2] * W[S]
  <2>1. m \in Int /\ S \in SUBSET S
    OBVIOUS
  <2>2. InTermsOf(H, m, W, S)
    BY <1>5, <2>1, FractionSum
  <2> QED BY <2>1, <2>2 DEF InTermsOf
<1>7. H[S][1] * m = 0 * m
  <2>1. H[S][2] * 0 = 0 /\ 0 * m = 0
    BY <1>6
  <2> QED BY <1>6, <2>1
<1>8. H[S][1] = 0
  <2> DEFINE h == H[S][1]
  <2>1. h \in Int /\ h * m = 0 * m
    BY <1>6, <1>7
  <2> HIDE DEF h
  <2>2. h = 0
    BY <2>1, Scaled
  <2> QED BY <2>2 DEF h
<1> QED BY <1>4, <1>8

-----------------------------------------------------------------------------
(* The rows of a prompt, and their distances from a mean.                   *)

(* The rows of a prompt.                                                     *)
LEMMA PromptGroup ==
  ASSUME NEW rows \in Seq(AdvantageRows), NEW i \in DOMAIN rows
  PROVE  LET S == OfPrompt(rows, i)
         IN  /\ S \in SUBSET DOMAIN rows /\ i \in S
             /\ IsFiniteSet(S) /\ Cardinality(S) \in Nat \ {0}
             /\ \A k \in S : OfPrompt(rows, k) = S
<1> DEFINE S == OfPrompt(rows, i)
<1>1. IsFiniteSet(DOMAIN rows)
  <2>1. DOMAIN rows = 1 .. Len(rows) /\ Len(rows) \in Nat
    OBVIOUS
  <2>2. IsFiniteSet(1 .. Len(rows))
    BY <2>1, FS_Interval
  <2> QED BY <2>1, <2>2
<1>2. S \in SUBSET DOMAIN rows /\ i \in S /\ \A k \in S : OfPrompt(rows, k) = S
  BY DEF OfPrompt
<1> HIDE DEF S
<1>3. IsFiniteSet(S) /\ Cardinality(S) \in Nat /\ Cardinality(S) # 0
  BY <1>1, <1>2, FS_Subset, FS_CardinalityType, FS_EmptySet
<1> QED BY <1>2, <1>3 DEF S

(* Some of the rows of a batch.                                              *)
LEMMA SomeRows ==
  ASSUME NEW rows \in Seq(AdvantageRows), NEW S \in SUBSET DOMAIN rows
  PROVE  /\ IsFiniteSet(S) /\ Cardinality(S) \in Nat
         /\ \A x \in S : rows[x].reward \in Int /\ rows[x].step_reward \in Int
         /\ \A x \in S : /\ EpisodeScores(rows)[x] = rows[x].reward
                         /\ StepScores(rows)[x] = rows[x].step_reward
<1>1. IsFiniteSet(DOMAIN rows)
  <2>1. DOMAIN rows = 1 .. Len(rows) /\ Len(rows) \in Nat
    OBVIOUS
  <2>2. IsFiniteSet(1 .. Len(rows))
    BY <2>1, FS_Interval
  <2> QED BY <2>1, <2>2
<1>2. IsFiniteSet(S) /\ Cardinality(S) \in Nat
  BY <1>1, FS_Subset, FS_CardinalityType
<1>3. \A x \in S : rows[x].reward \in Int /\ rows[x].step_reward \in Int
  <2>1. \A x \in S : rows[x] \in AdvantageRows
    OBVIOUS
  <2> QED BY <2>1 DEF AdvantageRows
<1>4. \A x \in S : /\ EpisodeScores(rows)[x] = rows[x].reward
                   /\ StepScores(rows)[x] = rows[x].step_reward
  BY DEF EpisodeScores, StepScores
<1> QED BY <1>2, <1>3, <1>4

(* Scores and the sum of some of them.                                       *)
Scored(r, S) == IsFiniteSet(S) /\ \A x \in S : r[x] \in Int

LEMMA ScoredTotal ==
  ASSUME NEW r, NEW S, Scored(r, S)
  PROVE  /\ IsFiniteSet(S) /\ Cardinality(S) \in Nat /\ Total(r, S) \in Int
         /\ \A x \in S : r[x] \in Int /\ Cardinality(S) * r[x] - Total(r, S) \in Int
<1>1. IsFiniteSet(S) /\ Cardinality(S) \in Nat /\ \A x \in S : r[x] \in Int
  BY FS_CardinalityType DEF Scored
<1>2. PICK G : IsSum(G, r, S) /\ Total(r, S) = G[S]
  BY <1>1, TotalIsSum
<1>3. Total(r, S) \in Int
  BY <1>2 DEF IsSum
<1>4. ASSUME NEW x \in S PROVE Cardinality(S) * r[x] - Total(r, S) \in Int
  <2>1. Cardinality(S) * r[x] \in Int
    BY <1>1
  <2> QED BY <1>3, <2>1
<1> QED BY <1>1, <1>3, <1>4

LEMMA RowsScored ==
  ASSUME NEW rows \in Seq(AdvantageRows), NEW S \in SUBSET DOMAIN rows
  PROVE  Scored(EpisodeScores(rows), S) /\ Scored(StepScores(rows), S)
BY SomeRows DEF Scored

(* The distances of scores from their mean add up to nothing.                *)
Distances(w, r, S) ==
  \A x \in S : w[x] = Cardinality(S) * r[x] - Total(r, S)

(* As many times the scores as there are rows, less the total each time.     *)
LEMMA DistancesCancel ==
  ASSUME NEW r, NEW S, Scored(r, S), NEW w, Distances(w, r, S), NEW W, IsSum(W, w, S)
  PROVE  W[S] = 0
<1> DEFINE a == Cardinality(S)
           b == Total(r, S)
<1>1. IsFiniteSet(S) /\ a \in Int /\ b \in Int /\ \A x \in S : r[x] \in Int
  BY ScoredTotal
<1>2. PICK G : IsSum(G, r, S) /\ b = G[S]
  BY <1>1, TotalIsSum
<1>3. Affine(w, a, r, b, S)
  BY <1>1 DEF Distances, Affine
<1> HIDE DEF a, b
<1>4. \A T \in SUBSET S : W[T] = a * G[T] - b * Cardinality(T)
  BY <1>1, <1>2, <1>3, SumAffine
<1>5. W[S] = a * b - b * a
  BY <1>2, <1>4 DEF a
<1>6. a * b = b * a /\ a * b \in Int
  BY <1>1
<1> QED BY <1>5, <1>6

(* Distances, all divided by d.                                              *)
LEMMA SameDivisor ==
  ASSUME NEW r, NEW S, Scored(r, S), NEW d \in Nat \ {0},
         \A x \in S : advantages[x] = <<Cardinality(S) * r[x] - Total(r, S), d>>
  PROVE  SumsToNothing(S)
<1> DEFINE w == [x \in S |-> Cardinality(S) * r[x] - Total(r, S)]
           den == [x \in S |-> d]
           e == [x \in S |-> 1]
<1>1. IsFiniteSet(S) /\ \A x \in S : w[x] \in Int
  BY ScoredTotal
<1>2. Distances(w, r, S)
  BY DEF Distances
<1>3. \A x \in S : den[x] = d /\ e[x] = 1 /\ advantages[x] = <<w[x], den[x]>>
  OBVIOUS
<1> HIDE DEF w, den, e
<1>4. Fractions(advantages, w, den, e, d, w, S)
  <2>1. ASSUME NEW x \in S PROVE d * 1 = d /\ w[x] = w[x] * 1
    BY <1>1
  <2> QED BY <1>1, <1>3, <2>1 DEF Fractions
<1>5. PICK W : IsSum(W, w, S)
  BY <1>1, SumExists
<1>6. W[S] = 0
  BY <1>2, <1>5, DistancesCancel
<1> QED BY <1>1, <1>4, <1>5, <1>6, FractionsCancel

(* A larger reward is further above the mean.                                *)
LEMMA DistancesCompare ==
  ASSUME NEW n \in Nat \ {0}, NEW t \in Int, NEW x \in Int, NEW y \in Int, NEW d \in Nat \ {0}
  PROVE  x < y <=> Less(<<n * x - t, d>>, <<n * y - t, d>>)
<1> DEFINE a == n * x
           b == n * y
<1>1. a \in Int /\ b \in Int /\ (a < b <=> x < y)
  BY Scaled
<1> HIDE DEF a, b
<1>2. (a - t) * d < (b - t) * d <=> a - t < b - t
  <2> DEFINE u == a - t
             v == b - t
  <2>1. u \in Int /\ v \in Int
    BY <1>1
  <2> HIDE DEF u, v
  <2>2. u * d < v * d <=> u < v
    BY <2>1, Scaled
  <2> QED BY <2>2 DEF u, v
<1>3. a - t < b - t <=> a < b
  BY <1>1
<1> QED BY <1>1, <1>2, <1>3 DEF Less, a, b

-----------------------------------------------------------------------------
(* Step groups.                                                              *)

(* The step group of a row is the cluster it is in.                          *)
LEMMA StepGroupIsCluster ==
  ASSUME NEW rows \in Seq(AdvantageRows), NEW est, NEW k \in DOMAIN rows
  PROVE  \E c \in DOMAIN Clusters(rows, est) :
           /\ StepGroup(rows, est, k) = Clusters(rows, est)[c].locs
           /\ k \in Clusters(rows, est)[c].locs
<1> DEFINE g == Clusters(rows, est)
           chosen == CHOOSE c \in Range(g) : k \in c.locs
<1>1. \E c \in Range(g) : k \in c.locs
  <2>1. Clustered(g, rows, est)
    BY RowsGrouped
  <2> QED BY <2>1 DEF Clustered, Range
<1>2. chosen \in Range(g) /\ k \in chosen.locs
  BY <1>1
<1>3. StepGroup(rows, est, k) = chosen.locs
  BY DEF StepGroup
<1> HIDE DEF chosen, g
<1>4. PICK c \in DOMAIN g : chosen = g[c]
  BY <1>2 DEF Range
<1> QED BY <1>2, <1>3, <1>4 DEF g

(* A step group is within a prompt, and its rows agree on it.                *)
LEMMA StepGroupFacts ==
  ASSUME NEW rows \in Seq(AdvantageRows), NEW est, NEW i \in DOMAIN rows
  PROVE  LET A == StepGroup(rows, est, i)
         IN  /\ i \in A /\ A \subseteq OfPrompt(rows, i)
             /\ \A k \in A : StepGroup(rows, est, k) = A
<1> DEFINE g == Clusters(rows, est)
<1>1. Clustered(g, rows, est)
  BY RowsGrouped
<1>2. ASSUME NEW k \in DOMAIN rows
      PROVE  \E c \in DOMAIN g : StepGroup(rows, est, k) = g[c].locs /\ k \in g[c].locs
  BY StepGroupIsCluster
<1> HIDE DEF g
<1>3. PICK c \in DOMAIN g : StepGroup(rows, est, i) = g[c].locs /\ i \in g[c].locs
  BY <1>2
<1>4. ASSUME NEW k \in g[c].locs
      PROVE  k \in OfPrompt(rows, i) /\ StepGroup(rows, est, k) = g[c].locs
  <2>1. k \in DOMAIN rows
    BY <1>1 DEF Clustered
  <2>2. rows[k].uid = rows[i].uid
    BY <1>1, <1>3 DEF Clustered, Alike
  <2>3. PICK d \in DOMAIN g : StepGroup(rows, est, k) = g[d].locs /\ k \in g[d].locs
    BY <1>2, <2>1
  <2>4. d = c
    BY <1>1, <2>3, OneCluster
  <2> QED BY <2>1, <2>2, <2>3, <2>4 DEF OfPrompt
<1> QED BY <1>3, <1>4

(* Without similarity a step group is of one prompt and observation.         *)
LEMMA GigpoStepGroup ==
  ASSUME NEW rows \in Seq(AdvantageRows), NEW i \in DOMAIN rows
  PROVE  StepGroup(rows, "gigpo", i) = {k \in DOMAIN rows : Same(rows, i, k)}
<1> DEFINE g == Clusters(rows, "gigpo")
<1>1. Clustered(g, rows, "gigpo")
  BY RowsGrouped
<1>2. PICK c \in DOMAIN g : StepGroup(rows, "gigpo", i) = g[c].locs /\ i \in g[c].locs
  BY StepGroupIsCluster
<1> HIDE DEF g
<1>3. ASSUME NEW k \in g[c].locs PROVE k \in DOMAIN rows /\ Same(rows, i, k)
  <2>1. k \in DOMAIN rows /\ g[c].rep \in DOMAIN rows
    BY <1>1 DEF Clustered
  <2>2. Alike(rows, "gigpo", g[c].rep, i) /\ Alike(rows, "gigpo", g[c].rep, k)
    BY <1>1, <1>2 DEF Clustered
  <2>3. Same(rows, g[c].rep, i) /\ Same(rows, g[c].rep, k)
    BY <2>1, <2>2, AlikeMeans
  <2> QED BY <2>1, <2>3 DEF Same
<1>4. ASSUME NEW k \in DOMAIN rows, Same(rows, i, k) PROVE k \in g[c].locs
  BY <1>1, <1>2, <1>4, SameTogether
<1> QED BY <1>2, <1>3, <1>4

(* The first n of the numbers s, times those of q, are m.                    *)
Multiples(s, q, m, n) == \A k \in 1 .. n : q[k] \in Nat \ {0} /\ s[k] * q[k] = m

Positive(s, n) == \A k \in 1 .. n : s[k] \in Nat \ {0}

(* Positive numbers have a common multiple.                                  *)
LEMMA CommonMultiple ==
  ASSUME NEW n \in Nat, NEW s, Positive(s, n)
  PROVE  \E m \in Nat \ {0} : \E q : Multiples(s, q, m, n)
<1>1. \A k \in 1 .. n : s[k] \in Nat \ {0}
  BY DEF Positive
<1> DEFINE T == {j \in 0 .. n : \E m \in Nat \ {0} : \E q : \A k \in 1 .. j : q[k] \in Nat \ {0} /\ s[k] * q[k] = m}
<1>2. 0 \in T
  <2>1. \A k \in 1 .. 0 : FALSE
    OBVIOUS
  <2>2. 1 \in Nat \ {0} /\ 0 \in 0 .. n
    OBVIOUS
  <2> QED BY <2>1, <2>2
<1>3. ASSUME NEW j \in 1 .. n, j - 1 \in T PROVE j \in T
  <2>1. PICK m \in Nat \ {0} : \E q : \A k \in 1 .. (j - 1) : q[k] \in Nat \ {0} /\ s[k] * q[k] = m
    BY <1>3
  <2>2. PICK q : \A k \in 1 .. (j - 1) : q[k] \in Nat \ {0} /\ s[k] * q[k] = m
    BY <2>1
  <2> DEFINE p == [k \in 1 .. j |-> IF k = j THEN m ELSE q[k] * s[j]]
             M == m * s[j]
  <2>3. M \in Nat \ {0}
    BY <1>1, PositiveProduct
  <2>4. ASSUME NEW k \in 1 .. j PROVE p[k] \in Nat \ {0} /\ s[k] * p[k] = M
    <3>1. CASE k = j
      <4> DEFINE c == s[j]
      <4>1. c \in Nat \ {0} /\ p[k] = m /\ M = m * c
        BY <1>1, <3>1
      <4> HIDE DEF c, p, M
      <4>2. c * m = m * c
        BY <4>1
      <4> QED BY <3>1, <4>1, <4>2 DEF c
    <3>2. CASE k # j
      <4> DEFINE a == s[k]
                 b == q[k]
                 c == s[j]
      <4>1. k \in 1 .. (j - 1) /\ k \in 1 .. n
        BY <3>2
      <4>2. a \in Nat \ {0} /\ b \in Nat \ {0} /\ c \in Nat \ {0} /\ a * b = m /\ p[k] = b * c
        BY <1>1, <2>2, <3>2, <4>1
      <4> HIDE DEF a, b, c, p
      <4>3. b * c \in Nat \ {0}
        BY <4>2, PositiveProduct
      <4>4. a * (b * c) = (a * b) * c
        BY <4>2
      <4> QED BY <4>2, <4>3, <4>4 DEF a, c
    <3> QED BY <3>1, <3>2
  <2> HIDE DEF p, M
  <2> QED BY <2>3, <2>4
<1> HIDE DEF T
<1>4. n \in T
  BY <1>2, <1>3, UpTo
<1> QED BY <1>4 DEF T, Multiples

(* What adds up to nothing over every step group adds up to nothing over     *)
(* the groups of a prompt.                                                   *)
LEMMA GroupsCancel ==
  ASSUME NEW rows \in Seq(AdvantageRows), NEW est, NEW i \in DOMAIN rows,
         NEW w, NEW W, IsSum(W, w, OfPrompt(rows, i)),
         \A x \in OfPrompt(rows, i) : w[x] \in Int,
         \A x \in OfPrompt(rows, i) : W[StepGroup(rows, est, x)] = 0
  PROVE  W[OfPrompt(rows, i)] = 0
<1> DEFINE S == OfPrompt(rows, i)
           sg(k) == StepGroup(rows, est, k)
           Z == {T \in SUBSET S : (\A k \in T : sg(k) \subseteq T) => W[T] = 0}
<1>1. /\ S \in SUBSET DOMAIN rows /\ IsFiniteSet(S) /\ i \in S
      /\ \A k \in S : OfPrompt(rows, k) = S
  BY PromptGroup
<1>2. \A k \in S : k \in sg(k) /\ sg(k) \subseteq S /\ \A y \in sg(k) : sg(y) = sg(k)
  <2> HIDE DEF S
  <2> SUFFICES ASSUME NEW k \in S
               PROVE  k \in sg(k) /\ sg(k) \subseteq S /\ \A y \in sg(k) : sg(y) = sg(k)
    OBVIOUS
  <2>1. k \in DOMAIN rows /\ OfPrompt(rows, k) = S
    BY <1>1
  <2> QED BY <2>1, StepGroupFacts
<1>3. IsSum(W, w, S) /\ (\A x \in S : w[x] \in Int) /\ \A x \in S : W[sg(x)] = 0
  OBVIOUS
<1> HIDE DEF S, sg
<1>4. ASSUME NEW T \in SUBSET S, \A U \in SUBSET T : U # T => U \in Z PROVE T \in Z
  <2> SUFFICES ASSUME \A k \in T : sg(k) \subseteq T PROVE W[T] = 0
    OBVIOUS
  <2>1. CASE T = {}
    BY <1>3, <2>1 DEF IsSum
  <2>2. CASE T # {}
    <3>1. PICK x \in T : TRUE
      BY <2>2
    <3> DEFINE A == sg(x)
               U == T \ A
    <3>2. A \subseteq T /\ x \in A /\ W[A] = 0 /\ \A y \in A : sg(y) = A
      BY <1>2, <1>3
    <3> HIDE DEF A
    <3>3. U \in SUBSET T /\ U # T /\ U \in SUBSET S /\ A \in SUBSET S /\ U \cap A = {} /\ U \cup A = T
      BY <3>2
    <3>4. \A k \in U : sg(k) \subseteq U
      BY <1>2, <3>2
    <3>5. W[U] = 0
      BY <1>4, <3>3, <3>4
    <3> HIDE DEF U
    <3>6. AddsUp(W, U, A)
      BY <1>1, <1>3, <3>3, SumUnion
    <3>7. W[U \cup A] = 0 + 0 /\ W[U \cup A] = W[T]
      BY <3>2, <3>3, <3>5, <3>6 DEF AddsUp
    <3> QED BY <3>7
  <2> QED BY <2>1, <2>2
<1> HIDE DEF Z
<1>5. S \in Z
  BY <1>1, <1>4, SubsetsUp
<1>6. \A k \in S : sg(k) \subseteq S
  BY <1>2
<1> QED BY <1>5, <1>6 DEF Z, S

-----------------------------------------------------------------------------
(* GiGPO.                                                                   *)

(* A sum over a set is one over its subsets.                                 *)
LEMMA SumOfSubset ==
  ASSUME NEW G, NEW r, NEW S, IsSum(G, r, S), NEW A \in SUBSET S
  PROVE  IsSum(G, r, A)
BY DEF IsSum

(* A number times the distances.                                             *)
LEMMA ScaledDistances ==
  ASSUME NEW r, NEW A, Scored(r, A), NEW c \in Int,
         NEW t, \A y \in A : t[y] = c * (Cardinality(A) * r[y] - Total(r, A)),
         NEW W, IsSum(W, t, A)
  PROVE  W[A] = 0
<1> DEFINE v == [y \in A |-> Cardinality(A) * r[y] - Total(r, A)]
<1>1. IsFiniteSet(A)
  BY DEF Scored
<1>2. Distances(v, r, A)
  BY DEF Distances
<1>3. \A y \in A : v[y] \in Int
  BY ScoredTotal
<1>4. \A y \in A : t[y] = c * v[y]
  OBVIOUS
<1> HIDE DEF v
<1>5. PICK V : IsSum(V, v, A)
  BY <1>1, <1>3, SumExists
<1>6. V[A] = 0
  BY <1>2, <1>5, DistancesCancel
<1>7. Linear(t, c, v, 0, v, A)
  <2>1. ASSUME NEW y \in A PROVE v[y] \in Int /\ t[y] = c * v[y] + 0 * v[y]
    <3>1. 0 * v[y] = 0 /\ c * v[y] \in Int
      BY <1>3
    <3> QED BY <1>3, <1>4, <3>1
  <2> QED BY <2>1 DEF Linear
<1>8. Combined(W, c, V, 0, V, A)
  BY <1>1, <1>5, <1>7, SumLinear
<1>9. W[A] = c * 0 + 0 * 0
  BY <1>6, <1>8 DEF Combined
<1> QED BY <1>9

(* Two fractions over a common denominator.                                  *)
LEMMA TwoParts ==
  ASSUME NEW a \in Int, NEW b \in Int, NEW s \in Int, NEW n \in Int, NEW q \in Int, NEW m \in Int,
         s * q = m
  PROVE  /\ (a * s + b * n) * q = m * a + n * (q * b)
         /\ (n * s) * q = n * m
<1>1. (a * s + b * n) * q = (a * s) * q + (b * n) * q
  <2>1. a * s \in Int /\ b * n \in Int
    OBVIOUS
  <2> QED BY <2>1
<1>2. (a * s) * q = a * (s * q) /\ a * m = m * a
  OBVIOUS
<1>3. (b * n) * q = n * (q * b)
  OBVIOUS
<1>4. (n * s) * q = n * (s * q)
  OBVIOUS
<1> QED BY <1>1, <1>2, <1>3, <1>4

(* The advantages of GiGPO.                                                  *)
GroupPart(rows, i, k) ==
  Cardinality(OfPrompt(rows, i)) * EpisodeScores(rows)[k]
    - Total(EpisodeScores(rows), OfPrompt(rows, i))
StepSize(rows, est, k) == Cardinality(StepGroup(rows, est, k))
StepPart(rows, est, k) ==
  StepSize(rows, est, k) * StepScores(rows)[k] - Total(StepScores(rows), StepGroup(rows, est, k))

(* An advantage of GiGPO is made of the two distances.                       *)
LEMMA GigpoParts ==
  ASSUME NEW rows \in Seq(AdvantageRows), NEW est, NEW i \in DOMAIN rows, NEW k \in OfPrompt(rows, i),
         Cardinality(OfPrompt(rows, i)) > 1
  PROVE  LET n == Cardinality(OfPrompt(rows, i))
             s == StepSize(rows, est, k)
         IN  /\ n \in Nat \ {0} /\ s \in Nat \ {0}
             /\ GroupPart(rows, i, k) \in Int /\ StepPart(rows, est, k) \in Int
             /\ Gigpo(rows, est, k) = <<GroupPart(rows, i, k) * s + StepPart(rows, est, k) * n, n * s>>
<1> DEFINE S == OfPrompt(rows, i)
           A == StepGroup(rows, est, k)
           n == Cardinality(S)
           s == Cardinality(A)
<1>1. S \in SUBSET DOMAIN rows /\ n \in Nat \ {0} /\ OfPrompt(rows, k) = S /\ k \in DOMAIN rows
  BY PromptGroup
<1>2. A \in SUBSET S /\ k \in A
  BY <1>1, StepGroupFacts
<1>3. n # 1
  BY <1>1
<1>4. Grpo(rows, k) = FromMean(EpisodeScores(rows), k, S)
  BY <1>1, <1>3 DEF Grpo
<1> HIDE DEF A, S
<1>5. A \in SUBSET DOMAIN rows
  BY <1>1, <1>2
<1> DEFINE x == n * EpisodeScores(rows)[k] - Total(EpisodeScores(rows), S)
           y == s * StepScores(rows)[k] - Total(StepScores(rows), A)
<1>6. x \in Int /\ y \in Int /\ IsFiniteSet(A) /\ s \in Nat
  <2>1. Scored(EpisodeScores(rows), S) /\ Scored(StepScores(rows), A) /\ k \in S
    BY <1>1, <1>2, <1>5, RowsScored
  <2> QED BY <1>2, <2>1, ScoredTotal
<1>7. s # 0
  BY <1>2, <1>6, FS_EmptySet
<1>8. Gigpo(rows, est, k) = Plus(<<x, n>>, <<y, s>>)
  BY <1>4 DEF Gigpo, StepAdvantage, FromMean, A
<1>9. Gigpo(rows, est, k) = <<x * s + y * n, n * s>>
  BY <1>8 DEF Plus
<1>10. GroupPart(rows, i, k) = x /\ StepPart(rows, est, k) = y /\ StepSize(rows, est, k) = s
  BY DEF GroupPart, StepPart, StepSize, S, A
<1> QED BY <1>1, <1>6, <1>7, <1>9, <1>10 DEF S, A

(* The distances from the means of the step groups add up to nothing over    *)
(* each of them, so over the prompt, and so do those from the mean of the    *)
(* prompt.                                                                   *)
LEMMA GigpoCancels ==
  ASSUME NEW rows \in Seq(AdvantageRows), NEW est, NEW i \in DOMAIN rows,
         Cardinality(OfPrompt(rows, i)) > 1,
         \A k \in OfPrompt(rows, i) : advantages[k] = Gigpo(rows, est, k)
  PROVE  SumsToNothing(OfPrompt(rows, i))
<1> DEFINE S == OfPrompt(rows, i)
           N == Len(rows)
           n == Cardinality(S)
           a == [k \in S |-> GroupPart(rows, i, k)]
           b == [k \in S |-> StepPart(rows, est, k)]
           s == [k \in 1 .. N |-> StepSize(rows, est, k)]
<1>1. S \in SUBSET DOMAIN rows /\ IsFiniteSet(S) /\ N \in Nat /\ DOMAIN rows = 1 .. N
  BY PromptGroup
<1>2. \A k \in 1 .. N : s[k] \in Nat \ {0}
  <2> SUFFICES ASSUME NEW k \in 1 .. N PROVE StepSize(rows, est, k) \in Nat \ {0}
    OBVIOUS
  <2> DEFINE A == StepGroup(rows, est, k)
  <2>1. k \in A /\ A \subseteq OfPrompt(rows, k) /\ OfPrompt(rows, k) \in SUBSET DOMAIN rows
    BY <1>1, StepGroupFacts, PromptGroup
  <2> HIDE DEF A
  <2>2. A \in SUBSET DOMAIN rows
    BY <2>1
  <2>3. IsFiniteSet(A) /\ Cardinality(A) \in Nat
    BY <2>2, SomeRows
  <2>4. Cardinality(A) # 0
    BY <2>1, <2>3, FS_EmptySet
  <2> QED BY <2>3, <2>4 DEF StepSize, A
<1>3. ASSUME NEW k \in S
      PROVE  /\ k \in 1 .. N /\ n \in Nat \ {0}
             /\ a[k] \in Int /\ b[k] \in Int
             /\ advantages[k] = <<a[k] * s[k] + b[k] * n, n * s[k]>>
  <2>1. k \in 1 .. N /\ s[k] = StepSize(rows, est, k)
    BY <1>1
  <2>2. a[k] = GroupPart(rows, i, k) /\ b[k] = StepPart(rows, est, k)
    OBVIOUS
  <2> HIDE DEF a, b, s
  <2>3. advantages[k] = Gigpo(rows, est, k)
    OBVIOUS
  <2> QED BY <2>1, <2>2, <2>3, GigpoParts
<1>4. n \in Nat \ {0}
  BY PromptGroup
<1>5. Distances(a, EpisodeScores(rows), S) /\ Scored(EpisodeScores(rows), S)
  BY <1>1, RowsScored DEF Distances, GroupPart
<1>6. \A k \in S : b[k] = StepPart(rows, est, k) /\ s[k] = StepSize(rows, est, k)
  BY <1>1
<1> HIDE DEF a, b, s, N, n
<1>7. PICK m \in Nat \ {0} : \E q : Multiples(s, q, m, N)
  <2>1. Positive(s, N)
    BY <1>2 DEF Positive
  <2> QED BY <1>1, <2>1, CommonMultiple
<1>8. PICK q : \A k \in 1 .. N : q[k] \in Nat \ {0} /\ s[k] * q[k] = m
  BY <1>7 DEF Multiples
<1> DEFINE num == [k \in S |-> a[k] * s[k] + b[k] * n]
           den == [k \in S |-> n * s[k]]
           w   == [k \in S |-> num[k] * q[k]]
           t   == [k \in S |-> q[k] * b[k]]
<1>9. ASSUME NEW k \in S
      PROVE  /\ num[k] \in Int /\ den[k] \in Int /\ q[k] \in Int /\ t[k] \in Int /\ w[k] \in Int
             /\ den[k] * q[k] = n * m
             /\ w[k] = m * a[k] + n * t[k]
  <2>1. k \in 1 .. N /\ a[k] \in Int /\ b[k] \in Int /\ s[k] \in Int /\ q[k] \in Int /\ n \in Int /\ m \in Int
        /\ s[k] * q[k] = m
    BY <1>2, <1>3, <1>4, <1>8
  <2>2. /\ num[k] = a[k] * s[k] + b[k] * n /\ den[k] = n * s[k]
        /\ w[k] = num[k] * q[k] /\ t[k] = q[k] * b[k]
    OBVIOUS
  <2> HIDE DEF num, den, w, t
  <2> DEFINE aa == a[k]
             bb == b[k]
             ss == s[k]
             qq == q[k]
  <2>3. aa \in Int /\ bb \in Int /\ ss \in Int /\ qq \in Int /\ ss * qq = m
    BY <2>1
  <2> HIDE DEF aa, bb, ss, qq
  <2>4. /\ (aa * ss + bb * n) * qq = m * aa + n * (qq * bb)
        /\ (n * ss) * qq = n * m
    BY <2>1, <2>3, TwoParts
  <2>5. aa * ss \in Int /\ bb * n \in Int /\ n * ss \in Int /\ qq * bb \in Int
    BY <2>1, <2>3
  <2>6. aa * ss + bb * n \in Int
    BY <2>5
  <2>7. (aa * ss + bb * n) * qq \in Int
    BY <2>3, <2>6
  <2> QED BY <2>1, <2>2, <2>4, <2>5, <2>6, <2>7 DEF aa, bb, ss, qq
<1>10. \A k \in S : /\ advantages[k] = <<num[k], den[k]>> /\ w[k] = num[k] * q[k]
                    /\ t[k] = q[k] * b[k]
  BY <1>3
<1> HIDE DEF num, den, w, t
<1> DEFINE M == n * m
<1>11. M \in Nat \ {0}
  BY <1>4, PositiveProduct
<1>12. Fractions(advantages, num, den, q, M, w, S)
  BY <1>9, <1>10 DEF Fractions
<1>13. PICK G : IsSum(G, a, S)
  BY <1>1, <1>3, SumExists
<1>14. PICK H : IsSum(H, t, S)
  BY <1>1, <1>9, SumExists
<1>15. PICK W : IsSum(W, w, S)
  BY <1>1, <1>9, SumExists
<1>16. G[S] = 0
  BY <1>5, <1>13, DistancesCancel
<1>17. ASSUME NEW x \in S PROVE H[StepGroup(rows, est, x)] = 0
  <2> DEFINE A == StepGroup(rows, est, x)
             c == q[x]
  <2>1. x \in DOMAIN rows /\ OfPrompt(rows, x) = S
    BY <1>1, PromptGroup
  <2>2. A \in SUBSET S /\ x \in A /\ \A y \in A : StepGroup(rows, est, y) = A
    BY <2>1, StepGroupFacts
  <2> HIDE DEF A, S
  <2>3. IsSum(H, t, A) /\ Scored(StepScores(rows), A)
    <3>1. A \in SUBSET DOMAIN rows
      BY <1>1, <2>2
    <3> QED BY <1>14, <2>2, <3>1, SumOfSubset, RowsScored
  <2>4. ASSUME NEW y \in A PROVE t[y] = c * (Cardinality(A) * StepScores(rows)[y] - Total(StepScores(rows), A))
    <3>1. y \in S /\ x \in S /\ y \in 1 .. N /\ x \in 1 .. N
      BY <1>3, <2>2
    <3>2. s[y] = Cardinality(A) /\ s[x] = Cardinality(A)
      BY <1>6, <2>2, <3>1 DEF StepSize
    <3>3. b[y] = Cardinality(A) * StepScores(rows)[y] - Total(StepScores(rows), A)
      BY <1>6, <2>2, <3>1 DEF StepPart, StepSize
    <3>4. q[y] = c
      <4> DEFINE u == s[y]
                 v == q[y]
      <4>1. u \in Nat \ {0} /\ v \in Int /\ c \in Int /\ u * v = u * c
        BY <1>2, <1>8, <3>1, <3>2
      <4> HIDE DEF u, v, c
      <4>2. v = c
        BY <4>1, Scaled
      <4> QED BY <4>2 DEF v
    <3> QED BY <1>10, <3>1, <3>3, <3>4
  <2>5. c \in Int
    BY <1>9
  <2> HIDE DEF c
  <2>6. H[A] = 0
    BY <2>3, <2>4, <2>5, ScaledDistances
  <2> QED BY <2>6 DEF A
<1>18. H[S] = 0
  BY <1>9, <1>14, <1>17, GroupsCancel, ZenonT(40)
<1>19. Linear(w, m, a, n, t, S)
  BY <1>3, <1>9 DEF Linear
<1>20. Combined(W, m, G, n, H, S)
  <2>1. m \in Int /\ n \in Int
    BY <1>4
  <2> QED BY <1>1, <1>13, <1>14, <1>15, <1>19, <2>1, SumLinear
<1>21. W[S] = m * 0 + n * 0
  BY <1>16, <1>18, <1>20 DEF Combined
<1>22. W[S] = 0
  BY <1>4, <1>21
<1> HIDE DEF S, M
<1>23. SumsToNothing(S)
  BY <1>1, <1>11, <1>12, <1>15, <1>22, FractionsCancel
<1> QED BY <1>23 DEF S

(* In a step group the two distances grow with the reward and the return.    *)
LEMMA GigpoCompares ==
  ASSUME NEW rows \in Seq(AdvantageRows), NEW est, NEW i \in DOMAIN rows,
         Cardinality(OfPrompt(rows, i)) > 1, NEW k \in StepGroup(rows, est, i)
  PROVE  rows[k].reward + rows[k].step_reward < rows[i].reward + rows[i].step_reward
           <=> Less(Gigpo(rows, est, k), Gigpo(rows, est, i))
<1> DEFINE n == Cardinality(OfPrompt(rows, i))
           s == StepSize(rows, est, i)
           x == rows[k].reward
           y == rows[i].reward
           v == rows[k].step_reward
           w == rows[i].step_reward
           t == Total(EpisodeScores(rows), OfPrompt(rows, i))
           u == Total(StepScores(rows), StepGroup(rows, est, i))
           d == n * s
<1>1. k \in OfPrompt(rows, i) /\ i \in OfPrompt(rows, i) /\ StepGroup(rows, est, k) = StepGroup(rows, est, i)
  BY StepGroupFacts, PromptGroup
<1>2. OfPrompt(rows, i) \in SUBSET DOMAIN rows /\ StepGroup(rows, est, i) \in SUBSET DOMAIN rows
  BY PromptGroup, StepGroupFacts
<1>3. /\ EpisodeScores(rows)[k] = x /\ EpisodeScores(rows)[i] = y
      /\ StepScores(rows)[k] = v /\ StepScores(rows)[i] = w
      /\ x \in Int /\ y \in Int /\ v \in Int /\ w \in Int
  BY <1>1, <1>2, SomeRows
<1>4. t \in Int /\ u \in Int
  BY <1>2, RowsScored, ScoredTotal
<1>5. /\ n \in Nat \ {0} /\ s \in Nat \ {0}
      /\ Gigpo(rows, est, k) = <<(n * x - t) * s + (s * v - u) * n, d>>
      /\ Gigpo(rows, est, i) = <<(n * y - t) * s + (s * w - u) * n, d>>
  BY <1>1, <1>3, GigpoParts DEF GroupPart, StepPart, StepSize
<1> HIDE DEF n, s, x, y, v, w, t, u
<1>6. d \in Nat \ {0}
  BY <1>5, PositiveProduct
<1> DEFINE a == t * s + u * n
<1>7. a \in Int
  <2>1. t * s \in Int /\ u * n \in Int
    BY <1>4, <1>5
  <2> QED BY <2>1
<1>8. ASSUME NEW z \in Int, NEW b \in Int
      PROVE  (n * z - t) * s + (s * b - u) * n = d * (z + b) - a
  <2>1. (n * z - t) * s = (n * s) * z - t * s
    <3>1. n * z \in Int /\ (n * z) * s = (n * s) * z
      BY <1>5
    <3>2. (n * z - t) * s = (n * z) * s - t * s
      BY <1>4, <1>5, <3>1
    <3> QED BY <3>1, <3>2
  <2>2. (s * b - u) * n = (n * s) * b - u * n
    <3>1. s * b \in Int /\ (s * b) * n = (n * s) * b
      BY <1>5
    <3>2. (s * b - u) * n = (s * b) * n - u * n
      BY <1>4, <1>5, <3>1
    <3> QED BY <3>1, <3>2
  <2>3. d * (z + b) = d * z + d * b /\ d * z \in Int /\ d * b \in Int
    <3> HIDE DEF d
    <3> QED BY <1>6
  <2>4. t * s \in Int /\ u * n \in Int
    BY <1>4, <1>5
  <2> QED BY <2>1, <2>2, <2>3, <2>4
<1>9. /\ Gigpo(rows, est, k) = <<d * (x + v) - a, d>>
      /\ Gigpo(rows, est, i) = <<d * (y + w) - a, d>>
  BY <1>3, <1>5, <1>8
<1> HIDE DEF d, a
<1>10. x + v < y + w <=> Less(<<d * (x + v) - a, d>>, <<d * (y + w) - a, d>>)
  <2> DEFINE g == x + v
             h == y + w
  <2>1. g \in Int /\ h \in Int
    BY <1>3
  <2> HIDE DEF g, h
  <2>2. g < h <=> Less(<<d * g - a, d>>, <<d * h - a, d>>)
    BY <1>6, <1>7, <2>1, DistancesCompare
  <2> QED BY <2>2 DEF g, h
<1> QED BY <1>9, <1>10 DEF x, y, v, w

(* Rows whose returns are the means of their step groups have the distances  *)
(* of their rewards.                                                         *)
LEMMA ExpectedCompare ==
  ASSUME NEW rows \in Seq(AdvantageRows), NEW est, NEW i \in DOMAIN rows, NEW k \in OfPrompt(rows, i),
         Cardinality(OfPrompt(rows, i)) > 1,
         StepPart(rows, est, k) = 0, StepPart(rows, est, i) = 0
  PROVE  rows[k].reward < rows[i].reward <=> Less(Gigpo(rows, est, k), Gigpo(rows, est, i))
<1> DEFINE n == Cardinality(OfPrompt(rows, i))
           p == StepSize(rows, est, k)
           q == StepSize(rows, est, i)
           x == rows[k].reward
           y == rows[i].reward
           t == Total(EpisodeScores(rows), OfPrompt(rows, i))
           a == n * x - t
           b == n * y - t
           m == p * (n * q)
<1>1. OfPrompt(rows, i) \in SUBSET DOMAIN rows /\ i \in OfPrompt(rows, i)
  BY PromptGroup
<1>2. EpisodeScores(rows)[k] = x /\ EpisodeScores(rows)[i] = y /\ x \in Int /\ y \in Int
  BY <1>1, SomeRows
<1>3. GroupPart(rows, i, k) = a /\ GroupPart(rows, i, i) = b
  BY <1>2 DEF GroupPart
<1>4. /\ n \in Nat \ {0} /\ p \in Nat \ {0} /\ q \in Nat \ {0} /\ a \in Int /\ b \in Int
      /\ Gigpo(rows, est, k) = <<a * p + 0 * n, n * p>>
      /\ Gigpo(rows, est, i) = <<b * q + 0 * n, n * q>>
  BY <1>1, <1>3, GigpoParts
<1>5. t \in Int
  BY <1>1, RowsScored, ScoredTotal
<1> HIDE DEF n, p, q, x, y, t
<1>6. a < b <=> x < y
  <2>1. n * x \in Int /\ n * y \in Int /\ (n * x < n * y <=> x < y)
    BY <1>2, <1>4, Scaled
  <2> QED BY <1>5, <2>1
<1> HIDE DEF a, b
<1>7. Gigpo(rows, est, k) = <<a * p, n * p>> /\ Gigpo(rows, est, i) = <<b * q, n * q>>
  <2>1. a * p \in Int /\ b * q \in Int /\ 0 * n = 0
    BY <1>4
  <2> QED BY <1>4, <2>1
<1>8. (a * p) * (n * q) = a * m /\ (b * q) * (n * p) = b * m
  <2>1. (a * p) * (n * q) = a * (p * (n * q))
    BY <1>4
  <2>2. (b * q) * (n * p) = b * (p * (n * q))
    BY <1>4
  <2> QED BY <2>1, <2>2
<1>9. m \in Nat \ {0}
  <2> DEFINE nq == n * q
  <2>1. nq \in Nat \ {0}
    BY <1>4, PositiveProduct
  <2> HIDE DEF nq
  <2>2. p * nq \in Nat \ {0}
    BY <1>4, <2>1, PositiveProduct
  <2> QED BY <2>2 DEF nq
<1> HIDE DEF m
<1>10. a * m < b * m <=> a < b
  BY <1>4, <1>9, Scaled
<1> QED BY <1>6, <1>7, <1>8, <1>10 DEF Less, x, y

(* A finite set of numbers has a greatest one.                               *)
LEMMA GreatestOfSome ==
  ASSUME NEW S, IsFiniteSet(S), S # {}, S \subseteq Int
  PROVE  Max(S) \in S /\ \A y \in S : y <= Max(S)
<1> DEFINE Z == {T \in SUBSET S : T # {} => \E x \in T : \A y \in T : x >= y}
<1>1. ASSUME NEW T \in SUBSET S, \A U \in SUBSET T : U # T => U \in Z PROVE T \in Z
  <2> SUFFICES ASSUME T # {} PROVE \E x \in T : \A y \in T : x >= y
    OBVIOUS
  <2>1. PICK x \in T : TRUE
    OBVIOUS
  <2> DEFINE U == T \ {x}
  <2>2. CASE U = {}
    <3>1. \A y \in T : y = x
      BY <2>2
    <3> QED BY <3>1
  <2>3. CASE U # {}
    <3>1. U \in SUBSET T /\ U # T
      OBVIOUS
    <3>2. PICK m \in U : \A y \in U : m >= y
      BY <1>1, <2>3, <3>1
    <3>3. m \in Int /\ x \in Int /\ m \in T
      OBVIOUS
    <3>4. \A y \in T : y \in Int /\ (y = x \/ y \in U)
      OBVIOUS
    <3> HIDE DEF U
    <3>5. CASE m >= x
      <4>1. \A y \in T : m >= y
        BY <3>2, <3>4, <3>5
      <4> QED BY <3>3, <4>1
    <3>6. CASE x >= m
      <4>1. \A y \in T : x >= y
        BY <3>2, <3>3, <3>4, <3>6
      <4> QED BY <4>1
    <3> QED BY <3>3, <3>5, <3>6
  <2> QED BY <2>2, <2>3
<1> HIDE DEF Z
<1>2. S \in Z
  BY <1>1, SubsetsUp
<1>3. PICK x \in S : \A y \in S : x >= y
  BY <1>2 DEF Z
<1>4. Max(S) \in S /\ \A y \in S : Max(S) >= y
  BY <1>3 DEF Max
<1> QED BY <1>4

-----------------------------------------------------------------------------
(* Pass@k.                                                                   *)

RewardsAmong(rows, S) == {rows[k].reward : k \in S}
Best(rows, S) == Max(RewardsAmong(rows, S))
Leader(rows, S) == Min({k \in S : rows[k].reward = Best(rows, S)})
Margin(rows, S) == Best(rows, S) - Max(RewardsAmong(rows, S \ {Leader(rows, S)}))

(* Rows have a best one.                                                     *)
LEMMA SomeBest ==
  ASSUME NEW rows \in Seq(AdvantageRows), NEW S \in SUBSET DOMAIN rows, S # {}
  PROVE  /\ Best(rows, S) \in Int
         /\ \E k \in S : rows[k].reward = Best(rows, S)
         /\ \A k \in S : rows[k].reward \in Int /\ rows[k].reward <= Best(rows, S)
<1> DEFINE R == RewardsAmong(rows, S)
<1>1. IsFiniteSet(S) /\ \A x \in S : rows[x].reward \in Int
  BY SomeRows
<1>2. IsFiniteSet(R)
  <2> DEFINE h == [x \in S |-> rows[x].reward]
  <2>1. h \in [S -> R] /\ \A r \in R : \E x \in S : h[x] = r
    BY DEF RewardsAmong
  <2> HIDE DEF h, R
  <2>2. h \in Surjection(S, R)
    BY <2>1 DEF Surjection
  <2> QED BY <1>1, <2>2, FS_Surjection
<1>3. R # {} /\ R \subseteq Int /\ \A k \in S : rows[k].reward \in R
  BY <1>1 DEF RewardsAmong
<1>4. \A r \in R : \E k \in S : rows[k].reward = r
  BY DEF RewardsAmong
<1> HIDE DEF R
<1>5. Max(R) \in R /\ \A y \in R : y <= Max(R)
  BY <1>2, <1>3, GreatestOfSome
<1> QED BY <1>1, <1>3, <1>4, <1>5 DEF Best, R

(* Pass@k compares the leader with the best of the others.                   *)
LEMMA PasskFacts ==
  ASSUME NEW rows \in Seq(AdvantageRows), NEW i \in DOMAIN rows,
         \A k \in OfPrompt(rows, i) : OfPrompt(rows, i) # {k}
  PROVE  LET S == OfPrompt(rows, i)
             f == Leader(rows, S)
         IN  /\ Passk(rows, i) = <<IF i = f THEN Margin(rows, S) ELSE 0, 1>>
             /\ f \in S /\ rows[f].reward = Best(rows, S)
             /\ Margin(rows, S) = Best(rows, S) - Best(rows, S \ {f})
             /\ S \ {f} # {} /\ S \in SUBSET DOMAIN rows
<1> DEFINE S == OfPrompt(rows, i)
           f == Leader(rows, S)
           n == Len(rows)
<1>1. S \in SUBSET DOMAIN rows /\ i \in S
  BY PromptGroup
<1>2. n \in Nat /\ DOMAIN rows = 1 .. n
  OBVIOUS
<1>3. Passk(rows, i) = <<IF i = f THEN Margin(rows, S) ELSE 0, 1>>
  BY DEF Passk, Margin, Leader, Best, RewardsAmong
<1>4. \A k \in S : S # {k}
  OBVIOUS
<1> HIDE DEF S, n
<1> DEFINE B == {k \in S : rows[k].reward = Best(rows, S)}
<1>5. B # {} /\ B \in SUBSET (1 .. n)
  BY <1>1, <1>2, SomeBest
<1>6. Min(B) \in B
  <2> HIDE DEF B
  <2> QED BY <1>2, <1>5, MinIsLeast
<1>7. f \in S /\ rows[f].reward = Best(rows, S)
  BY <1>6 DEF Leader
<1> HIDE DEF f
<1>8. S \ {f} # {}
  BY <1>4, <1>7
<1>9. Margin(rows, S) = Best(rows, S) - Best(rows, S \ {f})
  BY DEF Margin, Best, f
<1> QED BY <1>1, <1>3, <1>7, <1>8, <1>9 DEF S, f

(* Only a best row of the prompt gets an advantage.                          *)
LEMMA PasskIsRelative ==
  ASSUME NEW rows \in Seq(AdvantageRows), NEW i \in DOMAIN rows,
         \A k \in DOMAIN rows : OfPrompt(rows, k) # {k} /\ advantages[k] = Passk(rows, k)
  PROVE  /\ Cardinality({k \in OfPrompt(rows, i) : advantages[k][1] # 0}) <= 1
         /\ advantages[i][1] # 0 => \A k \in OfPrompt(rows, i) : rows[k].reward <= rows[i].reward
<1> DEFINE S == OfPrompt(rows, i)
           f == Leader(rows, S)
<1>1. S \in SUBSET DOMAIN rows /\ i \in S /\ \A k \in S : OfPrompt(rows, k) = S
  BY PromptGroup
<1>2. ASSUME NEW k \in S PROVE k # f => advantages[k][1] = 0
  <2>1. k \in DOMAIN rows /\ OfPrompt(rows, k) = S
    BY <1>1
  <2>2. \A l \in OfPrompt(rows, k) : OfPrompt(rows, k) # {l}
    BY <1>1, <2>1
  <2>3. Passk(rows, k) = <<IF k = f THEN Margin(rows, S) ELSE 0, 1>>
    BY <2>1, <2>2, PasskFacts
  <2> QED BY <2>1, <2>3
<1>3. f \in S /\ rows[f].reward = Best(rows, S)
  <2>1. \A l \in OfPrompt(rows, i) : OfPrompt(rows, i) # {l}
    BY <1>1
  <2> QED BY <2>1, PasskFacts
<1>4. \A k \in S : rows[k].reward <= Best(rows, S)
  BY <1>1, SomeBest
<1> HIDE DEF S, f
<1>5. Cardinality({k \in S : advantages[k][1] # 0}) <= 1
  <2> DEFINE T == {k \in S : advantages[k][1] # 0}
  <2>1. T \subseteq {f}
    BY <1>2
  <2>2. IsFiniteSet({f}) /\ Cardinality({f}) = 1
    BY FS_Singleton
  <2> HIDE DEF T
  <2>3. Cardinality(T) <= 1
    BY <2>1, <2>2, FS_Subset
  <2> QED BY <2>3 DEF T
<1>6. advantages[i][1] # 0 => \A k \in S : rows[k].reward <= rows[i].reward
  BY <1>1, <1>2, <1>3, <1>4
<1> QED BY <1>5, <1>6 DEF S

-----------------------------------------------------------------------------
(* Relative.                                                                 *)

(* GRPO and RLOO divide the same distances by a number of the prompt.        *)
LEMMA GroupIsRelative ==
  ASSUME NEW rows \in Seq(AdvantageRows), NEW i \in DOMAIN rows, Cardinality(OfPrompt(rows, i)) > 1,
         \/ \A k \in DOMAIN rows : advantages[k] = Grpo(rows, k)
         \/ \A k \in DOMAIN rows : advantages[k] = Rloo(rows, k)
  PROVE  /\ SumsToNothing(OfPrompt(rows, i))
         /\ \A k \in OfPrompt(rows, i) :
              rows[k].reward < rows[i].reward <=> Less(advantages[k], advantages[i])
<1> DEFINE S == OfPrompt(rows, i)
           n == Cardinality(S)
           r == EpisodeScores(rows)
           t == Total(r, S)
<1>1. /\ S \in SUBSET DOMAIN rows /\ i \in S /\ n \in Nat \ {0} /\ n # 1
      /\ \A k \in S : OfPrompt(rows, k) = S
  BY PromptGroup
<1> HIDE DEF S
<1>2. /\ Scored(r, S) /\ t \in Int
      /\ \A k \in S : r[k] = rows[k].reward /\ rows[k].reward \in Int
  BY <1>1, SomeRows, RowsScored, ScoredTotal
<1>3. n - 1 \in Nat \ {0}
  BY <1>1
<1>4. ASSUME NEW d \in Nat \ {0}, \A k \in S : advantages[k] = <<n * r[k] - t, d>>
      PROVE  /\ SumsToNothing(S)
             /\ \A k \in S : rows[k].reward < rows[i].reward <=> Less(advantages[k], advantages[i])
  <2>1. SumsToNothing(S)
    BY <1>2, <1>4, SameDivisor
  <2>2. ASSUME NEW k \in S
        PROVE  rows[k].reward < rows[i].reward <=> Less(advantages[k], advantages[i])
    <3> DEFINE x == rows[k].reward
               y == rows[i].reward
    <3>1. x \in Int /\ y \in Int /\ advantages[k] = <<n * x - t, d>> /\ advantages[i] = <<n * y - t, d>>
      BY <1>1, <1>2, <1>4
    <3> HIDE DEF x, y, n, t, r
    <3>2. x < y <=> Less(<<n * x - t, d>>, <<n * y - t, d>>)
      BY <1>1, <1>2, <3>1, DistancesCompare
    <3> QED BY <3>1, <3>2 DEF x, y
  <2> QED BY <2>1, <2>2
<1>5. CASE \A k \in DOMAIN rows : advantages[k] = Grpo(rows, k)
  <2>1. \A k \in S : advantages[k] = <<n * r[k] - t, n>>
    BY <1>1, <1>5 DEF Grpo, FromMean
  <2> HIDE DEF n, t, r
  <2> QED BY <1>1, <1>4, <2>1 DEF S
<1>6. CASE \A k \in DOMAIN rows : advantages[k] = Rloo(rows, k)
  <2>1. \A k \in S : advantages[k] = <<n * r[k] - t, n - 1>>
    BY <1>1, <1>2, <1>6 DEF Rloo
  <2> HIDE DEF n, t, r
  <2> QED BY <1>3, <1>4, <2>1 DEF S
<1> QED BY <1>5, <1>6

(* All estimators.                                                           *)
LEMMA AllRelative ==
  ASSUME AdvantagesInv, Done
  PROVE  Relative
<1>1. /\ batch \in Seq(AdvantageRows) /\ adv_estimator \in Estimators
      /\ \A i \in DOMAIN batch : advantages[i] = AdvantageOf(batch, adv_estimator, i)
      /\ adv_estimator = "grpo_passk" => \A i \in DOMAIN batch : OfPrompt(batch, i) # {i}
  BY DEF AdvantagesInv, Done
<1> SUFFICES ASSUME NEW i \in DOMAIN batch
             PROVE  LET group == OfPrompt(batch, i)
                    IN  IF adv_estimator = "grpo_passk"
                        THEN /\ Cardinality({k \in group : advantages[k][1] # 0}) <= 1
                             /\ advantages[i][1] # 0 => \A k \in group : batch[k].reward <= batch[i].reward
                        ELSE Cardinality(group) > 1 =>
                               /\ SumsToNothing(group)
                               /\ \A k \in group :
                                    adv_estimator \in {"grpo", "rloo"} \/ (Expected(k) /\ Expected(i)) =>
                                      (Raised(k, i) <=> batch[k].reward < batch[i].reward)
                               /\ adv_estimator \notin {"grpo", "rloo"} =>
                                    \A k \in StepGroup(batch, adv_estimator, i) :
                                      Below(k, i) => (Raised(k, i) <=> ~Below(i, k))
  BY DEF Relative
<1>2. CASE adv_estimator = "grpo_passk"
  <2>1. \A k \in DOMAIN batch : advantages[k] = Passk(batch, k)
    BY <1>1, <1>2 DEF AdvantageOf
  <2> QED BY <1>1, <1>2, <2>1, PasskIsRelative
<1>3. CASE adv_estimator \in {"grpo", "rloo"} /\ Cardinality(OfPrompt(batch, i)) > 1
  <2>1. \/ \A k \in DOMAIN batch : advantages[k] = Grpo(batch, k)
        \/ \A k \in DOMAIN batch : advantages[k] = Rloo(batch, k)
    BY <1>1, <1>3 DEF AdvantageOf
  <2>2. /\ SumsToNothing(OfPrompt(batch, i))
        /\ \A k \in OfPrompt(batch, i) : batch[k].reward < batch[i].reward <=> Raised(k, i)
    BY <1>1, <1>3, <2>1, GroupIsRelative DEF Raised
  <2> QED BY <1>3, <2>2
<1>4. CASE adv_estimator \in GigpoEstimators /\ Cardinality(OfPrompt(batch, i)) > 1
  <2> DEFINE est == adv_estimator
             S == OfPrompt(batch, i)
             A == StepGroup(batch, est, i)
  <2>1. \A k \in DOMAIN batch : advantages[k] = Gigpo(batch, est, k)
    BY <1>1, <1>4 DEF AdvantageOf, GigpoEstimators
  <2>2. S \in SUBSET DOMAIN batch /\ i \in S /\ A \subseteq S
    BY <1>1, PromptGroup, StepGroupFacts
  <2>3. SumsToNothing(S)
    BY <1>1, <1>4, <2>1, <2>2, GigpoCancels
  <2>4. ASSUME NEW k \in A, Below(k, i) PROVE Raised(k, i) <=> ~Below(i, k)
    <3> DEFINE x == batch[k].reward
               y == batch[i].reward
               v == batch[k].step_reward
               w == batch[i].step_reward
    <3>1. advantages[k] = Gigpo(batch, est, k) /\ advantages[i] = Gigpo(batch, est, i)
      BY <2>1, <2>2
    <3>2. x + v < y + w <=> Less(Gigpo(batch, est, k), Gigpo(batch, est, i))
      BY <1>1, <1>4, GigpoCompares
    <3>3. Raised(k, i) <=> x + v < y + w
      BY <3>1, <3>2 DEF Raised
    <3>4. x \in Int /\ y \in Int /\ v \in Int /\ w \in Int
      BY <1>1, <2>2, SomeRows
    <3>5. x <= y /\ v <= w /\ (Below(i, k) <=> y <= x /\ w <= v)
      BY <2>4 DEF Below
    <3> HIDE DEF x, y, v, w
    <3> QED BY <3>3, <3>4, <3>5
  <2>5. ASSUME NEW k \in S, Expected(k), Expected(i)
        PROVE  Raised(k, i) <=> batch[k].reward < batch[i].reward
    <3>1. advantages[k] = Gigpo(batch, est, k) /\ advantages[i] = Gigpo(batch, est, i)
      BY <2>1, <2>2
    <3>2. StepPart(batch, est, k) = 0 /\ StepPart(batch, est, i) = 0
      BY <2>5 DEF Expected, FromMean, StepPart, StepSize
    <3>3. batch[k].reward < batch[i].reward <=> Less(Gigpo(batch, est, k), Gigpo(batch, est, i))
      BY <1>1, <1>4, <3>2, ExpectedCompare
    <3> QED BY <3>1, <3>3 DEF Raised
  <2>6. adv_estimator \notin {"grpo", "rloo", "grpo_passk"}
    BY <1>4 DEF GigpoEstimators
  <2> QED BY <2>3, <2>4, <2>6, <2>5
<1> QED BY <1>1, <1>2, <1>3, <1>4 DEF Estimators, GigpoEstimators

-----------------------------------------------------------------------------
(* Rows in other places.                                                     *)

Rearranged(moved, rows, p) ==
  /\ DOMAIN moved = DOMAIN rows
  /\ p \in [DOMAIN rows -> DOMAIN rows]
  /\ \A k, l \in DOMAIN rows : p[k] = p[l] => k = l
  /\ \A i \in DOMAIN rows : \E k \in DOMAIN rows : p[k] = i
  /\ \A k \in DOMAIN rows : moved[k] = rows[p[k]]

(* The scores of rows that are elsewhere.                                    *)
MovedScores(s, r, p, rows) == \A k \in DOMAIN rows : s[k] = r[p[k]]

LEMMA ScoresMove ==
  ASSUME NEW rows, NEW moved, NEW p, Rearranged(moved, rows, p)
  PROVE  /\ MovedScores(EpisodeScores(moved), EpisodeScores(rows), p, rows)
         /\ MovedScores(StepScores(moved), StepScores(rows), p, rows)
BY DEF Rearranged, MovedScores, EpisodeScores, StepScores

(* Rows elsewhere are as many and have the same total.                       *)
LEMMA MovedRows ==
  ASSUME NEW rows \in Seq(AdvantageRows), NEW moved \in Seq(AdvantageRows), NEW p,
         Rearranged(moved, rows, p), NEW T \in SUBSET DOMAIN rows,
         NEW r, Scored(r, DOMAIN rows), NEW s, MovedScores(s, r, p, rows)
  PROVE  /\ Cardinality(T) = Cardinality(PlacesOf(p, T))
         /\ Total(s, T) = Total(r, PlacesOf(p, T))
<1> DEFINE U == PlacesOf(p, T)
           q == [x \in T |-> p[x]]
<1>1. U \in SUBSET DOMAIN rows /\ \A x \in T : s[x] = r[p[x]] /\ p[x] \in DOMAIN rows
  BY SMTT(30) DEF Rearranged, PlacesOf, MovedScores
<1>2. IsFiniteSet(T) /\ IsFiniteSet(U) /\ (\A x \in T : s[x] \in Int) /\ \A x \in U : r[x] \in Int
  BY <1>1, SomeRows DEF Scored
<1>3. \A x, y \in T : p[x] = p[y] => x = y
  BY DEF Rearranged
<1>4. Cardinality(T) = Cardinality(U)
  BY <1>2, <1>3, InjectiveImage DEF PlacesOf
<1>5. q \in [T -> U] /\ (\A x \in T : q[x] = p[x]) /\ U = {q[x] : x \in T}
  BY DEF PlacesOf
<1> HIDE DEF q, U
<1>6. PICK G : IsSum(G, r, U) /\ Total(r, U) = G[U]
  BY <1>2, TotalIsSum
<1>7. PICK H : IsSum(H, s, T) /\ Total(s, T) = H[T]
  BY <1>2, TotalIsSum
<1>8. \A x, y \in T : q[x] = q[y] => x = y
  BY <1>3, <1>5
<1>9. Carries(s, r, q, T)
  BY <1>1, <1>5, <1>8 DEF Carries
<1>10. H[T] = G[PlacesOf(q, T)]
  BY <1>2, <1>5, <1>6, <1>7, <1>9, SumMoved
<1>11. H[T] = G[U]
  BY <1>5, <1>10 DEF PlacesOf
<1> QED BY <1>4, <1>6, <1>7, <1>11 DEF U

(* The rows of a prompt are those of the prompt elsewhere.                   *)
LEMMA MovedPrompt ==
  ASSUME NEW moved, NEW rows, NEW p, Rearranged(moved, rows, p), NEW k \in DOMAIN rows
  PROVE  PlacesOf(p, OfPrompt(moved, k)) = OfPrompt(rows, p[k])
BY DEF Rearranged, PlacesOf, OfPrompt

(* The same for step groups, when they are of one observation.               *)
LEMMA MovedStepGroup ==
  ASSUME NEW rows \in Seq(AdvantageRows), NEW moved \in Seq(AdvantageRows), NEW p,
         Rearranged(moved, rows, p), NEW k \in DOMAIN rows
  PROVE  PlacesOf(p, StepGroup(moved, "gigpo", k)) = StepGroup(rows, "gigpo", p[k])
<1>1. k \in DOMAIN moved /\ p[k] \in DOMAIN rows
  BY DEF Rearranged
<1>2. /\ StepGroup(moved, "gigpo", k) = {l \in DOMAIN moved : Same(moved, k, l)}
      /\ StepGroup(rows, "gigpo", p[k]) = {l \in DOMAIN rows : Same(rows, p[k], l)}
  BY <1>1, GigpoStepGroup
<1>3. \A l \in DOMAIN moved : Same(moved, k, l) <=> Same(rows, p[k], p[l])
  BY DEF Rearranged, Same
<1>4. PlacesOf(p, {l \in DOMAIN moved : Same(moved, k, l)}) = {l \in DOMAIN rows : Same(rows, p[k], l)}
  <2>1. ASSUME NEW l \in DOMAIN moved, Same(moved, k, l)
        PROVE  p[l] \in DOMAIN rows /\ Same(rows, p[k], p[l])
    BY <1>3, <2>1 DEF Rearranged
  <2>2. ASSUME NEW j \in DOMAIN rows, Same(rows, p[k], j)
        PROVE  \E l \in DOMAIN moved : Same(moved, k, l) /\ p[l] = j
    <3>1. PICK l \in DOMAIN rows : p[l] = j
      BY DEF Rearranged
    <3>2. l \in DOMAIN moved
      BY DEF Rearranged
    <3> QED BY <1>3, <2>2, <3>1, <3>2
  <2> QED BY <2>1, <2>2 DEF PlacesOf
<1> QED BY <1>2, <1>4

(* Comparing with the mean of the rows in those places.                      *)
LEMMA MovedMean ==
  ASSUME NEW rows \in Seq(AdvantageRows), NEW moved \in Seq(AdvantageRows), NEW p,
         Rearranged(moved, rows, p), NEW T \in SUBSET DOMAIN rows, NEW k \in DOMAIN rows,
         NEW r, Scored(r, DOMAIN rows), NEW s, MovedScores(s, r, p, rows)
  PROVE  FromMean(s, k, T) = FromMean(r, p[k], PlacesOf(p, T))
<1>1. s[k] = r[p[k]]
  BY DEF MovedScores
<1>2. Cardinality(T) = Cardinality(PlacesOf(p, T)) /\ Total(s, T) = Total(r, PlacesOf(p, T))
  BY MovedRows
<1> QED BY <1>1, <1>2 DEF FromMean

(* GRPO and RLOO.                                                            *)
LEMMA MovedGroupAdvantage ==
  ASSUME NEW rows \in Seq(AdvantageRows), NEW moved \in Seq(AdvantageRows), NEW p,
         Rearranged(moved, rows, p), NEW k \in DOMAIN rows
  PROVE  /\ Grpo(moved, k) = Grpo(rows, p[k])
         /\ Rloo(moved, k) = Rloo(rows, p[k])
<1> DEFINE T == OfPrompt(moved, k)
           S == OfPrompt(rows, p[k])
           s == EpisodeScores(moved)
           r == EpisodeScores(rows)
<1>1. T \in SUBSET DOMAIN rows /\ moved[k] = rows[p[k]]
  BY DEF Rearranged, OfPrompt
<1>2. PlacesOf(p, T) = S
  BY MovedPrompt
<1>3. Scored(r, DOMAIN rows) /\ MovedScores(s, r, p, rows)
  BY RowsScored, ScoresMove
<1> HIDE DEF T, S, s, r
<1>4. /\ Cardinality(T) = Cardinality(S) /\ Total(s, T) = Total(r, S)
      /\ FromMean(s, k, T) = FromMean(r, p[k], S)
  BY <1>1, <1>2, <1>3, MovedRows, MovedMean
<1> QED BY <1>1, <1>4 DEF Grpo, Rloo, T, S, s, r

(* GiGPO.                                                                    *)
LEMMA MovedGigpo ==
  ASSUME NEW rows \in Seq(AdvantageRows), NEW moved \in Seq(AdvantageRows), NEW p,
         Rearranged(moved, rows, p), NEW k \in DOMAIN rows
  PROVE  Gigpo(moved, "gigpo", k) = Gigpo(rows, "gigpo", p[k])
<1> DEFINE T == StepGroup(moved, "gigpo", k)
           S == StepGroup(rows, "gigpo", p[k])
           s == StepScores(moved)
           r == StepScores(rows)
<1>1. k \in DOMAIN moved /\ DOMAIN moved = DOMAIN rows
  BY DEF Rearranged
<1>2. T \in SUBSET DOMAIN rows
  BY <1>1, StepGroupFacts, PromptGroup
<1>3. PlacesOf(p, T) = S
  BY MovedStepGroup
<1>4. Scored(r, DOMAIN rows) /\ MovedScores(s, r, p, rows)
  BY RowsScored, ScoresMove
<1> HIDE DEF T, S, s, r
<1>5. FromMean(s, k, T) = FromMean(r, p[k], S)
  BY <1>2, <1>3, <1>4, MovedMean
<1>6. Grpo(moved, k) = Grpo(rows, p[k])
  BY MovedGroupAdvantage
<1> QED BY <1>5, <1>6 DEF Gigpo, StepAdvantage, T, S, s, r

-----------------------------------------------------------------------------
(* Pass@k: with two best rows nobody is ahead, and one best row is found     *)
(* wherever it is.                                                           *)

(* The best reward is the best elsewhere.                                    *)
LEMMA MovedBest ==
  ASSUME NEW rows \in Seq(AdvantageRows), NEW moved \in Seq(AdvantageRows), NEW p,
         Rearranged(moved, rows, p), NEW T \in SUBSET DOMAIN rows
  PROVE  Best(moved, T) = Best(rows, PlacesOf(p, T))
<1>1. RewardsAmong(moved, T) = RewardsAmong(rows, PlacesOf(p, T))
  BY DEF RewardsAmong, PlacesOf, Rearranged
<1> QED BY <1>1 DEF Best

(* With two best rows the leader is not ahead.                               *)
LEMMA TwoBest ==
  ASSUME NEW rows \in Seq(AdvantageRows), NEW S \in SUBSET DOMAIN rows, NEW f \in S, NEW g \in S,
         f # g, rows[g].reward = Best(rows, S)
  PROVE  Best(rows, S) - Best(rows, S \ {f}) = 0
<1> DEFINE R == S \ {f}
<1>1. R \in SUBSET DOMAIN rows /\ g \in R
  OBVIOUS
<1>2. /\ Best(rows, S) \in Int
      /\ \A k \in S : rows[k].reward \in Int /\ rows[k].reward <= Best(rows, S)
  BY SomeBest
<1>3. R \subseteq S
  OBVIOUS
<1> HIDE DEF R
<1>4. /\ Best(rows, R) \in Int
      /\ \E k \in R : rows[k].reward = Best(rows, R)
      /\ \A k \in R : rows[k].reward <= Best(rows, R)
  BY <1>1, SomeBest
<1>5. Best(rows, S) <= Best(rows, R)
  BY <1>1, <1>4
<1>6. Best(rows, R) <= Best(rows, S)
  BY <1>2, <1>3, <1>4
<1> QED BY <1>2, <1>4, <1>5, <1>6 DEF R

(* So pass@k finds the same advantages, though the leader may be another     *)
(* row.                                                                      *)
LEMMA MovedPassk ==
  ASSUME NEW rows \in Seq(AdvantageRows), NEW moved \in Seq(AdvantageRows), NEW p,
         Rearranged(moved, rows, p), NEW k \in DOMAIN rows,
         \A i \in DOMAIN rows : OfPrompt(rows, i) # {i}
  PROVE  Passk(moved, k) = Passk(rows, p[k])
<1> DEFINE T == OfPrompt(moved, k)
           S == OfPrompt(rows, p[k])
           f == Leader(moved, T)
           g == Leader(rows, S)
<1>1. /\ DOMAIN moved = DOMAIN rows /\ p \in [DOMAIN rows -> DOMAIN rows]
      /\ (\A x, y \in DOMAIN rows : p[x] = p[y] => x = y)
      /\ \A x \in DOMAIN rows : moved[x] = rows[p[x]]
  BY DEF Rearranged
<1>2. /\ T \in SUBSET DOMAIN rows /\ k \in T /\ \A x \in T : OfPrompt(moved, x) = T
      /\ S \in SUBSET DOMAIN rows /\ \A y \in S : OfPrompt(rows, y) = S
  BY <1>1, PromptGroup
<1>3. PlacesOf(p, T) = S
  BY MovedPrompt
<1>4. /\ Passk(rows, p[k]) = <<IF p[k] = g THEN Margin(rows, S) ELSE 0, 1>>
      /\ g \in S /\ rows[g].reward = Best(rows, S)
      /\ Margin(rows, S) = Best(rows, S) - Best(rows, S \ {g})
  <2>1. p[k] \in DOMAIN rows
    BY <1>1
  <2>2. \A y \in OfPrompt(rows, p[k]) : OfPrompt(rows, p[k]) # {y}
    BY <1>2
  <2> QED BY <2>1, <2>2, PasskFacts
<1>5. \A x \in T : T # {x}
  <2> SUFFICES ASSUME NEW x \in T, T = {x} PROVE FALSE
    OBVIOUS
  <2>1. p[x] \in DOMAIN rows /\ PlacesOf(p, T) = {p[x]}
    BY <1>1, <1>2 DEF PlacesOf
  <2>2. OfPrompt(rows, p[x]) = S
    BY <1>2, <1>3, <2>1
  <2> QED BY <1>3, <2>1, <2>2
<1>6. /\ Passk(moved, k) = <<IF k = f THEN Margin(moved, T) ELSE 0, 1>>
      /\ f \in T /\ moved[f].reward = Best(moved, T)
      /\ Margin(moved, T) = Best(moved, T) - Best(moved, T \ {f})
  <2>1. k \in DOMAIN moved /\ \A x \in OfPrompt(moved, k) : OfPrompt(moved, k) # {x}
    BY <1>1, <1>5
  <2> QED BY <2>1, PasskFacts
<1> HIDE DEF T, S, f, g
<1>7. Best(moved, T) = Best(rows, S)
  BY <1>2, <1>3, MovedBest
<1>8. CASE p[f] = g
  <2>1. PlacesOf(p, T \ {f}) = S \ {g}
    BY <1>1, <1>2, <1>3, <1>6, <1>8 DEF PlacesOf
  <2>2. Best(moved, T \ {f}) = Best(rows, S \ {g})
    <3> DEFINE U == T \ {f}
    <3>1. U \in SUBSET DOMAIN rows
      BY <1>2
    <3> HIDE DEF U
    <3>2. Best(moved, U) = Best(rows, PlacesOf(p, U))
      BY <3>1, MovedBest
    <3> QED BY <2>1, <3>2 DEF U
  <2>3. Margin(moved, T) = Margin(rows, S)
    BY <1>4, <1>6, <1>7, <2>2
  <2>4. k = f <=> p[k] = g
    BY <1>1, <1>2, <1>6, <1>8
  <2> QED BY <1>4, <1>6, <2>3, <2>4
<1>9. CASE p[f] # g
  <2>1. p[f] \in S /\ rows[p[f]].reward = Best(rows, S)
    BY <1>1, <1>2, <1>3, <1>6, <1>7 DEF PlacesOf
  <2>2. Margin(rows, S) = 0
    BY <1>2, <1>4, <1>9, <2>1, TwoBest
  <2>3. PICK h \in T : p[h] = g
    BY <1>3, <1>4 DEF PlacesOf
  <2>4. h # f /\ moved[h].reward = Best(moved, T) /\ T \in SUBSET DOMAIN moved
    BY <1>1, <1>2, <1>4, <1>7, <1>9, <2>3
  <2>5. Margin(moved, T) = 0
    BY <1>6, <2>4, TwoBest
  <2> QED BY <1>4, <1>6, <2>2, <2>5
<1> QED BY <1>8, <1>9

-----------------------------------------------------------------------------
(* Everywhere.                                                               *)

(* Balancing rearranges the rows.                                            *)
LEMMA PlacesRearrange ==
  ASSUME NEW rows \in Seq(AdvantageRows), NEW rank \in [1 .. Len(rows) -> 1 .. WorldSize], NEW places, NEW moved,
         places = Reordered([i \in DOMAIN rows |-> i], rank),
         moved = [k \in DOMAIN rows |-> rows[places[k]]]
  PROVE  Rearranged(moved, rows, places) /\ moved \in Seq(AdvantageRows)
<1> DEFINE n == Len(rows)
           W == 1 .. WorldSize
           N == 1 .. n
           id == [i \in DOMAIN rows |-> i]
           parts == Parts(n, rank)
           seqs == [r \in W |-> [k \in DOMAIN parts[r] |-> id[parts[r][k]]]]
<1>1. n \in Nat /\ DOMAIN rows = N /\ DOMAIN id = N
  OBVIOUS
<1>2. parts \in [W -> Seq(N)]
  BY <1>1, PartsShare
<1>3. places = FlattenSeq(seqs)
  <2>1. places = Reordered(id, rank)
    OBVIOUS
  <2> HIDE DEF id
  <2> QED BY <1>1, <2>1 DEF Reordered, Parts
<1>4. \A i \in N : id[i] = i
  BY <1>1
<1> HIDE DEF id, parts
<1>5. seqs = parts
  <2>1. ASSUME NEW r \in W PROVE seqs[r] = parts[r]
    <3> DEFINE q == parts[r]
    <3>1. q \in Seq(N)
      BY <1>2
    <3>2. seqs[r] = [k \in DOMAIN q |-> id[q[k]]]
      OBVIOUS
    <3> HIDE DEF q, N
    <3>3. DOMAIN q = 1 .. Len(q) /\ q = [k \in DOMAIN q |-> q[k]] /\ \A k \in DOMAIN q : q[k] \in N
      BY <3>1
    <3>4. [k \in DOMAIN q |-> id[q[k]]] = q
      BY <1>4, <3>3
    <3> QED BY <3>2, <3>4 DEF q
  <2> HIDE DEF N
  <2>2. parts = [r \in W |-> parts[r]]
    BY <1>2
  <2> QED BY <2>1, <2>2
<1>6. Enumerates(places, N)
  BY <1>1, <1>3, <1>5, PlacesEnumerate DEF parts
<1>7. Len(places) = n
  BY <1>1, <1>6, EnumerationSize
<1> HIDE DEF n
<1>8. places \in [N -> N]
  <2> HIDE DEF N
  <2>1. places \in Seq(N)
    BY <1>6 DEF Enumerates
  <2>2. places \in [1 .. Len(places) -> N]
    BY <2>1
  <2> QED BY <1>7, <2>2 DEF N
<1>9. /\ \A k, l \in N : places[k] = places[l] => k = l
      /\ \A i \in N : \E k \in N : places[k] = i
  BY <1>6, <1>7 DEF Enumerates
<1>10. Rearranged(moved, rows, places)
  <2> HIDE DEF N
  <2> QED BY <1>1, <1>8, <1>9 DEF Rearranged
<1>11. moved \in Seq(AdvantageRows)
  <2>1. \A k \in N : rows[places[k]] \in AdvantageRows
    <3> HIDE DEF AdvantageRows
    <3> QED BY <1>1, <1>8
  <2>2. moved \in [1 .. n -> AdvantageRows]
    BY <1>1, <2>1
  <2> QED BY <1>1, <2>2
<1> QED BY <1>10, <1>11

(* The advantage of a row does not depend on its place.                      *)
LEMMA MovedAdvantage ==
  ASSUME NEW rows \in Seq(AdvantageRows), NEW moved \in Seq(AdvantageRows), NEW p,
         Rearranged(moved, rows, p), NEW k \in DOMAIN rows,
         NEW est \in Estimators, est # "gigpo_similarity",
         est = "grpo_passk" => \A i \in DOMAIN rows : OfPrompt(rows, i) # {i}
  PROVE  AdvantageOf(moved, est, k) = AdvantageOf(rows, est, p[k])
<1>1. CASE est = "grpo"
  BY <1>1, MovedGroupAdvantage DEF AdvantageOf
<1>2. CASE est = "rloo"
  BY <1>2, MovedGroupAdvantage DEF AdvantageOf
<1>3. CASE est = "grpo_passk"
  BY <1>3, MovedPassk DEF AdvantageOf
<1>4. CASE est = "gigpo"
  BY <1>4, MovedGigpo DEF AdvantageOf
<1> QED BY <1>1, <1>2, <1>3, <1>4 DEF Estimators

(* Wherever the balancing would have put the rows.                           *)
LEMMA PlacesDoNotMatter ==
  ASSUME AdvantagesInv, Done, adv_estimator # "gigpo_similarity"
  PROVE  Everywhere
<1> SUFFICES ASSUME NEW rank \in EqualShares(Len(batch))
             PROVE  LET places == Reordered([i \in DOMAIN batch |-> i], rank)
                        moved  == [k \in DOMAIN batch |-> batch[places[k]]]
                    IN  \A k \in DOMAIN batch :
                          Equal(AdvantageOf(moved, adv_estimator, k), advantages[places[k]])
  BY DEF Everywhere
<1> DEFINE places == Reordered([i \in DOMAIN batch |-> i], rank)
           moved  == [k \in DOMAIN batch |-> batch[places[k]]]
<1>1. /\ batch \in Seq(AdvantageRows) /\ adv_estimator \in Estimators
      /\ \A i \in DOMAIN batch : advantages[i] = AdvantageOf(batch, adv_estimator, i)
      /\ adv_estimator = "grpo_passk" => \A i \in DOMAIN batch : OfPrompt(batch, i) # {i}
  BY DEF AdvantagesInv, Done
<1>2. rank \in [1 .. Len(batch) -> 1 .. WorldSize]
  BY DEF EqualShares
<1>3. Rearranged(moved, batch, places) /\ moved \in Seq(AdvantageRows)
  BY <1>1, <1>2, PlacesRearrange
<1> HIDE DEF places, moved
<1>4. ASSUME NEW k \in DOMAIN batch
      PROVE  Equal(AdvantageOf(moved, adv_estimator, k), advantages[places[k]])
  <2>1. AdvantageOf(moved, adv_estimator, k) = AdvantageOf(batch, adv_estimator, places[k])
    <3> DEFINE est == adv_estimator
    <3>1. /\ est \in Estimators /\ est # "gigpo_similarity"
          /\ est = "grpo_passk" => \A i \in DOMAIN batch : OfPrompt(batch, i) # {i}
      BY <1>1
    <3> HIDE DEF est
    <3>2. AdvantageOf(moved, est, k) = AdvantageOf(batch, est, places[k])
      BY <1>1, <1>3, <3>1, MovedAdvantage
    <3> QED BY <3>2 DEF est
  <2>2. places[k] \in DOMAIN batch
    BY <1>3 DEF Rearranged
  <2> QED BY <1>1, <2>1, <2>2 DEF Equal
<1> QED BY <1>4 DEF places, moved

(* compute_advantage, for every batch, estimator and balancing: the advantages of*)
(* a prompt add up to nothing and grow with the reward among the rows compared,*)
(* pass@k gives one to a best row only, and places do not matter.            *)
THEOREM AdvantagesCompareRows == AdvantageSpec => []AdvantagesAreRelative
<1>1. AdvantagesInv => AdvantagesAreRelative
  BY AllRelative, PlacesDoNotMatter DEF AdvantagesAreRelative
<1> QED BY <1>1, AdvantagesInductive, PTL

-----------------------------------------------------------------------------
(* Dynamic sampling.                                                         *)

USE GroupSizeAssumption, MaxStepsAssumption, EnvLimitAssumption, TasksAssumption,
    BatchSizesAssumption, FilterAssumption

-----------------------------------------------------------------------------
(* The invariant of one call of the plain loop.                              *)

TurnRows  == [uid : Nat \X Int, traj_uid : Nat \X Nat, rewards : {0, 1}, active_masks : BOOLEAN]
TurnInfos == [won : BOOLEAN, gamefile : Tasks]

(* Row r of env i, and the info of the same turn.                            *)
RowInv(call, i, row, info, r, length, reward) ==
  /\ row.uid = UidOf(call, i) /\ row.traj_uid = TrajUidOf(call, i)
  /\ row.active_masks <=> r <= length
  /\ info.won <=> row.rewards = 1
  /\ r < length => row.rewards = 0
  /\ r = length => row.rewards = reward

(* The rows of env i: its first length rows are active, the last of these    *)
(* holds the reward of the episode, and the infos say won where a row was    *)
(* rewarded.                                                                 *)
EpisodeInv(call, i, rows, infos, reward, length, over) ==
  /\ rows \in Seq(TurnRows) /\ infos \in Seq(TurnInfos) /\ Len(infos) = Len(rows)
  /\ length \in 0 .. Len(rows) /\ reward \in {0, 1} /\ over \in BOOLEAN
  /\ IF Len(rows) = 0 THEN reward = 0 /\ ~over ELSE length > 0
  /\ \A r \in 1 .. Len(rows) : RowInv(call, i, rows[r], infos[r], r, length, reward)
  /\ ~over => length = Len(rows) /\ reward = 0

BatchSize == IF is_train THEN Target ELSE ValBatchSize

Playing ==
  /\ calls > 0
  /\ gamefile \in [1 .. BatchSize -> Tasks]
  /\ is_done \in [1 .. BatchSize -> BOOLEAN]
  /\ total_batch_list \in [1 .. BatchSize -> Seq(TurnRows)]
  /\ total_infos \in [1 .. BatchSize -> Seq(TurnInfos)]
  /\ episode_rewards \in [1 .. BatchSize -> {0, 1}]
  /\ episode_lengths \in [1 .. BatchSize -> Nat]
  /\ \A i \in 1 .. BatchSize :
       EpisodeInv(calls, i, total_batch_list[i], total_infos[i], episode_rewards[i],
                  episode_lengths[i], is_done[i])

Judged ==
  /\ "success_rate" \in DOMAIN success
  /\ success["success_rate"] \in [1 .. BatchSize -> BOOLEAN]
  /\ \A i \in 1 .. BatchSize : success["success_rate"][i] <=> episode_rewards[i] = 1

VanillaInv ==
  /\ phase \in {"idle", "turn", "evaluate", "done"} /\ calls \in Nat /\ is_train \in BOOLEAN
  /\ phase # "idle" => Playing
  /\ phase \in {"evaluate", "done"} => \A i \in 1 .. BatchSize : Len(total_batch_list[i]) > 0
  /\ phase = "done" => Judged

LEMMA TargetType == Target \in Nat \ {0} /\ BatchSize \in Nat \ {0}
<1>1. Target \in Nat \ {0}
  BY DEF Target
<1> QED BY <1>1 DEF BatchSize

(* A turn of one env, whether it is still in play or not.                    *)
LEMMA EpisodeGrows ==
  ASSUME NEW call \in Nat, NEW i \in Nat \ {0}, NEW rows, NEW infos, NEW reward, NEW length,
         NEW over, EpisodeInv(call, i, rows, infos, reward, length, over),
         NEW won \in BOOLEAN, NEW done \in BOOLEAN, NEW task \in Tasks,
         IF over THEN done ELSE won => done,
         NEW row, row = [uid |-> UidOf(call, i), traj_uid |-> TrajUidOf(call, i),
                         rewards |-> IF won THEN 1 ELSE 0, active_masks |-> ~over],
         NEW info, info = [won |-> won, gamefile |-> task]
  PROVE  EpisodeInv(call, i, Append(rows, row), Append(infos, info),
                    reward + (IF ~over /\ won THEN 1 ELSE 0),
                    length + (IF over THEN 0 ELSE 1), over \/ done)
<1> DEFINE n == Len(rows)
           rows2   == Append(rows, row)
           infos2  == Append(infos, info)
           reward2 == reward + (IF ~over /\ won THEN 1 ELSE 0)
           length2 == length + (IF over THEN 0 ELSE 1)
<1>1. /\ rows \in Seq(TurnRows) /\ infos \in Seq(TurnInfos) /\ n \in Nat /\ Len(infos) = n
      /\ length \in 0 .. n /\ reward \in {0, 1} /\ over \in BOOLEAN
      /\ n = 0 => reward = 0 /\ ~over
      /\ n # 0 => length > 0
      /\ ~over => length = n /\ reward = 0
  BY DEF EpisodeInv
<1>2. UidOf(call, i) \in Nat \X Int /\ TrajUidOf(call, i) \in Nat \X Nat
  BY DEF UidOf, TrajUidOf
<1>3. row \in TurnRows
  BY <1>1, <1>2 DEF TurnRows
<1>4. info \in TurnInfos
  BY DEF TurnInfos
<1>5. /\ rows2 \in Seq(TurnRows) /\ Len(rows2) = n + 1 /\ rows2[n + 1] = row
      /\ \A r \in 1 .. n : rows2[r] = rows[r]
  BY <1>1, <1>3
<1>6. /\ infos2 \in Seq(TurnInfos) /\ Len(infos2) = n + 1 /\ infos2[n + 1] = info
      /\ \A r \in 1 .. n : infos2[r] = infos[r]
  BY <1>1, <1>4
<1>7. /\ length2 \in 0 .. (n + 1) /\ reward2 \in {0, 1} /\ (over \/ done) \in BOOLEAN
      /\ length2 > 0
      /\ ~(over \/ done) => length2 = n + 1 /\ reward2 = 0
  <2>1. CASE over
    <3>1. length2 = length /\ reward2 = reward /\ length > 0
      BY <1>1, <2>1
    <3> HIDE DEF length2, reward2
    <3> QED BY <1>1, <2>1, <3>1
  <2>2. CASE ~over
    <3>1. length2 = n + 1 /\ reward2 = IF won THEN 1 ELSE 0
      BY <1>1, <2>2
    <3>2. ~done => ~won
      BY <2>2
    <3> HIDE DEF length2, reward2
    <3> QED BY <1>1, <2>2, <3>1, <3>2
  <2> QED BY <1>1, <2>1, <2>2
<1>8. ASSUME NEW r \in 1 .. n PROVE RowInv(call, i, rows2[r], infos2[r], r, length2, reward2)
  <2>1. RowInv(call, i, rows[r], infos[r], r, length, reward)
    BY DEF EpisodeInv
  <2>2. rows2[r] = rows[r] /\ infos2[r] = infos[r]
    BY <1>5, <1>6
  <2> HIDE DEF rows2, infos2
  <2>3. CASE over
    <3>1. length2 = length /\ reward2 = reward
      BY <1>1, <2>3
    <3> QED BY <2>1, <2>2, <3>1
  <2>4. CASE ~over
    <3>1. length = n /\ reward = 0 /\ length2 = n + 1
      BY <1>1, <2>4
    <3>2. (r <= length <=> r <= length2) /\ r # length2 /\ (r < length \/ r = length)
      BY <1>1, <3>1
    <3> HIDE DEF length2, reward2
    <3> QED BY <2>1, <2>2, <3>1, <3>2 DEF RowInv
  <2> QED BY <1>1, <2>3, <2>4
<1>9. ASSUME NEW r, r = n + 1 PROVE RowInv(call, i, rows2[r], infos2[r], r, length2, reward2)
  <2>1. rows2[r] = row /\ infos2[r] = info
    BY <1>5, <1>6, <1>9
  <2> HIDE DEF rows2, infos2
  <2>2. row.uid = UidOf(call, i) /\ row.traj_uid = TrajUidOf(call, i)
    OBVIOUS
  <2>3. row.active_masks <=> r <= length2
    <3>1. row.active_masks <=> ~over
      OBVIOUS
    <3>2. CASE over
      <4>1. length2 = length /\ ~(r <= length)
        BY <1>1, <1>9, <3>2
      <4> QED BY <3>1, <3>2, <4>1
    <3>3. CASE ~over
      <4>1. length2 = n + 1
        BY <1>1, <3>3
      <4>2. r <= length2
        BY <1>1, <1>9, <4>1
      <4> QED BY <3>1, <3>3, <4>2
    <3> QED BY <1>1, <3>2, <3>3
  <2>4. info.won <=> row.rewards = 1
    <3>1. (info.won <=> won) /\ row.rewards = (IF won THEN 1 ELSE 0)
      OBVIOUS
    <3> QED BY <3>1
  <2>5. (r < length2 => row.rewards = 0) /\ (r = length2 => row.rewards = reward2)
    <3>1. row.rewards = (IF won THEN 1 ELSE 0)
      OBVIOUS
    <3>2. CASE over
      BY <1>1, <1>9, <3>2
    <3>3. CASE ~over
      BY <1>1, <1>9, <3>1, <3>3
    <3> QED BY <1>1, <3>2, <3>3
  <2> QED BY <2>1, <2>2, <2>3, <2>4, <2>5 DEF RowInv
<1>10. \A r \in 1 .. (n + 1) : r \in 1 .. n \/ r = n + 1
  BY <1>1
<1> HIDE DEF rows2, infos2, reward2, length2
<1>11. \A r \in 1 .. (n + 1) : RowInv(call, i, rows2[r], infos2[r], r, length2, reward2)
  BY <1>8, <1>9, <1>10
<1> HIDE DEF n
<1>12. n + 1 # 0
  BY <1>1
<1>13. EpisodeInv(call, i, rows2, infos2, reward2, length2, over \/ done)
  BY <1>5, <1>6, <1>7, <1>11, <1>12 DEF EpisodeInv
<1> QED BY <1>13 DEF rows2, infos2, reward2, length2

(* The last active row is the one the length of the episode says.            *)
LEMMA LastActive ==
  ASSUME NEW call, NEW i, NEW rows, NEW infos, NEW reward, NEW length, NEW over,
         EpisodeInv(call, i, rows, infos, reward, length, over), Len(rows) > 0
  PROVE  /\ SelectLastInSeq(rows, LAMBDA row : row.active_masks) = length
         /\ length \in 1 .. Len(rows)
<1> DEFINE I == {r \in 1 .. Len(rows) : rows[r].active_masks}
<1>1. length \in 1 .. Len(rows) /\ Len(rows) \in Nat
  BY DEF EpisodeInv
<1>2. \A r \in 1 .. Len(rows) : rows[r].active_masks <=> r <= length
  BY DEF EpisodeInv, RowInv
<1>3. length \in I /\ \A r \in I : length >= r
  BY <1>1, <1>2
<1>4. \A r \in I : (\A q \in I : r >= q) => r = length
  <2> SUFFICES ASSUME NEW r \in I, \A q \in I : r >= q PROVE r = length
    OBVIOUS
  <2>1. r >= length /\ length >= r
    BY <1>3
  <2> QED BY <1>1, <2>1
<1>5. (CHOOSE r \in I : \A q \in I : r >= q) = length
  <2> HIDE DEF I
  <2> QED BY <1>3, <1>4
<1>6. I # {}
  BY <1>3
<1>7. SelectLastInSeq(rows, LAMBDA row : row.active_masks) =
        IF I # {} THEN CHOOSE r \in I : \A q \in I : r >= q ELSE 0
  BY DEF SelectLastInSeq, Max
<1> QED BY <1>1, <1>5, <1>6, <1>7

-----------------------------------------------------------------------------
(* The plain loop keeps its invariant.                                       *)

(* A reset starts the episodes of a batch. *)
LEMMA ResetStarts ==
  ASSUME VanillaInv, is_train' \in BOOLEAN, NEW grouped, VanillaReset(BatchSize', grouped)
  PROVE  VanillaInv'
<1> DEFINE n == BatchSize'
<1>1. n \in Nat \ {0}
  BY TargetType DEF BatchSize, Target
<1>2. /\ gamefile' \in [1 .. n -> Tasks] /\ calls' = calls + 1 /\ phase' = "turn"
      /\ is_done' = [i \in 1 .. n |-> FALSE]
      /\ total_batch_list' = [i \in 1 .. n |-> <<>>] /\ total_infos' = total_batch_list'
      /\ episode_rewards' = [i \in 1 .. n |-> 0] /\ episode_lengths' = episode_rewards'
  BY DEF VanillaReset
<1> HIDE DEF n
<1>3. <<>> \in Seq(TurnRows) /\ <<>> \in Seq(TurnInfos) /\ Len(<<>>) = 0
  OBVIOUS
<1>4. /\ is_done' \in [1 .. n -> BOOLEAN] /\ episode_rewards' \in [1 .. n -> {0, 1}]
      /\ episode_lengths' \in [1 .. n -> Nat]
  BY <1>2
<1>5. total_batch_list' \in [1 .. n -> Seq(TurnRows)] /\ total_infos' \in [1 .. n -> Seq(TurnInfos)]
  BY <1>2, <1>3
<1>6. ASSUME NEW i \in 1 .. n
      PROVE  EpisodeInv(calls', i, total_batch_list'[i], total_infos'[i], episode_rewards'[i],
                        episode_lengths'[i], is_done'[i])
  <2>1. /\ total_batch_list'[i] = <<>> /\ total_infos'[i] = <<>> /\ episode_rewards'[i] = 0
        /\ episode_lengths'[i] = 0 /\ is_done'[i] = FALSE
    BY <1>2
  <2>2. EpisodeInv(calls', i, <<>>, <<>>, 0, 0, FALSE)
    BY <1>3 DEF EpisodeInv
  <2> QED BY <2>1, <2>2
<1>7. calls' > 0
  BY <1>2 DEF VanillaInv
<1>8. Playing'
  BY <1>2, <1>4, <1>5, <1>6, <1>7 DEF Playing, n
<1> QED BY <1>2, <1>8 DEF VanillaInv

(* A turn. *)
LEMMA TurnKeeps ==
  ASSUME VanillaInv, VanillaTurn, is_train' = is_train PROVE VanillaInv'
<1> DEFINE n == BatchSize
<1>1. /\ Playing /\ n \in Nat \ {0} /\ calls \in Nat /\ n' = n
  BY TargetType DEF VanillaInv, VanillaTurn, BatchSize, Target
<1>2. Batch = 1 .. n
  BY <1>1 DEF Playing, Batch
<1>3. PICK answers \in [1 .. n -> Answers] :
       /\ \A i \in 1 .. n : answers[i] \in GameAnswers(i)
       /\ episode_rewards' = [i \in 1 .. n |-> episode_rewards[i] + Earned(i, answers[i])]
       /\ total_batch_list' =
            [i \in 1 .. n |-> Append(total_batch_list[i], Row(i, answers[i]))]
       /\ total_infos' = [i \in 1 .. n |->
            Append(total_infos[i], [won |-> answers[i].won, gamefile |-> gamefile[i]])]
       /\ is_done' = [i \in 1 .. n |-> is_done[i] \/ answers[i].done]
  BY <1>2 DEF VanillaTurn
<1>4. /\ episode_lengths' = [i \in 1 .. n |-> episode_lengths[i] + IF is_done[i] THEN 0 ELSE 1]
      /\ phase' \in {"evaluate", "turn"} /\ calls' = calls /\ gamefile' = gamefile
  BY <1>2 DEF VanillaTurn
<1>5. ASSUME NEW i \in 1 .. n
      PROVE  /\ EpisodeInv(calls, i, total_batch_list'[i], total_infos'[i], episode_rewards'[i],
                           episode_lengths'[i], is_done'[i])
             /\ Len(total_batch_list'[i]) > 0
  <2> DEFINE won  == answers[i].won
             done == answers[i].done
             rows == total_batch_list[i]
             over == is_done[i]
             row  == Row(i, answers[i])
             info == [won |-> won, gamefile |-> gamefile[i]]
  <2>1. won \in BOOLEAN /\ done \in BOOLEAN /\ gamefile[i] \in Tasks /\ i \in Nat \ {0}
    BY <1>1, <1>3 DEF Answers, Playing
  <2>2. IF over THEN done ELSE won => done
    BY <1>3 DEF GameAnswers, Answers
  <2>3. EpisodeInv(calls, i, rows, total_infos[i], episode_rewards[i], episode_lengths[i], over)
    BY <1>1 DEF Playing
  <2>4. row = [uid |-> UidOf(calls, i), traj_uid |-> TrajUidOf(calls, i),
               rewards |-> IF won THEN 1 ELSE 0, active_masks |-> ~over]
    BY DEF Row
  <2>5. EpisodeInv(calls, i, Append(rows, row), Append(total_infos[i], info),
                   episode_rewards[i] + (IF ~over /\ won THEN 1 ELSE 0),
                   episode_lengths[i] + (IF over THEN 0 ELSE 1), over \/ done)
    <3> HIDE DEF won, done, rows, over, row
    <3> QED BY <1>1, <2>1, <2>2, <2>3, <2>4, EpisodeGrows
  <2>6. /\ total_batch_list'[i] = Append(rows, row) /\ total_infos'[i] = Append(total_infos[i], info)
        /\ episode_rewards'[i] = episode_rewards[i] + (IF ~over /\ won THEN 1 ELSE 0)
        /\ episode_lengths'[i] = episode_lengths[i] + (IF over THEN 0 ELSE 1)
        /\ is_done'[i] = (over \/ done)
    BY <1>3, <1>4 DEF Earned
  <2>7. Len(Append(rows, row)) > 0
    <3>1. rows \in Seq(TurnRows)
      BY <2>3 DEF EpisodeInv
    <3> HIDE DEF rows, row
    <3> QED BY <3>1
  <2> HIDE DEF won, done, rows, over, row, info
  <2> QED BY <2>5, <2>6, <2>7
<1>6. /\ total_batch_list' \in [1 .. n -> Seq(TurnRows)]
      /\ total_infos' \in [1 .. n -> Seq(TurnInfos)]
      /\ episode_rewards' \in [1 .. n -> {0, 1}] /\ episode_lengths' \in [1 .. n -> Nat]
      /\ is_done' \in [1 .. n -> BOOLEAN]
  <2>1. \A i \in 1 .. n :
          /\ total_batch_list'[i] \in Seq(TurnRows) /\ total_infos'[i] \in Seq(TurnInfos)
          /\ episode_rewards'[i] \in {0, 1} /\ episode_lengths'[i] \in Nat
          /\ is_done'[i] \in BOOLEAN
    BY <1>5 DEF EpisodeInv
  <2> QED BY <1>3, <1>4, <2>1
<1>7. Playing'
  BY <1>1, <1>4, <1>5, <1>6 DEF Playing
<1> QED BY <1>1, <1>4, <1>5, <1>7 DEF VanillaInv

(* The verdicts: an episode is a success if and only if it was rewarded. *)
LEMMA EvaluateKeeps ==
  ASSUME VanillaInv, VanillaEvaluate, is_train' = is_train PROVE VanillaInv'
<1> DEFINE n == BatchSize
<1>1. /\ Playing /\ n \in Nat \ {0} /\ n' = n
      /\ \A i \in 1 .. n : Len(total_batch_list[i]) > 0
  BY TargetType DEF VanillaInv, VanillaEvaluate, BatchSize, Target
<1>2. Batch = 1 .. n
  BY <1>1 DEF Playing, Batch
<1>3. /\ "success_rate" \in DOMAIN success'
      /\ success'["success_rate"] = Verdicts([i \in 1 .. n |-> i])
  BY <1>2 DEF VanillaEvaluate
<1>4. success'["success_rate"] = [k \in 1 .. n |-> LastInfo(k).won]
  BY <1>3 DEF Verdicts
<1>5. ASSUME NEW i \in 1 .. n
      PROVE  LastInfo(i).won \in BOOLEAN /\ (LastInfo(i).won <=> episode_rewards[i] = 1)
  <2>1. EpisodeInv(calls, i, total_batch_list[i], total_infos[i], episode_rewards[i],
                   episode_lengths[i], is_done[i])
    BY <1>1 DEF Playing
  <2>2. LastInfo(i) = total_infos[i][episode_lengths[i]]
    BY <1>1, <2>1, LastActive DEF LastInfo
  <2>3. episode_lengths[i] \in 1 .. Len(total_infos[i]) /\ total_infos[i] \in Seq(TurnInfos)
    BY <1>1, <2>1, LastActive DEF EpisodeInv
  <2>4. LastInfo(i) \in TurnInfos
    BY <2>2, <2>3, ElementOfSeq
  <2>5. LastInfo(i).won <=> episode_rewards[i] = 1
    <3>1. total_infos[i][episode_lengths[i]].won <=> episode_rewards[i] = 1
      <4> DEFINE l == episode_lengths[i]
      <4>1. l \in 1 .. Len(total_batch_list[i])
        BY <1>1, <2>1, LastActive
      <4>2. RowInv(calls, i, total_batch_list[i][l], total_infos[i][l], l, l, episode_rewards[i])
        BY <2>1, <4>1 DEF EpisodeInv
      <4>3. l = l => total_batch_list[i][l].rewards = episode_rewards[i]
        BY <4>2 DEF RowInv
      <4>4. total_infos[i][l].won <=> total_batch_list[i][l].rewards = 1
        BY <4>2 DEF RowInv
      <4> QED BY <4>3, <4>4
    <3> QED BY <2>2, <3>1
  <2> QED BY <2>4, <2>5 DEF TurnInfos
<1>6. Judged'
  <2>1. success'["success_rate"] \in [1 .. n -> BOOLEAN]
    BY <1>4, <1>5
  <2>2. \A i \in 1 .. n : success'["success_rate"][i] <=> episode_rewards'[i] = 1
    BY <1>4, <1>5 DEF VanillaEvaluate
  <2> QED BY <1>1, <1>3, <2>1, <2>2 DEF Judged
<1>7. Playing'
  BY <1>1 DEF Playing, VanillaEvaluate
<1> QED BY <1>1, <1>6, <1>7 DEF VanillaInv, VanillaEvaluate

-----------------------------------------------------------------------------
(* What filter_group_data keeps.                                             *)

(* The indices are whole groups of the batch, the groups g[1], g[2], ...     *)
Kept(indices, m, g) ==
  /\ m \in 0 .. TrainBatchSize /\ g \in [1 .. m -> 1 .. TrainBatchSize]
  /\ indices \in Seq(1 .. Target) /\ Len(indices) = m * GroupSize
  /\ \A b, c \in 1 .. m : b < c => g[b] < g[c]
  /\ \A b \in 1 .. m, j \in 1 .. GroupSize :
       indices[Place(b, j, GroupSize)] = Place(g[b], j, GroupSize)

(* Everything is kept of the last try, of the others the groups that differ. *)
LEMMA KeepIndicesKept ==
  ASSUME Batch = 1 .. Target
  PROVE  \E m, g : /\ Kept(KeepIndices, m, g)
                   /\ LastTry => m = TrainBatchSize
                   /\ ~LastTry => \A b \in 1 .. m : Informative(g[b] - 1)
<1>1. Target \in Nat \ {0} /\ Target = TrainBatchSize * GroupSize
  BY TargetType DEF Target
<1>2. \A g \in 1 .. TrainBatchSize, j \in 1 .. GroupSize :
        Place(g, j, GroupSize) \in 1 .. Target
  BY <1>1, PlaceBounds
<1>3. CASE LastTry
  <2> DEFINE K == [i \in 1 .. Target |-> i]
             g == [b \in 1 .. TrainBatchSize |-> b]
  <2>1. KeepIndices = K
    BY <1>3 DEF KeepIndices
  <2>2. K \in Seq(1 .. Target) /\ Len(K) = Target
    BY <1>1
  <2>3. \A b \in 1 .. TrainBatchSize, j \in 1 .. GroupSize :
          K[Place(b, j, GroupSize)] = Place(g[b], j, GroupSize)
    BY <1>2
  <2>4. /\ g \in [1 .. TrainBatchSize -> 1 .. TrainBatchSize]
        /\ \A b, c \in 1 .. TrainBatchSize : b < c => g[b] < g[c]
    OBVIOUS
  <2>5. TrainBatchSize \in 0 .. TrainBatchSize
    OBVIOUS
  <2> HIDE DEF K, g
  <2>6. Kept(K, TrainBatchSize, g)
    BY <1>1, <2>2, <2>3, <2>4, <2>5 DEF Kept
  <2> QED BY <1>3, <2>1, <2>6
<1>4. CASE ~LastTry
  <2> DEFINE S == 1 .. Target
             n == TrainBatchSize
             seqs == [g \in 1 .. n |-> IF Informative(g - 1) THEN GroupIndices(g - 1) ELSE <<>>]
  <2>1. KeepIndices = FlattenSeq(seqs)
    BY <1>4 DEF KeepIndices
  <2>2. ASSUME NEW g \in 1 .. n
        PROVE  /\ GroupIndices(g - 1) \in Seq(S) /\ Len(GroupIndices(g - 1)) = GroupSize
               /\ \A j \in 1 .. GroupSize : GroupIndices(g - 1)[j] = Place(g, j, GroupSize)
    <3> DEFINE group == [j \in 1 .. GroupSize |-> Place(g, j, GroupSize)]
    <3>1. GroupIndices(g - 1) = group
      BY DEF GroupIndices, Place
    <3>2. \A j \in 1 .. GroupSize : Place(g, j, GroupSize) \in S
      BY <1>2
    <3>3. group \in Seq(S) /\ Len(group) = GroupSize
      BY <3>2
    <3> QED BY <3>1, <3>3
  <2>3. ASSUME NEW g \in 1 .. n
        PROVE  /\ seqs[g] \in Seq(S) /\ Len(seqs[g]) \in {0, GroupSize}
               /\ Len(seqs[g]) = GroupSize =>
                    /\ Informative(g - 1)
                    /\ \A j \in 1 .. GroupSize : seqs[g][j] = Place(g, j, GroupSize)
    <3>1. CASE Informative(g - 1)
      <4>1. seqs[g] = GroupIndices(g - 1)
        BY <3>1
      <4> HIDE DEF seqs
      <4> QED BY <2>2, <3>1, <4>1
    <3>2. CASE ~Informative(g - 1)
      <4>1. seqs[g] = <<>>
        BY <3>2
      <4>2. <<>> \in Seq(S) /\ Len(<<>>) = 0 /\ GroupSize # 0
        OBVIOUS
      <4> HIDE DEF seqs
      <4> QED BY <4>1, <4>2
    <3> QED BY <3>1, <3>2
  <2>4. seqs \in [1 .. n -> Seq(S)]
    BY <2>3
  <2> HIDE DEF seqs, S
  <2>5. FlattenSeq(seqs) \in Seq(S) /\ InBlocks(FlattenSeq(seqs), GroupSize, n, seqs)
    BY <2>3, <2>4, FlattenBlocks
  <2>6. PICK m \in 0 .. n : \E g \in [1 .. m -> 1 .. n] :
          MadeOf(FlattenSeq(seqs), GroupSize, m, g, seqs)
    BY <2>5 DEF InBlocks
  <2>7. PICK g \in [1 .. m -> 1 .. n] : MadeOf(FlattenSeq(seqs), GroupSize, m, g, seqs)
    BY <2>6
  <2>8. ASSUME NEW b \in 1 .. m
        PROVE  /\ Informative(g[b] - 1)
               /\ \A j \in 1 .. GroupSize :
                    FlattenSeq(seqs)[Place(b, j, GroupSize)] = Place(g[b], j, GroupSize)
    <3>1. g[b] \in 1 .. n
      OBVIOUS
    <3>2. /\ Len(seqs[g[b]]) = GroupSize
          /\ \A j \in 1 .. GroupSize :
               FlattenSeq(seqs)[Place(b, j, GroupSize)] = seqs[g[b]][j]
      BY <2>7 DEF MadeOf
    <3> QED BY <2>3, <3>1, <3>2
  <2>9. Len(FlattenSeq(seqs)) = m * GroupSize /\ \A b, c \in 1 .. m : b < c => g[b] < g[c]
    BY <2>7 DEF MadeOf
  <2>10. Kept(KeepIndices, m, g)
    BY <2>1, <2>5, <2>8, <2>9 DEF Kept, S
  <2> QED BY <1>4, <2>8, <2>10
<1> QED BY <1>3, <1>4

(* No env is kept twice. *)
LEMMA KeptOnce ==
  ASSUME NEW indices, NEW m, NEW g, Kept(indices, m, g),
         NEW k \in 1 .. Len(indices), NEW l \in 1 .. Len(indices), indices[k] = indices[l]
  PROVE  k = l
<1>1. m \in Nat /\ k \in 1 .. (m * GroupSize) /\ l \in 1 .. (m * GroupSize)
  BY DEF Kept
<1>2. PICK b \in 1 .. m, i \in 1 .. GroupSize : k = Place(b, i, GroupSize)
  BY ONLY <1>1, GroupSizeAssumption, PlaceExists DEF GroupSizeAssumption
<1>3. PICK c \in 1 .. m, j \in 1 .. GroupSize : l = Place(c, j, GroupSize)
  BY ONLY <1>1, GroupSizeAssumption, PlaceExists DEF GroupSizeAssumption
<1>4. /\ g[b] \in Nat \ {0} /\ g[c] \in Nat \ {0}
      /\ b < c => g[b] < g[c]
      /\ c < b => g[c] < g[b]
  BY DEF Kept
<1>5. Place(g[b], i, GroupSize) = Place(g[c], j, GroupSize)
  BY <1>2, <1>3 DEF Kept
<1>6. g[b] = g[c] /\ i = j
  BY <1>4, <1>5, PlaceUnique, SMTT(30)
<1>7. b = c
  BY <1>1, <1>4, <1>6
<1> QED BY <1>2, <1>3, <1>6, <1>7

-----------------------------------------------------------------------------
(* The lists that are merged.                                                *)

(* What the lists say of one trajectory. *)
Entry(rows, reward, length, uid, won) ==
  /\ length \in 1 .. Len(rows) /\ reward \in {0, 1}
  /\ \A r \in 1 .. Len(rows) : /\ rows[r].traj_uid = uid
                               /\ rows[r].active_masks <=> r <= length
                               /\ r < length => rows[r].rewards = 0
                               /\ r = length => rows[r].rewards = reward
  /\ won <=> reward = 1

(* The lists speak of the same trajectories in the same order. *)
Aligned(T, R, L, U, W) ==
  /\ T \in Seq(Seq(TurnRows)) /\ R \in Seq({0, 1}) /\ L \in Seq(Nat)
  /\ U \in Seq(Nat \X Nat) /\ W \in Seq(BOOLEAN)
  /\ Len(R) = Len(T) /\ Len(L) = Len(T) /\ Len(U) = Len(T) /\ Len(W) = Len(T)
  /\ \A k \in 1 .. Len(T) : Entry(T[k], R[k], L[k], U[k], W[k])

(* The id of group b of the trajectories. *)
GroupUid(T, b) == T[Place(b, 1, GroupSize)][1].uid

(* The trajectories come in m groups of GroupSize; the groups have different *)
(* ids, the trajectories too, all given out by the calls from first to last. *)
Grouped(T, U, m, first, last) ==
  /\ T \in Seq(Seq(TurnRows)) /\ U \in Seq(Nat \X Nat) /\ m \in Nat
  /\ Len(T) = m * GroupSize /\ Len(U) = Len(T)
  /\ \A b, c \in 1 .. m : GroupUid(T, b) = GroupUid(T, c) => b = c
  /\ \A b \in 1 .. m : GroupUid(T, b)[1] \in first .. last
  /\ \A b \in 1 .. m, j \in 1 .. GroupSize : T[Place(b, j, GroupSize)][1].uid = GroupUid(T, b)
  /\ \A k, l \in 1 .. Len(U) : U[k] = U[l] => k = l
  /\ \A k \in 1 .. Len(U) : U[k][1] \in first .. last

(* The rewards of a group differ. *)
Differs(R, b) ==
  \E i, j \in 1 .. GroupSize : R[Place(b, i, GroupSize)] # R[Place(b, j, GroupSize)]

(* The length and the reward of an entry count its rows. *)
LEMMA EntryCounts ==
  ASSUME NEW rows, NEW reward, NEW length, NEW uid, NEW won,
         rows \in Seq(TurnRows), Entry(rows, reward, length, uid, won)
  PROVE  /\ length = Cardinality(Active(rows))
         /\ reward = Cardinality({r \in Active(rows) : rows[r].rewards = 1})
<1> DEFINE Paid == {r \in Active(rows) : rows[r].rewards = 1}
<1>1. length \in Nat \ {0} /\ length \in 1 .. Len(rows) /\ reward \in {0, 1} /\ DOMAIN rows = 1 .. Len(rows)
      /\ Len(rows) \in Nat
  BY DEF Entry
<1>2. \A r \in 1 .. Len(rows) : rows[r].active_masks <=> r <= length
  BY DEF Entry
<1>3. Active(rows) = 1 .. length
  BY <1>1, <1>2 DEF Active
<1>4. Cardinality(1 .. length) = length
  <2>1. Cardinality(1 .. length) = IF 1 > length THEN 0 ELSE length - 1 + 1
    BY <1>1, FS_Interval
  <2> QED BY <1>1, <2>1
<1>5. \A r \in 1 .. length : rows[r].rewards = IF r = length THEN reward ELSE 0
  BY <1>1 DEF Entry
<1>6. Paid = IF reward = 1 THEN {length} ELSE {}
  BY <1>1, <1>3, <1>5
<1>7. Cardinality({length}) = 1 /\ Cardinality({}) = 0
  BY FS_Singleton, FS_EmptySet
<1>8. Cardinality(Paid) = reward
  <2> HIDE DEF Paid
  <2> QED BY <1>1, <1>6, <1>7
<1> QED BY <1>3, <1>4, <1>8

(* Aligned lists stay so when aligned lists are concatenated to them. *)
LEMMA AlignedConcat ==
  ASSUME NEW T1, NEW R1, NEW L1, NEW U1, NEW W1, Aligned(T1, R1, L1, U1, W1),
         NEW T2, NEW R2, NEW L2, NEW U2, NEW W2, Aligned(T2, R2, L2, U2, W2)
  PROVE  Aligned(T1 \o T2, R1 \o R2, L1 \o L2, U1 \o U2, W1 \o W2)
<1> DEFINE n == Len(T1)
           N == Len(T2)
           Rows == Seq(TurnRows)
           Bits == {0, 1}
           Lens == Nat
           Uids == Nat \X Nat
           Wons == BOOLEAN
           T == T1 \o T2
           R == R1 \o R2
           L == L1 \o L2
           U == U1 \o U2
           W == W1 \o W2
           Good(k) == Entry(T[k], R[k], L[k], U[k], W[k])
<1>1. n \in Nat /\ N \in Nat
  BY DEF Aligned
<1>2. T1 \in Seq(Rows) /\ T2 \in Seq(Rows) /\ Len(T1) = n /\ Len(T2) = N
  BY DEF Aligned
<1>3. R1 \in Seq(Bits) /\ R2 \in Seq(Bits) /\ Len(R1) = n /\ Len(R2) = N
  BY DEF Aligned
<1>4. L1 \in Seq(Lens) /\ L2 \in Seq(Lens) /\ Len(L1) = n /\ Len(L2) = N
  BY DEF Aligned
<1>5. U1 \in Seq(Uids) /\ U2 \in Seq(Uids) /\ Len(U1) = n /\ Len(U2) = N
  BY DEF Aligned
<1>6. W1 \in Seq(Wons) /\ W2 \in Seq(Wons) /\ Len(W1) = n /\ Len(W2) = N
  BY DEF Aligned
<1>7. \A k \in 1 .. n : Entry(T1[k], R1[k], L1[k], U1[k], W1[k])
  BY DEF Aligned
<1>8. \A k \in 1 .. N : Entry(T2[k], R2[k], L2[k], U2[k], W2[k])
  BY DEF Aligned
<1> HIDE DEF n, N, Rows, Bits, Lens, Uids, Wons
<1>9. /\ T \in Seq(Rows) /\ Len(T) = n + N
      /\ \A p \in 1 .. (n + N) : T[p] = IF p <= n THEN T1[p] ELSE T2[p - n]
  BY <1>1, <1>2, ConcatElements
<1>10. /\ R \in Seq(Bits) /\ Len(R) = n + N
      /\ \A p \in 1 .. (n + N) : R[p] = IF p <= n THEN R1[p] ELSE R2[p - n]
  BY <1>1, <1>3, ConcatElements
<1>11. /\ L \in Seq(Lens) /\ Len(L) = n + N
      /\ \A p \in 1 .. (n + N) : L[p] = IF p <= n THEN L1[p] ELSE L2[p - n]
  BY <1>1, <1>4, ConcatElements
<1>12. /\ U \in Seq(Uids) /\ Len(U) = n + N
      /\ \A p \in 1 .. (n + N) : U[p] = IF p <= n THEN U1[p] ELSE U2[p - n]
  BY <1>1, <1>5, ConcatElements
<1>13. /\ W \in Seq(Wons) /\ Len(W) = n + N
      /\ \A p \in 1 .. (n + N) : W[p] = IF p <= n THEN W1[p] ELSE W2[p - n]
  BY <1>1, <1>6, ConcatElements
<1> HIDE DEF T, R, L, U, W
<1>14. ASSUME NEW k \in 1 .. (n + N) PROVE Good(k)
  <2>1. CASE k <= n
    <3>1. k \in 1 .. n
      BY <1>1, <2>1
    <3>2. T[k] = T1[k] /\ R[k] = R1[k] /\ L[k] = L1[k] /\ U[k] = U1[k] /\ W[k] = W1[k]
      BY <1>9, <1>10, <1>11, <1>12, <1>13, <2>1
    <3> QED BY <1>7, <3>1, <3>2
  <2>2. CASE ~(k <= n)
    <3> DEFINE q == k - n
    <3>1. q \in 1 .. N
      BY <1>1, <2>2
    <3>2. T[k] = T2[q] /\ R[k] = R2[q] /\ L[k] = L2[q] /\ U[k] = U2[q] /\ W[k] = W2[q]
      BY <1>9, <1>10, <1>11, <1>12, <1>13, <2>2
    <3> HIDE DEF q
    <3> QED BY <1>8, <3>1, <3>2
  <2> QED BY <2>1, <2>2
<1> HIDE DEF Good
<1>15. \A k \in 1 .. Len(T) : Entry(T[k], R[k], L[k], U[k], W[k])
  BY <1>9, <1>14 DEF Good
<1>16. Aligned(T, R, L, U, W)
  BY <1>9, <1>10, <1>11, <1>12, <1>13, <1>15 DEF Aligned, Rows, Bits, Lens, Uids, Wons
<1> QED BY <1>16 DEF T, R, L, U, W

(* A list of m groups. *)
InGroups(s, m) == m \in Nat /\ Len(s) = m * GroupSize

(* The groups of q are those of s, then those of t. *)
GroupsOfBoth(q, s, t, m, k) ==
  /\ InGroups(q, m + k)
  /\ \A b \in 1 .. m, j \in 1 .. GroupSize : q[Place(b, j, GroupSize)] = s[Place(b, j, GroupSize)]
  /\ \A c \in 1 .. k, j \in 1 .. GroupSize :
       q[Place(m + c, j, GroupSize)] = t[Place(c, j, GroupSize)]

(* The groups of a concatenation of whole groups. *)
LEMMA PlaceConcat ==
  ASSUME NEW S, NEW s \in Seq(S), NEW t \in Seq(S), NEW m, NEW k, InGroups(s, m), InGroups(t, k)
  PROVE  GroupsOfBoth(s \o t, s, t, m, k)
<1> DEFINE q == s \o t
           n == m * GroupSize
           N == k * GroupSize
<1> USE DEF InGroups
<1>1. n \in Nat /\ N \in Nat /\ n + N = (m + k) * GroupSize /\ m + k \in Nat
  BY ProductMonotonic
<1>2. /\ q \in Seq(S) /\ Len(q) = n + N
      /\ \A p \in 1 .. (n + N) : q[p] = IF p <= n THEN s[p] ELSE t[p - n]
  <2>1. Len(s) = n /\ Len(t) = N
    OBVIOUS
  <2> HIDE DEF n, N
  <2> QED BY <2>1, ConcatElements
<1>3. ASSUME NEW b \in 1 .. m, NEW j \in 1 .. GroupSize
      PROVE  q[Place(b, j, GroupSize)] = s[Place(b, j, GroupSize)]
  <2> DEFINE p == Place(b, j, GroupSize)
  <2>1. p \in 1 .. n
    BY PlaceBounds
  <2> HIDE DEF p, q, n, N
  <2>2. p \in 1 .. (n + N) /\ p <= n
    BY <1>1, <2>1
  <2>3. q[p] = s[p]
    BY <1>2, <2>2
  <2> QED BY <2>3 DEF p
<1>4. ASSUME NEW c \in 1 .. k, NEW j \in 1 .. GroupSize
      PROVE  q[Place(m + c, j, GroupSize)] = t[Place(c, j, GroupSize)]
  <2> DEFINE p == Place(c, j, GroupSize)
             r == Place(m + c, j, GroupSize)
  <2>1. p \in 1 .. N
    BY PlaceBounds
  <2>2. r = n + p
    <3>1. c \in Nat \ {0} /\ j \in Nat /\ GroupSize \in Nat
      OBVIOUS
    <3>2. m * GroupSize + ((c - 1) * GroupSize + j) = ((m + c) - 1) * GroupSize + j
      BY <3>1
    <3> QED BY <3>2 DEF Place
  <2> HIDE DEF p, r, q, n, N
  <2>3. r \in 1 .. (n + N) /\ ~(r <= n) /\ r - n = p
    BY <1>1, <2>1, <2>2
  <2>4. q[r] = t[p]
    BY <1>2, <2>3
  <2> QED BY <2>4 DEF p, r
<1> HIDE DEF q
<1>5. InGroups(q, m + k)
  BY <1>1, <1>2
<1>6. \A b \in 1 .. m, j \in 1 .. GroupSize : q[Place(b, j, GroupSize)] = s[Place(b, j, GroupSize)]
  BY <1>3
<1>7. \A c \in 1 .. k, j \in 1 .. GroupSize :
        q[Place(m + c, j, GroupSize)] = t[Place(c, j, GroupSize)]
  BY <1>4
<1>8. GroupsOfBoth(q, s, t, m, k)
  BY <1>5, <1>6, <1>7 DEF GroupsOfBoth
<1> QED BY <1>8 DEF q

(* The groups of one more call go behind those of the calls before. *)
LEMMA GroupedConcat ==
  ASSUME NEW call \in Nat \ {0}, NEW T1, NEW U1, NEW m1, Grouped(T1, U1, m1, 1, call - 1),
         NEW T2, NEW U2, NEW m2, Grouped(T2, U2, m2, call, call)
  PROVE  Grouped(T1 \o T2, U1 \o U2, m1 + m2, 1, call)
<1> DEFINE T == T1 \o T2
           U == U1 \o U2
           n == Len(U1)
           N == Len(U2)
           m == m1 + m2
           of(b) == IF b <= m1 THEN GroupUid(T1, b) ELSE GroupUid(T2, b - m1)
           A == Seq(TurnRows)
           B == Nat \X Nat
<1>1. /\ Len(T1) = m1 * GroupSize /\ Len(T2) = m2 * GroupSize /\ m1 \in Nat /\ m2 \in Nat
      /\ n = m1 * GroupSize /\ N = m2 * GroupSize /\ n \in Nat /\ N \in Nat
  BY ProductMonotonic DEF Grouped
<1>2. T1 \in Seq(A) /\ T2 \in Seq(A)
  BY DEF Grouped
<1>3. U1 \in Seq(B) /\ U2 \in Seq(B)
  BY DEF Grouped
<1>4. m1 \in Nat /\ m2 \in Nat
  BY DEF Grouped
<1> USE <1>4
<1> HIDE DEF A, B
<1>5. T \in Seq(A) /\ m \in Nat
  BY <1>2
<1>6. /\ Len(T) = m * GroupSize
      /\ \A b \in 1 .. m1, j \in 1 .. GroupSize :
           T[Place(b, j, GroupSize)] = T1[Place(b, j, GroupSize)]
      /\ \A c \in 1 .. m2, j \in 1 .. GroupSize :
           T[Place(m1 + c, j, GroupSize)] = T2[Place(c, j, GroupSize)]
  <2>1. InGroups(T1, m1) /\ InGroups(T2, m2)
    BY <1>1 DEF InGroups
  <2>2. GroupsOfBoth(T1 \o T2, T1, T2, m1, m2)
    BY <1>2, <2>1, PlaceConcat
  <2> HIDE DEF T
  <2>3. GroupsOfBoth(T, T1, T2, m1, m2)
    BY <2>2 DEF T
  <2> QED BY <2>3 DEF GroupsOfBoth, InGroups
<1>7. /\ U \in Seq(B) /\ Len(U) = n + N
      /\ \A p \in 1 .. (n + N) : U[p] = IF p <= n THEN U1[p] ELSE U2[p - n]
  <2>1. Len(U1) = n /\ Len(U2) = N
    OBVIOUS
  <2>2. n \in Nat /\ N \in Nat
    BY <1>1
  <2> HIDE DEF n, N
  <2> QED BY <1>3, <2>1, <2>2, ConcatElements
<1>8. n + N = m * GroupSize
  BY <1>1 DEF n, N
<1>9. /\ \A b \in 1 .. m1 : GroupUid(T1, b)[1] \in 1 .. (call - 1)
      /\ \A b, c \in 1 .. m1 : GroupUid(T1, b) = GroupUid(T1, c) => b = c
      /\ \A b \in 1 .. m1, j \in 1 .. GroupSize : T1[Place(b, j, GroupSize)][1].uid = GroupUid(T1, b)
      /\ \A p, q \in 1 .. n : U1[p] = U1[q] => p = q
      /\ \A p \in 1 .. n : U1[p][1] \in 1 .. (call - 1)
  BY DEF Grouped
<1>10. /\ \A b \in 1 .. m2 : GroupUid(T2, b)[1] \in call .. call
       /\ \A b, c \in 1 .. m2 : GroupUid(T2, b) = GroupUid(T2, c) => b = c
       /\ \A b \in 1 .. m2, j \in 1 .. GroupSize : T2[Place(b, j, GroupSize)][1].uid = GroupUid(T2, b)
       /\ \A p, q \in 1 .. N : U2[p] = U2[q] => p = q
       /\ \A p \in 1 .. N : U2[p][1] \in call .. call
  BY DEF Grouped
<1> HIDE DEF T, U, n, N
<1>11. \A b \in 1 .. m, j \in 1 .. GroupSize : T[Place(b, j, GroupSize)][1].uid = of(b)
  <2> SUFFICES ASSUME NEW b \in 1 .. m, NEW j \in 1 .. GroupSize
               PROVE  T[Place(b, j, GroupSize)][1].uid = of(b)
    OBVIOUS
  <2>1. CASE b <= m1
    <3>1. b \in 1 .. m1 /\ of(b) = GroupUid(T1, b)
      BY <2>1
    <3> HIDE DEF of
    <3> QED BY <1>6, <1>9, <3>1
  <2>2. CASE ~(b <= m1)
    <3> DEFINE c == b - m1
    <3>1. c \in 1 .. m2 /\ of(b) = GroupUid(T2, c) /\ b = m1 + c
      BY <2>2
    <3> HIDE DEF of, c
    <3>2. T[Place(m1 + c, j, GroupSize)] = T2[Place(c, j, GroupSize)]
      BY <1>6, <3>1
    <3>3. T2[Place(c, j, GroupSize)][1].uid = GroupUid(T2, c)
      BY <1>10, <3>1
    <3>4. Place(b, j, GroupSize) = Place(m1 + c, j, GroupSize)
      BY <3>1
    <3> QED BY <3>1, <3>2, <3>3, <3>4
  <2> QED BY <2>1, <2>2
<1>12. \A b \in 1 .. m : GroupUid(T, b) = of(b)
  <2> HIDE DEF of
  <2> QED BY <1>11 DEF GroupUid
<1>13. \A b \in 1 .. m : of(b)[1] \in 1 .. call /\ (of(b)[1] < call <=> b <= m1)
  <2> SUFFICES ASSUME NEW b \in 1 .. m
               PROVE  of(b)[1] \in 1 .. call /\ (of(b)[1] < call <=> b <= m1)
    OBVIOUS
  <2>1. CASE b <= m1
    <3>1. b \in 1 .. m1 /\ of(b) = GroupUid(T1, b)
      BY <2>1
    <3>2. of(b)[1] \in 1 .. (call - 1)
      BY <1>9, <3>1
    <3> HIDE DEF of
    <3> QED BY <2>1, <3>2
  <2>2. CASE ~(b <= m1)
    <3> DEFINE c == b - m1
    <3>1. c \in 1 .. m2 /\ of(b) = GroupUid(T2, c)
      BY <2>2
    <3>2. of(b)[1] \in call .. call
      <4> HIDE DEF of, c
      <4> QED BY <1>10, <3>1
    <3> HIDE DEF of
    <3> QED BY <2>2, <3>2
  <2> QED BY <2>1, <2>2
<1>14. \A b, c \in 1 .. m : of(b) = of(c) => b = c
  <2> SUFFICES ASSUME NEW b \in 1 .. m, NEW c \in 1 .. m, of(b) = of(c) PROVE b = c
    OBVIOUS
  <2>1. b <= m1 <=> c <= m1
    <3> HIDE DEF of
    <3> QED BY <1>13
  <2>2. CASE b <= m1
    <3>1. b \in 1 .. m1 /\ c \in 1 .. m1 /\ GroupUid(T1, b) = GroupUid(T1, c)
      BY <2>1, <2>2
    <3> QED BY <1>9, <3>1
  <2>3. CASE ~(b <= m1)
    <3> DEFINE x == b - m1
               y == c - m1
    <3>1. x \in 1 .. m2 /\ y \in 1 .. m2 /\ GroupUid(T2, x) = GroupUid(T2, y)
      BY <2>1, <2>3
    <3>2. x = y
      <4> HIDE DEF x, y
      <4> QED BY <1>10, <3>1
    <3> QED BY <3>2
  <2> QED BY <2>2, <2>3
<1>15. \A p \in 1 .. (n + N) : U[p][1] \in 1 .. call /\ (U[p][1] < call <=> p <= n)
  <2> SUFFICES ASSUME NEW p \in 1 .. (n + N)
               PROVE  U[p][1] \in 1 .. call /\ (U[p][1] < call <=> p <= n)
    OBVIOUS
  <2>1. CASE p <= n
    <3>1. p \in 1 .. n /\ U[p] = U1[p]
      BY <1>1, <1>7, <2>1
    <3>2. U[p][1] \in 1 .. (call - 1)
      BY <1>9, <3>1
    <3> QED BY <2>1, <3>2
  <2>2. CASE ~(p <= n)
    <3> DEFINE q == p - n
    <3>1. q \in 1 .. N /\ U[p] = U2[q]
      BY <1>1, <1>7, <2>2
    <3>2. U[p][1] \in call .. call
      <4> HIDE DEF q
      <4> QED BY <1>10, <3>1
    <3> QED BY <2>2, <3>2
  <2> QED BY <2>1, <2>2
<1>16. \A p, q \in 1 .. (n + N) : U[p] = U[q] => p = q
  <2> SUFFICES ASSUME NEW p \in 1 .. (n + N), NEW q \in 1 .. (n + N), U[p] = U[q] PROVE p = q
    OBVIOUS
  <2>1. p <= n <=> q <= n
    BY <1>15
  <2>2. CASE p <= n
    <3>1. p \in 1 .. n /\ q \in 1 .. n /\ U1[p] = U1[q]
      BY <1>1, <1>7, <2>1, <2>2
    <3> QED BY <1>9, <3>1
  <2>3. CASE ~(p <= n)
    <3> DEFINE x == p - n
               y == q - n
    <3>1. x \in 1 .. N /\ y \in 1 .. N /\ U2[x] = U2[y]
      BY <1>1, <1>7, <2>1, <2>3
    <3>2. x = y
      <4> HIDE DEF x, y
      <4> QED BY <1>10, <3>1
    <3> QED BY <1>1, <3>2
  <2> QED BY <2>2, <2>3
<1> HIDE DEF m, of
<1>17. Len(U) = Len(T) /\ Len(U) = n + N
  BY <1>6, <1>7, <1>8
<1>18. Grouped(T, U, m, 1, call)
  <2>1. T \in Seq(Seq(TurnRows)) /\ U \in Seq(Nat \X Nat) /\ m \in Nat
    BY <1>7, <1>5 DEF A, B
  <2>2. /\ \A b, c \in 1 .. m : GroupUid(T, b) = GroupUid(T, c) => b = c
        /\ \A b \in 1 .. m : GroupUid(T, b)[1] \in 1 .. call
        /\ \A b \in 1 .. m, j \in 1 .. GroupSize :
             T[Place(b, j, GroupSize)][1].uid = GroupUid(T, b)
    BY <1>11, <1>12, <1>13, <1>14
  <2>3. /\ \A k, l \in 1 .. Len(U) : U[k] = U[l] => k = l
        /\ \A k \in 1 .. Len(U) : U[k][1] \in 1 .. call
    BY <1>15, <1>16, <1>17
  <2> QED BY <1>6, <1>17, <2>1, <2>2, <2>3 DEF Grouped
<1> QED BY <1>18 DEF T, U, m

-----------------------------------------------------------------------------
(* The invariant of dynamic sampling.                                        *)

(* Where the loop is, and how many batches it has tried. *)
ControlInv ==
  /\ status \in Statuses /\ status # "gather" /\ try_count \in 0 .. MaxNumGenBatches
  /\ status = "sampling" => is_train
  /\ status = "rolling" => phase # "idle"
  /\ status = "returned" => phase = "done"
  /\ status \notin {"sampling", "rolling", "returned"} => phase = "idle"
  /\ status = "sampling" /\ phase # "idle" => try_count > 0
  /\ total_success # <<>> => try_count > 0
  /\ status \in {"idle", "rolling", "returned"} =>
       /\ total_trajectories = <<>> /\ total_episode_rewards = <<>>
       /\ total_episode_lengths = <<>> /\ total_success = <<>> /\ total_traj_uid = <<>>

(* The verdicts on the episodes, per try. *)
TriedVerdicts == [t \in DOMAIN total_success |-> total_success[t]["success_rate"]]

ListsInv ==
  /\ total_episode_rewards \in Seq(Seq({0, 1})) /\ total_episode_lengths \in Seq(Seq(Nat))
  /\ total_traj_uid \in Seq(Seq(Nat \X Nat)) /\ TriedVerdicts \in Seq(Seq(BOOLEAN))
  /\ \E S : total_success \in Seq(S)
  /\ Aligned(total_trajectories, MergedRewards, MergedLengths, MergedTrajUid,
             MergedSuccess("success_rate"))

(* The calls whose groups have been merged. *)
MergedCalls == IF phase = "idle" THEN calls ELSE calls - 1

(* Only the groups of the last try need not teach anything. *)
Teaching(R, m) ==
  \A b \in 1 .. m : Differs(R, b) \/ (LastTry /\ phase = "idle" /\ b > m - TrainBatchSize)

GroupsInv ==
  \E m \in Nat : /\ Grouped(total_trajectories, MergedTrajUid, m, 1, MergedCalls)
                 /\ Teaching(MergedRewards, m)

(* How many trajectories there are. *)
EnoughInv ==
  /\ Len(total_trajectories) < 2 * Target
  /\ status = "sampling" /\ phase # "idle" => Len(total_trajectories) < Target
  /\ status = "sampling" /\ phase = "idle" /\ LastTry /\ MaxNumGenBatches > 0 =>
       Len(total_trajectories) >= Target
  /\ status \in {"key_error", "unbound_local"} => Len(total_trajectories) >= Target

SamplingInv ==
  VanillaInv /\ ControlInv /\ ListsInv /\ GroupsInv /\ EnoughInv /\ RowsMatchLengths

-----------------------------------------------------------------------------
(* What one try adds.                                                        *)

(* The elements of a list that are kept. *)
Listed(list, D, S)    == list \in [D -> S]
IndicesIn(indices, D) == indices \in Seq(D)

Filtered(q, list, indices, S) ==
  /\ q \in Seq(S) /\ Len(q) = Len(indices)
  /\ \A k \in 1 .. Len(indices) : q[k] = list[indices[k]]

LEMMA AtType ==
  ASSUME NEW D, NEW S, NEW list, NEW indices, Listed(list, D, S), IndicesIn(indices, D)
  PROVE  Filtered(At(list, indices), list, indices, S)
<1> USE DEF Listed, IndicesIn, Filtered
<1>1. DOMAIN indices = 1 .. Len(indices) /\ Len(indices) \in Nat
  OBVIOUS
<1>2. \A k \in 1 .. Len(indices) : indices[k] \in D
  OBVIOUS
<1>3. At(list, indices) = [k \in 1 .. Len(indices) |-> list[indices[k]]]
  BY <1>1 DEF At
<1>4. \A k \in 1 .. Len(indices) : list[indices[k]] \in S
  BY <1>2
<1> QED BY <1>1, <1>3, <1>4

(* The batch a try has played, when it is done. *)
LEMMA TryPlayed ==
  ASSUME VanillaInv, is_train, phase = "done"
  PROVE  /\ Playing /\ Judged /\ BatchSize = Target /\ Batch = 1 .. Target
         /\ calls \in Nat
         /\ \A i \in 1 .. Target : Len(total_batch_list[i]) > 0
BY DEF VanillaInv, BatchSize, Playing, Batch

(* The verdicts are filtered as the other lists are. *)
LEMMA VerdictsKept ==
  ASSUME VanillaInv, is_train, phase = "done"
  PROVE  KeptSuccess["success_rate"] = At(success["success_rate"], KeepIndices)
<1> DEFINE won == success["success_rate"]
<1>1. /\ "success_rate" \in DOMAIN success /\ won \in [1 .. Target -> BOOLEAN]
      /\ Batch = 1 .. Target /\ Target \in Nat
      /\ DOMAIN total_batch_list = 1 .. Target
  BY TryPlayed, TargetType DEF Judged, Playing
<1>2. CASE LastTry
  <2>1. KeptSuccess["success_rate"] = won
    BY <1>2 DEF KeptSuccess
  <2>2. KeepIndices = [i \in 1 .. Target |-> i]
    BY <1>1, <1>2 DEF KeepIndices
  <2>3. At(won, KeepIndices) = [k \in 1 .. Target |-> won[k]]
    BY <2>2 DEF At
  <2> HIDE DEF won
  <2>4. won = [k \in 1 .. Target |-> won[k]]
    BY <1>1
  <2> QED BY <2>1, <2>3, <2>4 DEF won
<1>3. CASE ~LastTry
  <2>1. Len(won) = Target /\ Len(total_batch_list) = Target
    BY <1>1
  <2>2. "success_rate" \in {k \in DOMAIN success : Len(success[k]) = Len(total_batch_list)}
    BY <1>1, <2>1
  <2> QED BY <1>3, <2>2 DEF KeptSuccess
<1> QED BY <1>2, <1>3

(* The rows of an env that has played say what the lists say of it. *)
LEMMA EntryOfEpisode ==
  ASSUME NEW call, NEW i, NEW rows, NEW infos, NEW reward, NEW length, NEW over,
         EpisodeInv(call, i, rows, infos, reward, length, over), Len(rows) > 0,
         NEW won, won <=> reward = 1
  PROVE  Entry(rows, reward, length, TrajUidOf(call, i), won) /\ rows[1].uid = UidOf(call, i)
<1>1. length \in 1 .. Len(rows) /\ reward \in {0, 1} /\ Len(rows) \in Nat /\ 1 \in 1 .. Len(rows)
  BY DEF EpisodeInv
<1>2. \A r \in 1 .. Len(rows) : RowInv(call, i, rows[r], infos[r], r, length, reward)
  BY DEF EpisodeInv
<1>3. \A r \in 1 .. Len(rows) : /\ rows[r].uid = UidOf(call, i)
                                /\ rows[r].traj_uid = TrajUidOf(call, i)
                                /\ rows[r].active_masks <=> r <= length
                                /\ r < length => rows[r].rewards = 0
                                /\ r = length => rows[r].rewards = reward
  BY <1>2 DEF RowInv
<1>4. Entry(rows, reward, length, TrajUidOf(call, i), won)
  BY <1>1, <1>3 DEF Entry
<1> QED BY <1>1, <1>3, <1>4

(* The lists a try adds speak of the same trajectories. *)
LEMMA TryAligned ==
  ASSUME VanillaInv, is_train, phase = "done", NEW m, NEW g, Kept(KeepIndices, m, g)
  PROVE  Aligned(At(total_batch_list, KeepIndices), At(episode_rewards, KeepIndices), KeptLengths,
                 At([i \in Batch |-> TrajUidOf(calls, i)], KeepIndices),
                 KeptSuccess["success_rate"])
<1> DEFINE K    == KeepIndices
           uids == [i \in Batch |-> TrajUidOf(calls, i)]
           won  == success["success_rate"]
           T    == At(total_batch_list, K)
           R    == At(episode_rewards, K)
           L    == At(episode_lengths, K)
           U    == At(uids, K)
           W    == At(won, K)
           n    == Target
           Rows == Seq(TurnRows)
           Bits == {0, 1}
           Uids == Nat \X Nat
           Wons == BOOLEAN
<1>1. /\ Playing /\ Judged /\ BatchSize = n /\ Batch = 1 .. n /\ n \in Nat /\ calls \in Nat
      /\ \A i \in 1 .. n : Len(total_batch_list[i]) > 0
  BY TryPlayed, TargetType
<1>2. /\ total_batch_list \in [1 .. n -> Rows] /\ episode_rewards \in [1 .. n -> Bits]
      /\ episode_lengths \in [1 .. n -> Nat] /\ won \in [1 .. n -> Wons]
  BY <1>1 DEF Playing, Judged
<1>3. uids \in [1 .. n -> Uids] /\ \A i \in 1 .. n : uids[i] = TrajUidOf(calls, i)
  BY <1>1 DEF TrajUidOf
<1> DEFINE D == 1 .. n
<1> HIDE DEF D
<1>4. IndicesIn(K, D)
  BY DEF Kept, D, IndicesIn
<1>5. \A k \in 1 .. Len(K) : K[k] \in D
  BY <1>4, ElementOfSeq DEF IndicesIn
<1>6. Listed(total_batch_list, D, Rows)
  BY <1>2 DEF D, Listed
<1>7. Listed(episode_rewards, D, Bits)
  BY <1>2 DEF D, Listed
<1>8. Listed(episode_lengths, D, Nat)
  BY <1>2 DEF D, Listed
<1>9. Listed(uids, D, Uids)
  BY <1>3 DEF D, Listed
<1>10. Listed(won, D, Wons)
  BY <1>2 DEF D, Listed
<1> HIDE DEF K, uids, won, n, Rows, Bits, Uids, Wons
<1>11. Filtered(T, total_batch_list, K, Rows)
  BY <1>4, <1>6, AtType
<1>12. Filtered(R, episode_rewards, K, Bits)
  BY <1>4, <1>7, AtType
<1>13. Filtered(L, episode_lengths, K, Nat)
  BY <1>4, <1>8, AtType
<1>14. Filtered(U, uids, K, Uids)
  BY <1>4, <1>9, AtType
<1>15. Filtered(W, won, K, Wons)
  BY <1>4, <1>10, AtType
<1> HIDE DEF T, R, L, U, W
<1>16. ASSUME NEW k \in 1 .. Len(K) PROVE Entry(T[k], R[k], L[k], U[k], W[k])
  <2> DEFINE i == K[k]
  <2>1. i \in 1 .. n
    BY <1>5 DEF D
  <2>2. /\ EpisodeInv(calls, i, total_batch_list[i], total_infos[i], episode_rewards[i],
                      episode_lengths[i], is_done[i])
        /\ Len(total_batch_list[i]) > 0
        /\ won[i] <=> episode_rewards[i] = 1
    BY <1>1, <2>1 DEF Playing, Judged, won
  <2>3. /\ T[k] = total_batch_list[i] /\ R[k] = episode_rewards[i] /\ L[k] = episode_lengths[i]
        /\ U[k] = TrajUidOf(calls, i)
    BY <1>3, <1>11, <1>12, <1>13, <1>14, <2>1 DEF Filtered
  <2>4. W[k] = won[i]
    BY <1>15 DEF Filtered
  <2> HIDE DEF i
  <2>5. Entry(total_batch_list[i], episode_rewards[i], episode_lengths[i], TrajUidOf(calls, i),
              won[i])
    BY <2>2, EntryOfEpisode
  <2> QED BY <2>3, <2>4, <2>5
<1>17. Aligned(T, R, L, U, W)
  <2>1. Len(T) = Len(K) /\ \A k \in 1 .. Len(T) : Entry(T[k], R[k], L[k], U[k], W[k])
    BY <1>11, <1>16 DEF Filtered
  <2>2. T \in Seq(Seq(TurnRows)) /\ R \in Seq({0, 1}) /\ U \in Seq(Nat \X Nat) /\ W \in Seq(BOOLEAN)
    BY <1>11, <1>12, <1>14, <1>15 DEF Filtered, Rows, Bits, Uids, Wons
  <2> QED BY <1>12, <1>13, <1>14, <1>15, <2>1, <2>2 DEF Filtered, Aligned
<1>18. KeptSuccess["success_rate"] = W /\ KeptLengths = L
  BY VerdictsKept DEF W, L, K, won, KeptLengths
<1> QED BY <1>17, <1>18 DEF T, R, U, K, uids

(* The groups a try adds are groups of its call. *)
LEMMA TryGrouped ==
  ASSUME VanillaInv, is_train, phase = "done", NEW m, NEW g, Kept(KeepIndices, m, g)
  PROVE  /\ Grouped(At(total_batch_list, KeepIndices),
                    At([i \in Batch |-> TrajUidOf(calls, i)], KeepIndices), m, calls, calls)
         /\ ~LastTry /\ (\A b \in 1 .. m : Informative(g[b] - 1)) =>
              \A b \in 1 .. m : Differs(At(episode_rewards, KeepIndices), b)
<1> DEFINE K    == KeepIndices
           uids == [i \in Batch |-> TrajUidOf(calls, i)]
           T    == At(total_batch_list, K)
           R    == At(episode_rewards, K)
           U    == At(uids, K)
           n    == Target
           Rows == Seq(TurnRows)
           Uids == Nat \X Nat
           Bits == {0, 1}
<1>1. /\ Playing /\ BatchSize = n /\ Batch = 1 .. n /\ n \in Nat /\ calls \in Nat
      /\ \A i \in 1 .. n : Len(total_batch_list[i]) > 0
  BY TryPlayed, TargetType
<1>2. total_batch_list \in [1 .. n -> Rows] /\ episode_rewards \in [1 .. n -> {0, 1}]
  BY <1>1 DEF Playing
<1>3. uids \in [1 .. n -> Uids] /\ \A i \in 1 .. n : uids[i] = TrajUidOf(calls, i)
  BY <1>1 DEF TrajUidOf
<1> DEFINE D == 1 .. n
<1> HIDE DEF D
<1>4. IndicesIn(K, D)
  BY DEF Kept, D, IndicesIn
<1>5. Len(K) = m * GroupSize /\ \A k \in 1 .. Len(K) : K[k] \in D
  BY <1>4, ElementOfSeq DEF Kept, IndicesIn
<1>6. Listed(total_batch_list, D, Rows)
  BY <1>2 DEF D, Listed
<1>7. Listed(episode_rewards, D, Bits)
  BY <1>2 DEF D, Listed
<1>8. Listed(uids, D, Uids)
  BY <1>3 DEF D, Listed
<1>9. /\ m \in 0 .. TrainBatchSize /\ g \in [1 .. m -> 1 .. TrainBatchSize]
      /\ \A b, c \in 1 .. m : b < c => g[b] < g[c]
      /\ \A b \in 1 .. m, j \in 1 .. GroupSize :
           K[Place(b, j, GroupSize)] = Place(g[b], j, GroupSize)
  BY DEF Kept
<1>10. \A k, l \in 1 .. Len(K) : K[k] = K[l] => k = l
  BY KeptOnce
<1> HIDE DEF K, uids, n, Rows, Uids, Bits
<1>11. Filtered(T, total_batch_list, K, Rows)
  BY <1>4, <1>6, AtType
<1>12. Filtered(U, uids, K, Uids)
  BY <1>4, <1>8, AtType
<1>13. Filtered(R, episode_rewards, K, Bits)
  BY <1>4, <1>7, AtType
<1> HIDE DEF T, R, U
<1>14. T \in Seq(Rows) /\ Len(T) = Len(K) /\ \A k \in 1 .. Len(K) : T[k] = total_batch_list[K[k]]
  BY <1>11 DEF Filtered
<1>15. U \in Seq(Uids) /\ Len(U) = Len(K) /\ \A k \in 1 .. Len(K) : U[k] = uids[K[k]]
  BY <1>12 DEF Filtered
<1>16. \A k \in 1 .. Len(K) : R[k] = episode_rewards[K[k]]
  BY <1>13 DEF Filtered
<1>17. \A b \in 1 .. m, j \in 1 .. GroupSize : Place(b, j, GroupSize) \in 1 .. Len(K)
  <2>1. m \in Nat /\ Len(K) = m * GroupSize /\ GroupSize \in Nat \ {0}
    BY <1>9, <1>5
  <2> QED BY <2>1, PlaceBounds
<1>18. ASSUME NEW b \in 1 .. m, NEW j \in 1 .. GroupSize
       PROVE  T[Place(b, j, GroupSize)][1].uid = <<calls, g[b] - 1>>
  <2> DEFINE p == Place(b, j, GroupSize)
             i == K[p]
  <2>1. p \in 1 .. Len(K) /\ i \in 1 .. n /\ i = Place(g[b], j, GroupSize)
    BY <1>9, <1>17, <1>5 DEF D
  <2>2. EpisodeInv(calls, i, total_batch_list[i], total_infos[i], episode_rewards[i],
                   episode_lengths[i], is_done[i])
        /\ Len(total_batch_list[i]) > 0
    BY <1>1, <2>1 DEF Playing
  <2>3. T[p] = total_batch_list[i]
    BY <1>14, <2>1
  <2> HIDE DEF i
  <2>4. total_batch_list[i][1].uid = UidOf(calls, i)
    <3>1. (episode_rewards[i] = 1) <=> episode_rewards[i] = 1
      OBVIOUS
    <3> QED BY <2>2, <3>1, EntryOfEpisode
  <2>5. g[b] \in Nat \ {0}
    BY <1>9
  <2>6. (Place(g[b], j, GroupSize) - 1) \div GroupSize = g[b] - 1
    BY <2>5, PlaceBlock
  <2>7. UidOf(calls, i) = <<calls, g[b] - 1>>
    BY <2>1, <2>6 DEF UidOf
  <2> QED BY <2>3, <2>4, <2>7
<1>19. \A b \in 1 .. m : GroupUid(T, b) = <<calls, g[b] - 1>>
  BY <1>18 DEF GroupUid
<1>20. \A b, c \in 1 .. m : GroupUid(T, b) = GroupUid(T, c) => b = c
  <2> SUFFICES ASSUME NEW b \in 1 .. m, NEW c \in 1 .. m, GroupUid(T, b) = GroupUid(T, c)
               PROVE  b = c
    OBVIOUS
  <2>1. g[b] - 1 = g[c] - 1
    BY <1>19
  <2>2. g[b] \in Nat /\ g[c] \in Nat /\ (b < c => g[b] < g[c]) /\ (c < b => g[c] < g[b])
    BY <1>9
  <2>3. ~(b < c) /\ ~(c < b)
    BY <2>1, <2>2
  <2> QED BY <1>9, <2>3
<1>21. \A b \in 1 .. m : GroupUid(T, b)[1] \in calls .. calls
  BY <1>1, <1>19
<1>22. \A k, l \in 1 .. Len(U) : U[k] = U[l] => k = l
  <2> SUFFICES ASSUME NEW k \in 1 .. Len(U), NEW l \in 1 .. Len(U), U[k] = U[l] PROVE k = l
    OBVIOUS
  <2>1. k \in 1 .. Len(K) /\ l \in 1 .. Len(K)
    BY <1>15
  <2>2. U[k] = uids[K[k]] /\ U[l] = uids[K[l]]
    BY <1>15, <2>1
  <2>3. K[k] \in 1 .. n /\ K[l] \in 1 .. n
    BY <1>5, <2>1 DEF D
  <2>4. U[k] = <<calls, K[k]>> /\ U[l] = <<calls, K[l]>>
    BY <1>3, <2>2, <2>3 DEF TrajUidOf
  <2>5. <<calls, K[k]>> = <<calls, K[l]>>
    BY <2>4
  <2>6. K[k] = K[l]
    BY <2>5
  <2> QED BY <1>10, <2>6, <2>1
<1>23. \A k \in 1 .. Len(U) : U[k][1] \in calls .. calls
  BY <1>1, <1>3, <1>15, <1>5 DEF TrajUidOf, D
<1>24. Grouped(T, U, m, calls, calls)
  <2>1. T \in Seq(Seq(TurnRows)) /\ U \in Seq(Nat \X Nat) /\ m \in Nat
    BY <1>9, <1>14, <1>15 DEF Rows, Uids
  <2>2. Len(T) = m * GroupSize /\ Len(U) = Len(T)
    BY <1>14, <1>15, <1>5
  <2>3. \A b \in 1 .. m, j \in 1 .. GroupSize :
          T[Place(b, j, GroupSize)][1].uid = GroupUid(T, b)
    BY <1>18, <1>19
  <2> QED BY <1>20, <1>21, <1>22, <1>23, <2>1, <2>2, <2>3 DEF Grouped
<1>25. ASSUME \A b \in 1 .. m : Informative(g[b] - 1), NEW b \in 1 .. m PROVE Differs(R, b)
  <2> DEFINE h == g[b] - 1
  <2>1. PICK j \in 1 .. GroupSize : GroupRewards(h)[j] # GroupRewards(h)[1]
    BY <1>25 DEF Informative
  <2>2. ASSUME NEW i \in 1 .. GroupSize
        PROVE  R[Place(b, i, GroupSize)] = GroupRewards(h)[i]
    <3>1. GroupRewards(h)[i] = episode_rewards[h * GroupSize + i]
      BY DEF GroupRewards, At, GroupIndices
    <3>2. h * GroupSize + i = Place(g[b], i, GroupSize)
      BY DEF Place
    <3>3. R[Place(b, i, GroupSize)] = episode_rewards[K[Place(b, i, GroupSize)]]
      BY <1>16, <1>17
    <3> QED BY <1>9, <3>1, <3>2, <3>3
  <2>3. 1 \in 1 .. GroupSize
    OBVIOUS
  <2> HIDE DEF h
  <2>4. R[Place(b, j, GroupSize)] # R[Place(b, 1, GroupSize)]
    BY <2>1, <2>2, <2>3
  <2> QED BY <2>3, <2>4 DEF Differs
<1> QED BY <1>24, <1>25 DEF T, R, U, K, uids

(* Groups that differ still do when lists of whole groups are concatenated. *)
LEMMA DiffersConcat ==
  ASSUME NEW S, NEW s \in Seq(S), NEW t \in Seq(S), NEW m, NEW k, InGroups(s, m), InGroups(t, k)
  PROVE  /\ \A b \in 1 .. m : Differs(s, b) => Differs(s \o t, b)
         /\ \A c \in 1 .. k : Differs(t, c) => Differs(s \o t, m + c)
<1> DEFINE q == s \o t
<1>1. GroupsOfBoth(q, s, t, m, k)
  BY PlaceConcat
<1> HIDE DEF q
<1>2. ASSUME NEW b \in 1 .. m, Differs(s, b) PROVE Differs(q, b)
  BY <1>1, <1>2 DEF GroupsOfBoth, Differs
<1>3. ASSUME NEW c \in 1 .. k, Differs(t, c) PROVE Differs(q, m + c)
  BY <1>1, <1>3 DEF GroupsOfBoth, Differs
<1> QED BY <1>2, <1>3 DEF q

(* The lists per try, one more try concatenated. *)
LEMMA MergedAppend ==
  ASSUME ListsInv, VanillaInv, is_train, Keep, NEW m, NEW g, Kept(KeepIndices, m, g)
  PROVE  /\ MergedRewards' = MergedRewards \o At(episode_rewards, KeepIndices)
         /\ MergedLengths' = MergedLengths \o KeptLengths
         /\ MergedTrajUid' = MergedTrajUid \o At([i \in Batch |-> TrajUidOf(calls, i)], KeepIndices)
         /\ MergedSuccess("success_rate")' = MergedSuccess("success_rate") \o KeptSuccess["success_rate"]
         /\ total_episode_rewards' \in Seq(Seq({0, 1})) /\ total_episode_lengths' \in Seq(Seq(Nat))
         /\ total_traj_uid' \in Seq(Seq(Nat \X Nat)) /\ TriedVerdicts' \in Seq(Seq(BOOLEAN))
         /\ \E S : total_success' \in Seq(S)
<1> DEFINE R == At(episode_rewards, KeepIndices)
           L == KeptLengths
           U == At([i \in Batch |-> TrajUidOf(calls, i)], KeepIndices)
           W == KeptSuccess["success_rate"]
           Bits == {0, 1}
           Uids == Nat \X Nat
           Wons == BOOLEAN
<1>1. phase = "done"
  BY DEF Keep
<1>2. R \in Seq(Bits) /\ L \in Seq(Nat) /\ U \in Seq(Uids) /\ W \in Seq(Wons)
  BY <1>1, TryAligned DEF Aligned
<1>3. /\ total_episode_rewards \in Seq(Seq(Bits)) /\ total_episode_lengths \in Seq(Seq(Nat))
      /\ total_traj_uid \in Seq(Seq(Uids)) /\ TriedVerdicts \in Seq(Seq(Wons))
      /\ \E S : total_success \in Seq(S)
  BY DEF ListsInv
<1>4. /\ total_episode_rewards' = Append(total_episode_rewards, R)
      /\ total_episode_lengths' = Append(total_episode_lengths, L)
      /\ total_traj_uid' = Append(total_traj_uid, U)
      /\ total_success' = Append(total_success, KeptSuccess)
  BY DEF Keep
<1>5. TriedVerdicts' = Append(TriedVerdicts, W) /\ \E S : total_success' \in Seq(S)
  <2>1. PICK S : total_success \in Seq(S)
    BY <1>3
  <2> DEFINE n == Len(total_success)
             X == KeptSuccess
             A == S \cup {X}
  <2> HIDE DEF X
  <2>2. /\ n \in Nat /\ DOMAIN total_success = 1 .. n /\ total_success \in Seq(A)
        /\ total_success' = Append(total_success, X)
    BY <1>4, <2>1 DEF X
  <2>3. X \in A
    OBVIOUS
  <2> HIDE DEF A
  <2>4. /\ total_success' \in Seq(A) /\ DOMAIN total_success' = 1 .. (n + 1)
        /\ total_success'[n + 1] = X
        /\ \A t \in 1 .. n : total_success'[t] = total_success[t]
    BY <2>2, <2>3
  <2>5. TriedVerdicts' = [t \in 1 .. (n + 1) |-> total_success'[t]["success_rate"]]
    BY <2>4 DEF TriedVerdicts
  <2>6. TriedVerdicts = [t \in 1 .. n |-> total_success[t]["success_rate"]]
    BY <2>2 DEF TriedVerdicts
  <2>7. /\ Len(TriedVerdicts) = n
        /\ Append(TriedVerdicts, W) =
             [t \in 1 .. (n + 1) |-> IF t = n + 1 THEN W ELSE TriedVerdicts[t]]
    <3> DEFINE V == TriedVerdicts
               C == Seq(Wons)
    <3>1. V \in Seq(C) /\ W \in C
      BY <1>2, <1>3
    <3> HIDE DEF n, W, C
    <3>2. Len(V) = n
      BY <2>2, <2>6
    <3>3. n \in Nat
      BY <2>2
    <3> HIDE DEF V
    <3>4. Append(V, W) = [t \in 1 .. (n + 1) |-> IF t = n + 1 THEN W ELSE V[t]]
      BY <3>1, <3>2, <3>3, AppendElements
    <3> QED BY <3>2, <3>4 DEF V
  <2>8. W = X["success_rate"]
    BY DEF X
  <2> HIDE DEF n, W
  <2>9. \A t \in 1 .. (n + 1) :
          total_success'[t]["success_rate"] = IF t = n + 1 THEN W ELSE TriedVerdicts[t]
    <3> SUFFICES ASSUME NEW t \in 1 .. (n + 1)
                 PROVE  total_success'[t]["success_rate"] = IF t = n + 1 THEN W ELSE TriedVerdicts[t]
      OBVIOUS
    <3>1. CASE t = n + 1
      BY <2>4, <2>8, <3>1
    <3>2. CASE t # n + 1
      <4>1. t \in 1 .. n
        BY <2>2, <3>2
      <4> QED BY <2>4, <2>6, <3>2, <4>1
    <3> QED BY <3>1, <3>2
  <2> QED BY <2>4, <2>5, <2>7, <2>9
<1> HIDE DEF R, L, U, W, Bits, Uids, Wons
<1>6. MergedRewards' = MergedRewards \o R /\ total_episode_rewards' \in Seq(Seq(Bits))
  <2>1. FlattenSeq(Append(total_episode_rewards, R)) = FlattenSeq(total_episode_rewards) \o R
    BY <1>2, <1>3, FlattenAppend
  <2> QED BY <1>2, <1>3, <1>4, <2>1 DEF MergedRewards
<1>7. MergedLengths' = MergedLengths \o L /\ total_episode_lengths' \in Seq(Seq(Nat))
  <2>1. FlattenSeq(Append(total_episode_lengths, L)) = FlattenSeq(total_episode_lengths) \o L
    BY <1>2, <1>3, FlattenAppend
  <2> QED BY <1>2, <1>3, <1>4, <2>1 DEF MergedLengths
<1>8. MergedTrajUid' = MergedTrajUid \o U /\ total_traj_uid' \in Seq(Seq(Uids))
  <2>1. FlattenSeq(Append(total_traj_uid, U)) = FlattenSeq(total_traj_uid) \o U
    BY <1>2, <1>3, FlattenAppend
  <2> QED BY <1>2, <1>3, <1>4, <2>1 DEF MergedTrajUid
<1>9. /\ MergedSuccess("success_rate")' = MergedSuccess("success_rate") \o W
      /\ TriedVerdicts' \in Seq(Seq(Wons))
  <2>1. FlattenSeq(Append(TriedVerdicts, W)) = FlattenSeq(TriedVerdicts) \o W
    BY <1>2, <1>3, FlattenAppend
  <2>2. /\ MergedSuccess("success_rate") = FlattenSeq(TriedVerdicts)
        /\ MergedSuccess("success_rate")' = FlattenSeq(TriedVerdicts')
    BY DEF MergedSuccess, TriedVerdicts
  <2> QED BY <1>2, <1>3, <1>5, <2>1, <2>2
<1> QED BY <1>5, <1>6, <1>7, <1>8, <1>9 DEF R, L, U, W, Bits, Uids, Wons

-----------------------------------------------------------------------------
(* The steps keep the invariant.                                             *)

(* Nothing merged yet. *)
LEMMA EmptyLists ==
  /\ Aligned(<<>>, <<>>, <<>>, <<>>, <<>>)
  /\ \A first, last \in Int : Grouped(<<>>, <<>>, 0, first, last)
  /\ FlattenSeq(<<>>) = <<>>
<1>1. \A S : <<>> \in Seq(S)
  OBVIOUS
<1>2. Len(<<>>) = 0 /\ 0 * GroupSize = 0
  OBVIOUS
<1>3. Aligned(<<>>, <<>>, <<>>, <<>>, <<>>)
  BY <1>1, <1>2 DEF Aligned
<1>4. \A first, last \in Int : Grouped(<<>>, <<>>, 0, first, last)
  BY <1>1, <1>2 DEF Grouped
<1>5. FlattenSeq(<<>>) = <<>>
  BY <1>2 DEF FlattenSeq
<1> QED BY <1>3, <1>4, <1>5

(* As long as nothing is merged, the lists are as they should be. *)
LEMMA NothingMerged ==
  ASSUME total_trajectories = <<>>, total_episode_rewards = <<>>, total_episode_lengths = <<>>,
         total_success = <<>>, total_traj_uid = <<>>, calls \in Int
  PROVE  ListsInv /\ GroupsInv
<1>1. /\ MergedRewards = <<>> /\ MergedLengths = <<>> /\ MergedTrajUid = <<>>
  BY EmptyLists DEF MergedRewards, MergedLengths, MergedTrajUid
<1>2. TriedVerdicts = <<>>
  BY DEF TriedVerdicts
<1>3. MergedSuccess("success_rate") = <<>>
  BY <1>2, EmptyLists DEF MergedSuccess, TriedVerdicts
<1>4. ListsInv
  <2>1. \A S : <<>> \in Seq(S)
    OBVIOUS
  <2>2. Aligned(total_trajectories, MergedRewards, MergedLengths, MergedTrajUid,
                MergedSuccess("success_rate"))
    BY <1>1, <1>3, EmptyLists
  <2> QED BY <1>2, <2>1, <2>2 DEF ListsInv
<1>5. GroupsInv
  <2>1. 1 \in Int /\ MergedCalls \in Int
    BY DEF MergedCalls
  <2>2. Grouped(total_trajectories, MergedTrajUid, 0, 1, MergedCalls)
    BY <1>1, <2>1, EmptyLists
  <2>3. Teaching(MergedRewards, 0) /\ 0 \in Nat
    BY DEF Teaching
  <2> QED BY <2>2, <2>3 DEF GroupsInv
<1> QED BY <1>4, <1>5

(* A try is merged. *)
LEMMA KeepKeeps ==
  ASSUME SamplingInv, Keep PROVE SamplingInv'
<1> DEFINE T  == total_trajectories
           R  == MergedRewards
           U  == MergedTrajUid
           T2 == At(total_batch_list, KeepIndices)
           R2 == At(episode_rewards, KeepIndices)
           U2 == At([i \in Batch |-> TrajUidOf(calls, i)], KeepIndices)
           W  == MergedSuccess("success_rate")
           W2 == KeptSuccess["success_rate"]
<1>1. /\ phase = "done" /\ status = "sampling" /\ is_train /\ phase' = "idle" /\ try_count > 0
      /\ calls' = calls /\ status' = status /\ is_train' = is_train /\ try_count' = try_count
      /\ T' = T \o T2
  BY DEF Keep, VanillaReturns, SamplingInv, ControlInv
<1>2. Batch = 1 .. Target /\ calls \in Nat \ {0}
  BY <1>1, TryPlayed DEF SamplingInv, Playing
<1>3. PICK m2, g : /\ Kept(KeepIndices, m2, g)
                   /\ LastTry => m2 = TrainBatchSize
                   /\ ~LastTry => \A b \in 1 .. m2 : Informative(g[b] - 1)
  BY <1>2, KeepIndicesKept
<1>4. Aligned(T, R, MergedLengths, U, W) /\ Aligned(T2, R2, KeptLengths, U2, W2)
  BY <1>1, <1>3, TryAligned DEF SamplingInv, ListsInv
<1>5. /\ R' = R \o R2 /\ MergedLengths' = MergedLengths \o KeptLengths /\ U' = U \o U2
      /\ W' = W \o W2
      /\ total_episode_rewards' \in Seq(Seq({0, 1})) /\ total_episode_lengths' \in Seq(Seq(Nat))
      /\ total_traj_uid' \in Seq(Seq(Nat \X Nat)) /\ TriedVerdicts' \in Seq(Seq(BOOLEAN))
      /\ \E S : total_success' \in Seq(S)
  BY <1>1, <1>3, MergedAppend DEF SamplingInv
<1>6. Grouped(T2, U2, m2, calls, calls) /\ (~LastTry => \A b \in 1 .. m2 : Differs(R2, b))
  BY <1>1, <1>3, TryGrouped DEF SamplingInv
<1>7. PICK m \in Nat : Grouped(T, U, m, 1, calls - 1) /\ Teaching(R, m)
  BY <1>1 DEF SamplingInv, GroupsInv, MergedCalls
<1>8. m2 \in 0 .. TrainBatchSize /\ Len(T2) = m2 * GroupSize /\ Len(T) = m * GroupSize
  BY <1>3, <1>6, <1>7 DEF Kept, Grouped
<1>9. ListsInv'
  <2> HIDE DEF T, R, U, T2, R2, U2, W, W2
  <2>1. Aligned(T \o T2, R \o R2, MergedLengths \o KeptLengths, U \o U2, W \o W2)
    BY <1>4, AlignedConcat
  <2>2. Aligned(T', R', MergedLengths', U', W')
    BY <1>1, <1>5, <2>1
  <2> QED BY <1>5, <2>2 DEF ListsInv, T, R, U, W
<1>10. GroupsInv'
  <2> DEFINE Bits == {0, 1}
             k == m + m2
  <2>1. R \in Seq(Bits) /\ R2 \in Seq(Bits) /\ Len(R) = Len(T) /\ Len(R2) = Len(T2)
    BY <1>4 DEF Aligned
  <2>2. InGroups(R, m) /\ InGroups(R2, m2)
    BY <1>8, <2>1 DEF InGroups
  <2> HIDE DEF T, R, U, T2, R2, U2, Bits
  <2>3. Grouped(T \o T2, U \o U2, k, 1, calls)
    BY <1>2, <1>6, <1>7, GroupedConcat
  <2>4. /\ \A b \in 1 .. m : Differs(R, b) => Differs(R \o R2, b)
        /\ \A c \in 1 .. m2 : Differs(R2, c) => Differs(R \o R2, m + c)
    BY <2>1, <2>2, DiffersConcat
  <2>5. \A b \in 1 .. m : Differs(R, b)
    BY <1>1, <1>7 DEF Teaching
  <2>6. ASSUME NEW b \in 1 .. k PROVE Differs(R \o R2, b) \/ (LastTry /\ b > k - TrainBatchSize)
    <3>1. CASE b <= m
      <4>1. b \in 1 .. m
        BY <3>1
      <4> QED BY <2>4, <2>5, <4>1
    <3>2. CASE ~(b <= m) /\ ~LastTry
      <4> DEFINE c == b - m
      <4>1. c \in 1 .. m2 /\ b = m + c
        BY <1>7, <1>8, <3>2
      <4>2. Differs(R2, c)
        BY <1>6, <3>2, <4>1
      <4> HIDE DEF c
      <4> QED BY <2>4, <4>1, <4>2
    <3>3. CASE ~(b <= m) /\ LastTry
      <4>1. m2 = TrainBatchSize
        BY <1>3, <3>3
      <4> QED BY <1>7, <3>3, <4>1
    <3> QED BY <3>1, <3>2, <3>3
  <2>7. Teaching(R, k)'
    <3>1. LastTry' <=> LastTry
      BY <1>1 DEF LastTry
    <3> QED BY <1>1, <1>5, <2>6, <3>1 DEF Teaching
  <2>8. Grouped(T, U, k, 1, MergedCalls)'
    BY <1>1, <1>5, <2>3 DEF MergedCalls
  <2>9. k \in Nat
    BY <1>7, <1>8
  <2> HIDE DEF k
  <2> QED BY <1>5, <2>7, <2>8, <2>9 DEF GroupsInv, T, R, U
<1>11. EnoughInv'
  <2>1. Target \in Nat /\ Target = TrainBatchSize * GroupSize
    BY TargetType DEF Target
  <2>2. m2 * GroupSize \in Nat /\ m2 * GroupSize <= Target /\ m * GroupSize \in Nat
    BY <1>7, <1>8, <2>1, ProductMonotonic
  <2>3. Len(T) < Target
    BY <1>1 DEF SamplingInv, EnoughInv
  <2>4. T \in Seq(Seq(TurnRows)) /\ T2 \in Seq(Seq(TurnRows))
    BY <1>4 DEF Aligned
  <2>5. Len(T') = Len(T) + Len(T2)
    <3> DEFINE Rows == Seq(TurnRows)
               n == Len(T)
               N == Len(T2)
    <3>1. T \in Seq(Rows) /\ T2 \in Seq(Rows)
      BY <2>4
    <3> HIDE DEF T, T2, Rows
    <3>2. T \o T2 \in Seq(Rows) /\ Len(T \o T2) = n + N
      BY <3>1
    <3> QED BY <1>1, <3>2
  <2>6. LastTry => Len(T2) = Target
    BY <1>3, <1>8, <2>1
  <2> DEFINE n == Len(T')
  <2>7. n = Len(T) + Len(T2) /\ Len(T) \in Nat /\ Len(T2) \in Nat /\ Len(T2) <= Target
    BY <1>8, <2>2, <2>5
  <2> HIDE DEF T, T2
  <2>8. n < 2 * Target /\ (LastTry => n >= Target)
    BY <2>1, <2>3, <2>6, <2>7
  <2>9. LastTry' <=> LastTry
    BY <1>1 DEF LastTry
  <2> HIDE DEF n
  <2>10. n < 2 * Target' /\ (LastTry' => n >= Target')
    BY <2>8, <2>9 DEF Target
  <2> QED BY <1>1, <2>10 DEF EnoughInv, n, T
<1>12. VanillaInv' /\ ControlInv' /\ RowsMatchLengths'
  <2>1. VanillaInv'
    BY <1>1 DEF SamplingInv, VanillaInv
  <2>2. ControlInv'
    BY <1>1 DEF SamplingInv, ControlInv, Statuses
  <2>3. RowsMatchLengths'
    BY <1>1 DEF RowsMatchLengths
  <2> QED BY <2>1, <2>2, <2>3
<1> QED BY <1>9, <1>10, <1>11, <1>12 DEF SamplingInv

(* A step that merges nothing. *)
LEMMA ListsUnchanged ==
  ASSUME ListsInv, UNCHANGED totals
  PROVE  /\ ListsInv' /\ MergedRewards' = MergedRewards /\ MergedTrajUid' = MergedTrajUid
         /\ total_trajectories' = total_trajectories
<1>1. /\ total_trajectories' = total_trajectories
      /\ total_episode_rewards' = total_episode_rewards
      /\ total_episode_lengths' = total_episode_lengths
      /\ total_success' = total_success /\ total_traj_uid' = total_traj_uid
  BY DEF totals
<1>2. /\ MergedRewards' = MergedRewards /\ MergedTrajUid' = MergedTrajUid
      /\ MergedLengths' = MergedLengths /\ TriedVerdicts' = TriedVerdicts
      /\ MergedSuccess("success_rate")' = MergedSuccess("success_rate")
  BY <1>1 DEF MergedRewards, MergedTrajUid, MergedLengths, TriedVerdicts, MergedSuccess
<1> QED BY <1>1, <1>2 DEF ListsInv

(* A step outside sampling. *)
LEMMA OutsideSampling ==
  ASSUME ListsInv, EnoughInv, UNCHANGED totals, total_trajectories = <<>>, total_traj_uid = <<>>,
         calls' \in Nat, status' \notin {"key_error", "unbound_local"},
         status' = "sampling" /\ phase' = "idle" /\ LastTry' => MaxNumGenBatches = 0
  PROVE  ListsInv' /\ GroupsInv' /\ EnoughInv'
<1>1. total_trajectories' = <<>> /\ MergedTrajUid' = <<>>
  BY EmptyLists DEF totals, MergedTrajUid
<1>2. ListsInv'
  BY ListsUnchanged
<1>3. GroupsInv'
  <2>1. 1 \in Int /\ MergedCalls' \in Int
    BY DEF MergedCalls
  <2>2. Grouped(total_trajectories', MergedTrajUid', 0, 1, MergedCalls')
    BY <1>1, <2>1, EmptyLists
  <2>3. Teaching(MergedRewards, 0)' /\ 0 \in Nat
    BY DEF Teaching
  <2> QED BY <2>2, <2>3 DEF GroupsInv
<1>4. EnoughInv'
  <2>1. Len(<<>>) = 0 /\ Target \in Nat \ {0} /\ Target' = Target
    BY TargetType DEF Target
  <2>2. Len(total_trajectories)' = 0
    BY <1>1, <2>1
  <2>3. 0 < 2 * Target /\ 0 < Target
    BY <2>1
  <2>4. ~(status' = "sampling" /\ phase' = "idle" /\ LastTry' /\ MaxNumGenBatches > 0)
    OBVIOUS
  <2> QED BY <2>1, <2>2, <2>3, <2>4 DEF EnoughInv
<1> QED BY <1>2, <1>3, <1>4

LEMMA CallKeeps ==
  ASSUME SamplingInv, Call PROVE SamplingInv'
<1>1. /\ status = "idle" /\ phase = "idle" /\ is_train' \in BOOLEAN /\ try_count' = 0
      /\ UNCHANGED totals /\ calls \in Nat /\ VanillaInv /\ ListsInv /\ EnoughInv
      /\ total_trajectories = <<>> /\ total_episode_rewards = <<>>
      /\ total_episode_lengths = <<>> /\ total_success = <<>> /\ total_traj_uid = <<>>
      /\ status' = IF FilterGroups /\ is_train' THEN "sampling" ELSE "rolling"
  BY DEF Call, SamplingInv, ControlInv, VanillaInv
<1>2. VanillaInv' /\ calls' \in Nat /\ (IF FilterGroups /\ is_train' THEN phase' = "idle" ELSE phase' = "turn")
  <2>1. CASE FilterGroups /\ is_train'
    <3>1. phase' = "idle" /\ calls' = calls
      BY <1>1, <2>1 DEF Call, vanillaVars
    <3> QED BY <1>1, <2>1, <3>1 DEF VanillaInv
  <2>2. CASE ~(FilterGroups /\ is_train')
    <3>1. PICK grouped : VanillaReset(BatchSize', grouped)
      BY <2>2 DEF Call, BatchSize, Target
    <3>2. VanillaInv'
      BY <1>1, <3>1, ResetStarts
    <3>3. phase' = "turn"
      BY <3>1 DEF VanillaReset
    <3> QED BY <2>2, <3>2, <3>3 DEF VanillaInv
  <2> QED BY <2>1, <2>2
<1>3. ControlInv'
  BY <1>1, <1>2 DEF ControlInv, Statuses, totals
<1>4. ListsInv' /\ GroupsInv' /\ EnoughInv'
  <2>1. status' \notin {"key_error", "unbound_local"}
    BY <1>1
  <2>2. LastTry' => MaxNumGenBatches = 0
    BY <1>1 DEF LastTry
  <2> QED BY <1>1, <1>2, <2>1, <2>2, OutsideSampling
<1>5. RowsMatchLengths'
  BY <1>1 DEF RowsMatchLengths
<1> QED BY <1>2, <1>3, <1>4, <1>5 DEF SamplingInv

(* A turn or the verdicts. *)
LEMMA RollKeeps ==
  ASSUME SamplingInv, Roll PROVE SamplingInv'
<1>1. /\ phase \in {"turn", "evaluate"} /\ phase' \in {"turn", "evaluate", "done"}
      /\ calls' = calls /\ status' = status /\ is_train' = is_train /\ try_count' = try_count
      /\ UNCHANGED totals /\ gen_batch_output' = gen_batch_output
  BY DEF Roll, VanillaTurn, VanillaEvaluate
<1>2. VanillaInv'
  BY <1>1, TurnKeeps, EvaluateKeeps DEF Roll, SamplingInv
<1>3. ControlInv'
  BY <1>1 DEF SamplingInv, ControlInv, totals
<1>4. /\ ListsInv' /\ MergedRewards' = MergedRewards /\ MergedTrajUid' = MergedTrajUid
      /\ total_trajectories' = total_trajectories
  BY <1>1, ListsUnchanged DEF SamplingInv
<1>5. GroupsInv'
  <2>1. PICK m \in Nat : /\ Grouped(total_trajectories, MergedTrajUid, m, 1, MergedCalls)
                         /\ Teaching(MergedRewards, m)
    BY DEF SamplingInv, GroupsInv
  <2>2. MergedCalls' = MergedCalls
    BY <1>1 DEF MergedCalls
  <2>3. Teaching(MergedRewards, m)'
    BY <1>1, <1>4, <2>1 DEF Teaching
  <2> QED BY <1>4, <2>1, <2>2, <2>3 DEF GroupsInv
<1>6. EnoughInv'
  BY <1>1, <1>4 DEF SamplingInv, EnoughInv, Target
<1>7. RowsMatchLengths'
  BY <1>1 DEF SamplingInv, RowsMatchLengths
<1> QED BY <1>2, <1>3, <1>4, <1>5, <1>6, <1>7 DEF SamplingInv

(* One more try. *)
LEMMA TryKeeps ==
  ASSUME SamplingInv, Try PROVE SamplingInv'
<1>1. /\ phase = "idle" /\ phase' = "turn" /\ status = "sampling" /\ status' = status /\ is_train
      /\ calls' = calls + 1 /\ is_train' = is_train /\ try_count' = try_count + 1
      /\ try_count < MaxNumGenBatches /\ Short /\ UNCHANGED totals /\ calls \in Nat
  BY DEF Try, VanillaReset, SamplingInv, ControlInv, VanillaInv
<1>2. VanillaInv'
  <2>1. BatchSize' = Target /\ is_train' \in BOOLEAN
    BY <1>1 DEF BatchSize, Target, SamplingInv, VanillaInv
  <2>2. VanillaReset(BatchSize', TRUE)
    BY <2>1 DEF Try
  <2> QED BY <2>1, <2>2, ResetStarts DEF SamplingInv
<1>3. ControlInv'
  BY <1>1 DEF SamplingInv, ControlInv, Statuses, totals
<1>4. /\ ListsInv' /\ MergedRewards' = MergedRewards /\ MergedTrajUid' = MergedTrajUid
      /\ total_trajectories' = total_trajectories
  BY <1>1, ListsUnchanged DEF SamplingInv
<1>5. GroupsInv'
  <2>1. PICK m \in Nat : /\ Grouped(total_trajectories, MergedTrajUid, m, 1, MergedCalls)
                         /\ Teaching(MergedRewards, m)
    BY DEF SamplingInv, GroupsInv
  <2>2. MergedCalls' = MergedCalls
    BY <1>1 DEF MergedCalls
  <2>3. ~LastTry
    BY <1>1 DEF LastTry, SamplingInv, ControlInv
  <2>4. Teaching(MergedRewards, m)'
    BY <1>4, <2>1, <2>3 DEF Teaching
  <2> QED BY <1>4, <2>1, <2>2, <2>4 DEF GroupsInv
<1>6. EnoughInv'
  BY <1>1, <1>4 DEF SamplingInv, EnoughInv, Target, Short
<1>7. RowsMatchLengths'
  BY <1>1 DEF RowsMatchLengths
<1> QED BY <1>2, <1>3, <1>4, <1>5, <1>6, <1>7 DEF SamplingInv

(* The end of the sampling. *)
LEMMA MergeKeeps ==
  ASSUME SamplingInv, Merge PROVE SamplingInv'
<1>1. /\ phase = "idle" /\ phase' = "idle" /\ status = "sampling" /\ status' = MergeOutcome
      /\ calls' = calls /\ is_train' = is_train /\ try_count' = try_count
      /\ ~(Short /\ try_count < MaxNumGenBatches) /\ UNCHANGED totals
      /\ UNCHANGED vanillaVars
  BY DEF Merge, vanillaVars
<1>2. /\ MergeOutcome \in {"no_batch", "key_error", "unbound_local"}
      /\ MergeOutcome \in {"key_error", "unbound_local"} => total_success # <<>>
  BY DEF MergeOutcome
<1>3. VanillaInv'
  BY <1>1 DEF SamplingInv, VanillaInv
<1>4. ControlInv'
  BY <1>1, <1>2 DEF SamplingInv, ControlInv, Statuses, totals
<1>5. /\ ListsInv' /\ MergedRewards' = MergedRewards /\ MergedTrajUid' = MergedTrajUid
      /\ total_trajectories' = total_trajectories
  BY <1>1, ListsUnchanged DEF SamplingInv
<1>6. GroupsInv'
  <2>1. PICK m \in Nat : /\ Grouped(total_trajectories, MergedTrajUid, m, 1, MergedCalls)
                         /\ Teaching(MergedRewards, m)
    BY DEF SamplingInv, GroupsInv
  <2>2. MergedCalls' = MergedCalls
    BY <1>1 DEF MergedCalls
  <2>3. Teaching(MergedRewards, m)'
    BY <1>1, <1>5, <2>1 DEF Teaching, LastTry
  <2> QED BY <1>5, <2>1, <2>2, <2>3 DEF GroupsInv
<1>7. EnoughInv'
  <2>1. total_success # <<>> => Len(total_trajectories) >= Target
    <3> SUFFICES ASSUME total_success # <<>> PROVE Len(total_trajectories) >= Target
      OBVIOUS
    <3>1. try_count > 0 /\ try_count \in 0 .. MaxNumGenBatches
      BY DEF SamplingInv, ControlInv
    <3>2. CASE LastTry
      BY <1>1, <3>1, <3>2 DEF SamplingInv, EnoughInv, LastTry
    <3>3. CASE ~LastTry
      <4>1. ~Short
        BY <1>1, <3>1, <3>3 DEF LastTry
      <4>2. Len(total_trajectories) \in Nat /\ Target \in Nat
        BY TargetType DEF SamplingInv, ListsInv, Aligned
      <4> QED BY <4>1, <4>2 DEF Short
    <3> QED BY <3>2, <3>3
  <2> QED BY <1>1, <1>2, <1>5, <2>1 DEF SamplingInv, EnoughInv, Target
<1>8. RowsMatchLengths'
  BY <1>1, <1>2 DEF RowsMatchLengths
<1> QED BY <1>3, <1>4, <1>5, <1>6, <1>7, <1>8 DEF SamplingInv

(* The trainer has used the batch. *)
LEMMA ConsumeKeeps ==
  ASSUME SamplingInv, Consume PROVE SamplingInv'
<1>1. /\ phase = "done" /\ phase' = "idle" /\ status = "returned" /\ status' = "idle"
      /\ calls' = calls /\ calls \in Nat /\ is_train' = is_train /\ try_count' = try_count
      /\ UNCHANGED totals
      /\ total_trajectories = <<>> /\ total_episode_rewards = <<>>
      /\ total_episode_lengths = <<>> /\ total_success = <<>> /\ total_traj_uid = <<>>
      /\ ListsInv /\ EnoughInv
  BY DEF Consume, VanillaReturns, SamplingInv, ControlInv, VanillaInv
<1>2. VanillaInv'
  BY <1>1 DEF SamplingInv, VanillaInv
<1>3. ControlInv'
  BY <1>1 DEF SamplingInv, ControlInv, Statuses, totals
<1>4. ListsInv' /\ GroupsInv' /\ EnoughInv'
  BY <1>1, OutsideSampling
<1>5. RowsMatchLengths'
  BY <1>1 DEF RowsMatchLengths
<1> QED BY <1>2, <1>3, <1>4, <1>5 DEF SamplingInv

-----------------------------------------------------------------------------
(* What gather_rollout_data hands over.                                      *)

(* A row as it is handed over, of a batch of n envs. *)
StampRows(n) ==
  [uid : Nat \X Int, traj_uid : Nat \X (1 .. n), episode_rewards : {0, 1}, episode_lengths : Nat]

(* The rows of env i that are handed over, s: as many as the episode is      *)
(* long, all with its id and its sums.                                       *)
RowsOf(i, s) ==
  /\ s \in Seq(StampRows(BatchSize)) /\ Len(s) = episode_lengths[i]
  /\ \A j \in 1 .. Len(s) : /\ s[j].traj_uid = TrajUidOf(calls, i)
                            /\ s[j].episode_rewards = episode_rewards[i]
                            /\ s[j].episode_lengths = episode_lengths[i]

LEMMA StampedRows ==
  ASSUME VanillaInv, phase = "done", NEW i \in 1 .. BatchSize
  PROVE  RowsOf(i, Stamped(i))
<1> DEFINE rows == total_batch_list[i]
           n == Len(rows)
           m == episode_lengths[i]
           S == StampRows(BatchSize)
           seqs == [k \in DOMAIN rows |-> IF rows[k].active_masks THEN <<Stamp(i, rows[k])>> ELSE <<>>]
<1>1. /\ EpisodeInv(calls, i, rows, total_infos[i], episode_rewards[i], m, is_done[i])
      /\ calls \in Nat
  BY DEF VanillaInv, Playing
<1>2. /\ rows \in Seq(TurnRows) /\ DOMAIN rows = 1 .. n /\ n \in Nat /\ m \in 0 .. n
      /\ episode_rewards[i] \in {0, 1} /\ m \in Nat
  BY <1>1 DEF EpisodeInv
<1>3. ASSUME NEW k \in 1 .. n
      PROVE  /\ rows[k] \in TurnRows /\ rows[k].traj_uid = TrajUidOf(calls, i)
             /\ rows[k].active_masks <=> k <= m
  BY <1>1, <1>2 DEF EpisodeInv, RowInv
<1>4. TrajUidOf(calls, i) \in Nat \X (1 .. BatchSize)
  BY <1>1 DEF TrajUidOf
<1>5. ASSUME NEW k \in 1 .. n
      PROVE  /\ Stamp(i, rows[k]) \in S
             /\ Stamp(i, rows[k]).traj_uid = TrajUidOf(calls, i)
             /\ Stamp(i, rows[k]).episode_rewards = episode_rewards[i]
             /\ Stamp(i, rows[k]).episode_lengths = m
  <2>1. rows[k].uid \in Nat \X Int /\ rows[k].traj_uid \in Nat \X (1 .. BatchSize)
    BY <1>3, <1>4 DEF TurnRows
  <2> QED BY <1>2, <1>3, <2>1 DEF Stamp, StampRows
<1>6. ASSUME NEW k \in 1 .. n
      PROVE  /\ seqs[k] \in Seq(S) /\ Len(seqs[k]) = IF k <= m THEN 1 ELSE 0
             /\ k <= m => seqs[k][1] = Stamp(i, rows[k])
  <2> DEFINE e == Stamp(i, rows[k])
  <2>1. e \in S
    BY <1>5
  <2>2. CASE k <= m
    <3>1. seqs[k] = <<e>>
      BY <1>2, <1>3, <2>2
    <3> HIDE DEF seqs, e, S
    <3>2. <<e>> \in Seq(S) /\ Len(<<e>>) = 1 /\ <<e>>[1] = e
      BY <2>1
    <3> QED BY <2>2, <3>1, <3>2 DEF e
  <2>3. CASE ~(k <= m)
    <3>1. seqs[k] = <<>>
      BY <1>2, <1>3, <2>3
    <3> HIDE DEF seqs, S
    <3>2. <<>> \in Seq(S) /\ Len(<<>>) = 0
      OBVIOUS
    <3> QED BY <2>3, <3>1, <3>2
  <2> QED BY <2>2, <2>3
<1>7. seqs \in [1 .. n -> Seq(S)]
  BY <1>2, <1>6
<1>8. Stamped(i) = FlattenSeq(seqs)
  BY DEF Stamped
<1>9. /\ FlattenSeq(seqs) \in Seq(S) /\ Len(FlattenSeq(seqs)) = m
      /\ \A j \in 1 .. m : FlattenSeq(seqs)[j] = seqs[j][1]
  <2>1. n \in Nat /\ m \in 0 .. n
    BY <1>2
  <2>2. Singles(seqs, n, m)
    BY <1>6 DEF Singles
  <2> HIDE DEF rows, seqs, S, n, m
  <2>3. FlattenSeq(seqs) \in Seq(S) /\ Firsts(FlattenSeq(seqs), seqs, m)
    BY <1>7, <2>1, <2>2, FlattenSingles
  <2> QED BY <2>3 DEF Firsts
<1> HIDE DEF seqs
<1>10. ASSUME NEW j \in 1 .. m
       PROVE  /\ Stamped(i)[j].traj_uid = TrajUidOf(calls, i)
              /\ Stamped(i)[j].episode_rewards = episode_rewards[i]
              /\ Stamped(i)[j].episode_lengths = m
  <2>1. j \in 1 .. n /\ j <= m
    BY <1>2
  <2>2. Stamped(i)[j] = Stamp(i, rows[j])
    BY <1>6, <1>8, <1>9, <2>1
  <2> QED BY <1>5, <2>1, <2>2
<1> QED BY <1>8, <1>9, <1>10 DEF RowsOf

(* The trajectory of row k is there as a whole. *)
WholeIn(out, k) ==
  LET rows == {r \in 1 .. Len(out) : out[r].traj_uid = out[k].traj_uid}
  IN  /\ Cardinality(rows) = out[k].episode_lengths
      /\ \A r \in rows : out[r].episode_rewards = out[k].episode_rewards

(* Every trajectory is handed over as a whole. *)
LEMMA GatheredWhole ==
  ASSUME VanillaInv, phase = "done", NEW out, out = FlattenSeq([i \in Batch |-> Stamped(i)]),
         NEW S, S = StampRows(BatchSize)
  PROVE  /\ out \in Seq(S)
         /\ \A k \in 1 .. Len(out) : WholeIn(out, k)
<1> DEFINE n == BatchSize
           seqs == [i \in 1 .. n |-> Stamped(i)]
           tag == [x \in S |-> x.traj_uid[2]]
<1>1. n \in Nat /\ Batch = 1 .. n /\ calls \in Nat
  BY TargetType DEF VanillaInv, Playing, Batch
<1>2. out = FlattenSeq(seqs)
  BY <1>1
<1>3. \A i \in 1 .. n : RowsOf(i, seqs[i])
  BY StampedRows
<1>4. seqs \in [1 .. n -> Seq(S)]
  BY <1>3 DEF RowsOf
<1>5. \A x \in S : tag[x] = x.traj_uid[2] /\ tag[x] \in 1 .. n /\ x.traj_uid = <<x.traj_uid[1], x.traj_uid[2]>>
  BY DEF StampRows
<1> HIDE DEF seqs
<1>6. ASSUME NEW i \in 1 .. n, NEW j \in 1 .. Len(seqs[i])
      PROVE  seqs[i][j] \in S /\ tag[seqs[i][j]] = i
  <2>1. seqs[i][j] \in S
    BY <1>4, ElementOfSeq
  <2>2. seqs[i][j].traj_uid = <<calls, i>>
    BY <1>3 DEF RowsOf, TrajUidOf
  <2>3. tag[seqs[i][j]] = <<calls, i>>[2]
    BY <1>5, <2>1, <2>2
  <2> QED BY <2>1, <2>3
<1>7. TagsTell(tag, seqs, n)
  BY <1>6 DEF TagsTell
<1> HIDE DEF tag, n
<1>8. /\ out \in Seq(S) /\ Drawn(out, tag, seqs)
      /\ \A t \in 1 .. n : Cardinality(Positions(out, tag, t)) = Len(seqs[t])
  <2>1. n \in Nat
    BY <1>1
  <2>2. /\ FlattenSeq(seqs) \in Seq(S) /\ Drawn(FlattenSeq(seqs), tag, seqs)
        /\ \A t \in 1 .. n : Cardinality(Positions(FlattenSeq(seqs), tag, t)) = Len(seqs[t])
    BY <1>4, <1>7, <2>1, FlattenCounts
  <2> QED BY <1>2, <2>2
<1>9. ASSUME NEW r \in 1 .. Len(out)
      PROVE  \E t \in 1 .. n : /\ tag[out[r]] = t /\ out[r].traj_uid = <<calls, t>>
                               /\ out[r].episode_rewards = episode_rewards[t]
                               /\ out[r].episode_lengths = episode_lengths[t]
  <2> DEFINE t == tag[out[r]]
  <2>1. out[r] \in S
    BY <1>8, ElementOfSeq
  <2>2. t \in 1 .. n
    BY <1>5, <2>1
  <2>3. PICK j \in 1 .. Len(seqs[t]) : out[r] = seqs[t][j]
    BY <1>8 DEF Drawn
  <2> HIDE DEF t
  <2>4. /\ out[r].traj_uid = <<calls, t>> /\ out[r].episode_rewards = episode_rewards[t]
        /\ out[r].episode_lengths = episode_lengths[t]
    BY <1>3, <2>2, <2>3 DEF RowsOf, TrajUidOf
  <2> QED BY <2>2, <2>4 DEF t
<1>10. ASSUME NEW k \in 1 .. Len(out) PROVE WholeIn(out, k)
  <2>1. PICK t \in 1 .. n : /\ tag[out[k]] = t /\ out[k].traj_uid = <<calls, t>>
                             /\ out[k].episode_rewards = episode_rewards[t]
                             /\ out[k].episode_lengths = episode_lengths[t]
    BY <1>9
  <2> DEFINE rows == {r \in 1 .. Len(out) : out[r].traj_uid = out[k].traj_uid}
  <2>2. ASSUME NEW r \in 1 .. Len(out)
        PROVE  /\ out[r].traj_uid = out[k].traj_uid <=> tag[out[r]] = t
               /\ tag[out[r]] = t => out[r].episode_rewards = episode_rewards[t]
    <3>1. PICK u \in 1 .. n : /\ tag[out[r]] = u /\ out[r].traj_uid = <<calls, u>>
                              /\ out[r].episode_rewards = episode_rewards[u]
      BY <1>9
    <3>2. <<calls, u>> = <<calls, t>> <=> u = t
      OBVIOUS
    <3> QED BY <2>1, <3>1, <3>2
  <2>3. rows = Positions(out, tag, t)
    BY <2>2 DEF Positions
  <2>4. Cardinality(rows) = episode_lengths[t]
    BY <1>3, <1>8, <2>3 DEF RowsOf
  <2>5. \A r \in rows : out[r].episode_rewards = out[k].episode_rewards
    BY <2>1, <2>2
  <2> QED BY <2>1, <2>4, <2>5 DEF WholeIn
<1> QED BY <1>8, <1>10

(* The batch is handed over. *)
LEMMA GatherKeeps ==
  ASSUME SamplingInv, Gather PROVE SamplingInv'
<1>1. /\ phase = "done" /\ phase' = "done" /\ status = "rolling" /\ status' = "returned"
      /\ gen_batch_output' = FlattenSeq([i \in Batch |-> Stamped(i)])
      /\ UNCHANGED <<vanillaVars, is_train, try_count, totals>> /\ calls' \in Nat
      /\ calls' = calls /\ is_train' = is_train /\ try_count' = try_count
      /\ total_trajectories = <<>> /\ total_episode_rewards = <<>>
      /\ total_episode_lengths = <<>> /\ total_success = <<>> /\ total_traj_uid = <<>>
      /\ VanillaInv /\ ListsInv /\ EnoughInv
  BY DEF Gather, vanillaVars, SamplingInv, ControlInv, VanillaInv
<1>2. VanillaInv'
  BY <1>1 DEF vanillaVars, VanillaInv, Playing, Judged, BatchSize, Target
<1>3. ControlInv'
  BY <1>1 DEF SamplingInv, ControlInv, Statuses, totals
<1>4. ListsInv' /\ GroupsInv' /\ EnoughInv'
  BY <1>1, OutsideSampling
<1>5. RowsMatchLengths'
  <2> DEFINE out == gen_batch_output'
  <2>1. \E S : out \in Seq(S) /\ \A k \in 1 .. Len(out) : WholeIn(out, k)
    <3> DEFINE S == StampRows(BatchSize)
    <3>1. out = FlattenSeq([i \in Batch |-> Stamped(i)]) /\ S = StampRows(BatchSize)
      BY <1>1
    <3> HIDE DEF out, S
    <3> QED BY <1>1, <3>1, GatheredWhole
  <2>2. DOMAIN out = 1 .. Len(out)
    BY <2>1
  <2> HIDE DEF out
  <2> QED BY <2>1, <2>2 DEF WholeIn, RowsMatchLengths, out
<1> QED BY <1>2, <1>3, <1>4, <1>5 DEF SamplingInv

-----------------------------------------------------------------------------
(* The inductive invariant.                                                  *)

(* The invariant of dynamic sampling and of the plain loop it repeats is     *)
(* inductive: VanillaInv speaks of the batch being played, ControlInv of the *)
(* place of the loop, ListsInv and GroupsInv of the lists merged so far      *)
(* (filter_group_data, dynamic_multi_turn_loop), EnoughInv of their length.  *)
THEOREM SamplingInductive == Spec => []SamplingInv
<1>1. Init => SamplingInv
  <2> SUFFICES ASSUME Init PROVE SamplingInv
    OBVIOUS
  <2>1. /\ phase = "idle" /\ calls = 0 /\ status = "idle" /\ is_train = FALSE /\ try_count = 0
        /\ total_trajectories = <<>> /\ total_episode_rewards = <<>>
        /\ total_episode_lengths = <<>> /\ total_success = <<>> /\ total_traj_uid = <<>>
    BY DEF Init, VanillaInit
  <2>2. ListsInv /\ GroupsInv
    <3>1. calls \in Int
      BY <2>1
    <3> QED BY <2>1, <3>1, NothingMerged
  <2>3. VanillaInv /\ ControlInv /\ RowsMatchLengths
    <3>1. VanillaInv
      BY <2>1 DEF VanillaInv
    <3>2. ControlInv
      BY <2>1 DEF ControlInv, Statuses
    <3> QED BY <2>1, <3>1, <3>2 DEF RowsMatchLengths
  <2>4. EnoughInv
    <3>1. Len(<<>>) = 0 /\ 0 < 2 * Target
      BY TargetType
    <3>2. Len(total_trajectories) = 0
      BY <2>1, <3>1
    <3> QED BY <2>1, <3>1, <3>2 DEF EnoughInv
  <2> QED BY <2>2, <2>3, <2>4 DEF SamplingInv
<1>2. SamplingInv /\ [Next]_vars => SamplingInv'
  <2> SUFFICES ASSUME SamplingInv, [Next]_vars PROVE SamplingInv'
    OBVIOUS
  <2>1. CASE UNCHANGED vars
    <3>1. UNCHANGED <<vanillaVars, totals>> /\ UNCHANGED <<status, is_train, try_count, gen_batch_output>>
      BY <2>1 DEF vars
    <3>2. VanillaInv'
      BY <3>1 DEF SamplingInv, VanillaInv, vanillaVars, Playing, Judged, BatchSize, Target
    <3>3. ControlInv' /\ RowsMatchLengths'
      BY <3>1 DEF SamplingInv, ControlInv, totals, vanillaVars, RowsMatchLengths
    <3>4. /\ ListsInv' /\ MergedRewards' = MergedRewards /\ MergedTrajUid' = MergedTrajUid
          /\ total_trajectories' = total_trajectories
      BY <3>1, ListsUnchanged DEF SamplingInv
    <3>5. /\ phase' = phase /\ calls' = calls /\ status' = status /\ try_count' = try_count
          /\ Target' = Target
      BY <3>1 DEF vanillaVars, Target
    <3>6. GroupsInv'
      BY <3>4, <3>5 DEF SamplingInv, GroupsInv, MergedCalls, Teaching, LastTry
    <3>7. EnoughInv'
      BY <3>4, <3>5 DEF SamplingInv, EnoughInv, LastTry
    <3> QED BY <3>2, <3>3, <3>4, <3>6, <3>7 DEF SamplingInv
  <2>2. CASE Call
    BY <2>2, CallKeeps
  <2>3. CASE Roll
    BY <2>3, RollKeeps
  <2>4. CASE Try
    BY <2>4, TryKeeps
  <2>5. CASE Keep
    BY <2>5, KeepKeeps
  <2>6. CASE Merge
    BY <2>6, MergeKeeps
  <2>7. CASE Gather
    BY <2>7, GatherKeeps
  <2>8. CASE Consume
    BY <2>8, ConsumeKeeps
  <2> QED BY <2>1, <2>2, <2>3, <2>4, <2>5, <2>6, <2>7, <2>8 DEF Next
<1> QED BY <1>1, <1>2, PTL DEF Spec

(* The sixth list, the tool calls, has an entry for every trajectory. *)
ToolsInv == /\ total_tool_callings \in Seq(Seq(Nat))
            /\ Len(MergedToolCallings) = Len(total_trajectories)

LEMMA ToolsStay == Spec => []ToolsInv
<1>1. Init => ToolsInv
  BY EmptyLists DEF Init, ToolsInv, MergedToolCallings
<1>2. SamplingInv /\ ToolsInv /\ [Next]_vars => ToolsInv'
  <2> SUFFICES ASSUME SamplingInv, ToolsInv, [Next]_vars PROVE ToolsInv'
    OBVIOUS
  <2>1. CASE Keep
    <3> DEFINE T     == total_trajectories
               K     == KeepIndices
               T2    == At(total_batch_list, K)
               B     == At(ToolCallings, K)
               tools == total_tool_callings
               n     == Target
               D     == 1 .. n
               Rows  == Seq(TurnRows)
    <3>1. phase = "done" /\ is_train /\ VanillaInv
      BY <2>1 DEF Keep, SamplingInv, ControlInv
    <3>2. Playing /\ BatchSize = n /\ Batch = D
      BY <3>1, TryPlayed
    <3>3. PICK m, g : Kept(K, m, g)
      BY <3>2, KeepIndicesKept
    <3>4. K \in Seq(D)
      BY <3>3 DEF Kept
    <3>5. T \in Seq(Rows)
      BY DEF SamplingInv, ListsInv, Aligned
    <3>6. total_batch_list \in [D -> Rows] /\ ToolCallings \in [D -> Nat]
      BY <3>2 DEF Playing, ToolCallings
    <3>7. /\ tools \in Seq(Seq(Nat)) /\ Len(FlattenSeq(tools)) = Len(T)
          /\ T' = T \o T2 /\ tools' = Append(tools, B)
      BY <2>1 DEF Keep, ToolsInv, MergedToolCallings
    <3> HIDE DEF K, D, Rows
    <3>8. Filtered(T2, total_batch_list, K, Rows) /\ Filtered(B, ToolCallings, K, Nat)
      BY <3>4, <3>6, AtType DEF Listed, IndicesIn
    <3> HIDE DEF T2, B, T, tools
    <3>9. T2 \in Seq(Rows) /\ B \in Seq(Nat) /\ Len(T2) = Len(B)
      BY <3>8 DEF Filtered
    <3>10. /\ FlattenSeq(tools) \in Seq(Nat)
           /\ FlattenSeq(Append(tools, B)) = FlattenSeq(tools) \o B
      BY <3>7, <3>9, FlattenAppend
    <3>11. Len(FlattenSeq(tools) \o B) = Len(FlattenSeq(tools)) + Len(B)
      BY <3>9, <3>10
    <3>12. Len(T \o T2) = Len(T) + Len(T2)
      BY <3>5, <3>9, SMTT(30)
    <3>13. Len(FlattenSeq(tools')) = Len(T') /\ tools' \in Seq(Seq(Nat))
      BY <3>7, <3>9, <3>10, <3>11, <3>12
    <3> QED BY <3>13 DEF ToolsInv, MergedToolCallings, T, tools
  <2>2. CASE ~Keep
    <3>1. total_tool_callings' = total_tool_callings /\ total_trajectories' = total_trajectories
      BY <2>2 DEF Next, Call, Roll, Try, Merge, Gather, Consume, vars, totals
    <3> QED BY <3>1 DEF ToolsInv, MergedToolCallings
  <2> QED BY <2>1, <2>2
<1> QED BY <1>1, <1>2, SamplingInductive, PTL DEF Spec

-----------------------------------------------------------------------------
(* What follows from it.                                                     *)

(* The trajectories of block b, and those with the uid of trajectory k. *)
Block(b)      == {Place(b, j, GroupSize) : j \in 1 .. GroupSize}
GroupOf(T, k) == {l \in 1 .. Len(T) : T[l][1].uid = T[k][1].uid}

(* Those with one uid are a block. *)
LEMMA GroupIsBlock ==
  ASSUME NEW T, NEW U, NEW m, NEW first, NEW last, Grouped(T, U, m, first, last),
         NEW k \in 1 .. Len(T)
  PROVE  \E b \in 1 .. m : GroupOf(T, k) = Block(b) /\ k \in Block(b)
<1>1. /\ m \in Nat /\ Len(T) = m * GroupSize /\ GroupSize \in Nat \ {0}
      /\ \A b, c \in 1 .. m : GroupUid(T, b) = GroupUid(T, c) => b = c
      /\ \A b \in 1 .. m, j \in 1 .. GroupSize : T[Place(b, j, GroupSize)][1].uid = GroupUid(T, b)
  BY DEF Grouped
<1>2. k \in 1 .. (m * GroupSize)
  BY <1>1
<1>3. PICK b \in 1 .. m, i \in 1 .. GroupSize : k = Place(b, i, GroupSize)
  BY <1>1, <1>2, PlaceExists
<1>4. ASSUME NEW l \in GroupOf(T, k) PROVE l \in Block(b)
  <2>1. l \in 1 .. (m * GroupSize) /\ T[l][1].uid = T[k][1].uid
    BY <1>1 DEF GroupOf
  <2>2. PICK c \in 1 .. m, j \in 1 .. GroupSize : l = Place(c, j, GroupSize)
    BY <1>1, <2>1, PlaceExists, SMTT(30)
  <2>3. GroupUid(T, c) = GroupUid(T, b)
    BY <1>1, <1>3, <2>1, <2>2
  <2>4. b = c
    BY <1>1, <2>3
  <2> QED BY <2>2, <2>4 DEF Block
<1>5. ASSUME NEW j \in 1 .. GroupSize PROVE Place(b, j, GroupSize) \in GroupOf(T, k)
  <2>1. Place(b, j, GroupSize) \in 1 .. Len(T)
    BY <1>1, PlaceBounds
  <2>2. T[Place(b, j, GroupSize)][1].uid = T[k][1].uid
    BY <1>1, <1>3
  <2> QED BY <2>1, <2>2 DEF GroupOf
<1>6. GroupOf(T, k) = Block(b)
  BY <1>4, <1>5 DEF Block
<1>7. k \in Block(b)
  BY <1>3 DEF Block
<1> QED BY <1>6, <1>7

(* A block has GroupSize members. *)
LEMMA BlockSize ==
  ASSUME NEW b \in Nat \ {0}
  PROVE  IsFiniteSet(Block(b)) /\ Cardinality(Block(b)) = GroupSize
<1> DEFINE S == 1 .. GroupSize
           f == [j \in S |-> Place(b, j, GroupSize)]
<1>1. IsFiniteSet(S) /\ Cardinality(S) = GroupSize
  <2>1. Cardinality(1 .. GroupSize) = IF 1 > GroupSize THEN 0 ELSE GroupSize - 1 + 1
    BY FS_Interval
  <2> QED BY <2>1, FS_Interval
<1>2. \A x, y \in S : f[x] = f[y] => x = y
  <2> SUFFICES ASSUME NEW x \in S, NEW y \in S, f[x] = f[y] PROVE x = y
    OBVIOUS
  <2>1. Place(b, x, GroupSize) = Place(b, y, GroupSize) /\ GroupSize \in Nat \ {0}
    OBVIOUS
  <2> QED BY <2>1, PlaceUnique
<1>3. Block(b) = {f[x] : x \in S}
  BY DEF Block
<1> HIDE DEF S, f
<1>4. IsFiniteSet({f[x] : x \in S}) /\ Cardinality({f[x] : x \in S}) = Cardinality(S)
  BY <1>1, <1>2, InjectiveImage
<1> QED BY <1>1, <1>3, <1>4

(* Merged batches are made of whole groups of different trajectories. *)
LEMMA GroupsWhole ==
  ASSUME NEW T, NEW U, NEW m, NEW first, NEW last, Grouped(T, U, m, first, last),
         NEW k \in 1 .. Len(T)
  PROVE  /\ Cardinality(GroupOf(T, k)) = GroupSize
         /\ Cardinality({U[l] : l \in GroupOf(T, k)}) = GroupSize
<1>1. PICK b \in 1 .. m : GroupOf(T, k) = Block(b)
  BY GroupIsBlock
<1>2. IsFiniteSet(GroupOf(T, k)) /\ Cardinality(GroupOf(T, k)) = GroupSize
  <2>1. b \in Nat \ {0}
    BY DEF Grouped
  <2> QED BY <1>1, <2>1, BlockSize
<1>3. \A x, y \in GroupOf(T, k) : U[x] = U[y] => x = y
  BY DEF Grouped, GroupOf
<1>4. Cardinality({U[l] : l \in GroupOf(T, k)}) = Cardinality(GroupOf(T, k))
  BY <1>2, <1>3, InjectiveImage
<1> QED BY <1>2, <1>4

(* A group of a merged batch teaches something or is of the last try. *)
LEMMA GroupsTeach ==
  ASSUME NEW T, NEW U, NEW m \in Nat, NEW first, NEW last, Grouped(T, U, m, first, last),
         NEW R, Teaching(R, m), NEW k \in 1 .. Len(T)
  PROVE  \/ \E l \in GroupOf(T, k) : R[l] # R[k]
         \/ LastTry /\ phase = "idle" /\ \A l \in GroupOf(T, k) : l > Len(T) - Target
<1>1. PICK b \in 1 .. m : GroupOf(T, k) = Block(b)
  BY GroupIsBlock
<1>2. CASE Differs(R, b)
  <2>1. PICK i, j \in 1 .. GroupSize : R[Place(b, i, GroupSize)] # R[Place(b, j, GroupSize)]
    BY <1>2 DEF Differs
  <2>2. Place(b, i, GroupSize) \in Block(b) /\ Place(b, j, GroupSize) \in Block(b)
    BY DEF Block
  <2> QED BY <1>1, <2>1, <2>2
<1>3. CASE LastTry /\ phase = "idle" /\ b > m - TrainBatchSize
  <2>1. ASSUME NEW j \in 1 .. GroupSize PROVE Place(b, j, GroupSize) > Len(T) - Target
    <3> DEFINE x == m * GroupSize
               y == (b - 1) * GroupSize
               z == TrainBatchSize * GroupSize
    <3>1. m <= (b - 1) + TrainBatchSize /\ (b - 1) + TrainBatchSize \in Nat
      BY <1>3
    <3>2. x <= ((b - 1) + TrainBatchSize) * GroupSize /\ x \in Nat
      BY <3>1, ProductMonotonic
    <3>3. ((b - 1) + TrainBatchSize) * GroupSize = y + z /\ y \in Nat /\ z \in Nat
      OBVIOUS
    <3>4. Place(b, j, GroupSize) = y + j /\ Len(T) = x /\ Target = z
      BY DEF Place, Target, Grouped
    <3> HIDE DEF x, y, z
    <3> QED BY <3>2, <3>3, <3>4
  <2> QED BY <1>1, <1>3, <2>1 DEF Block
<1> QED BY <1>2, <1>3 DEF Teaching

(* dynamic_multi_turn_loop: the lists that are filtered and concatenated     *)
(* apart speak of the same trajectories, and gather_rollout_data hands over  *)
(* whole trajectories.                                                       *)
THEOREM ListsStayAligned == Spec => []ListsAligned
<1>1. SamplingInv /\ ToolsInv => ListsAligned
  <2> SUFFICES ASSUME SamplingInv, ToolsInv PROVE ListsAligned
    OBVIOUS
  <2> DEFINE T == total_trajectories
             W == MergedSuccess("success_rate")
  <2>1. Aligned(T, MergedRewards, MergedLengths, MergedTrajUid, W)
    BY DEF SamplingInv, ListsInv
  <2>2. /\ T \in Seq(Seq(TurnRows)) /\ Len(MergedRewards) = Len(T) /\ Len(MergedLengths) = Len(T)
        /\ Len(MergedTrajUid) = Len(T) /\ Len(W) = Len(T) /\ DOMAIN T = 1 .. Len(T)
    BY <2>1 DEF Aligned
  <2>3. ASSUME NEW k \in 1 .. Len(T)
        PROVE  /\ \A r \in DOMAIN T[k] : T[k][r].traj_uid = MergedTrajUid[k]
               /\ MergedRewards[k] = Cardinality({r \in Active(T[k]) : T[k][r].rewards = 1})
               /\ MergedLengths[k] = Cardinality(Active(T[k]))
               /\ W[k] <=> MergedRewards[k] = 1
    <3> DEFINE rows == T[k]
               reward == MergedRewards[k]
               length == MergedLengths[k]
               uid == MergedTrajUid[k]
               won == W[k]
    <3>1. rows \in Seq(TurnRows)
      <4> DEFINE Rows == Seq(TurnRows)
      <4>1. T \in Seq(Rows)
        BY <2>2
      <4> HIDE DEF Rows
      <4>2. T[k] \in Rows
        BY <4>1, ElementOfSeq
      <4> QED BY <4>2 DEF Rows
    <3>2. Entry(rows, reward, length, uid, won)
      BY <2>1 DEF Aligned
    <3> HIDE DEF rows, reward, length, uid, won
    <3>3. /\ length = Cardinality(Active(rows))
          /\ reward = Cardinality({r \in Active(rows) : rows[r].rewards = 1})
      BY <3>1, <3>2, EntryCounts
    <3>4. \A r \in DOMAIN rows : rows[r].traj_uid = uid
      BY <3>1, <3>2 DEF Entry
    <3>5. won <=> reward = 1
      BY <3>2 DEF Entry
    <3> QED BY <3>3, <3>4, <3>5 DEF rows, reward, length, uid, won
  <2>4. RowsMatchLengths
    BY DEF SamplingInv
  <2>5. Len(MergedToolCallings) = Len(T)
    BY DEF ToolsInv
  <2> QED BY <2>2, <2>3, <2>4, <2>5 DEF ListsAligned
<1> QED BY <1>1, SamplingInductive, ToolsStay, PTL

(* filter_group_data keeps and drops whole groups: every uid of the merged   *)
(* batch stands for GroupSize different trajectories.                        *)
THEOREM GroupsStayComplete == Spec => []GroupsComplete
<1>1. SamplingInv => GroupsComplete
  <2> SUFFICES ASSUME SamplingInv PROVE GroupsComplete
    OBVIOUS
  <2> DEFINE T == total_trajectories
  <2>1. PICK m \in Nat : Grouped(T, MergedTrajUid, m, 1, MergedCalls)
    BY DEF SamplingInv, GroupsInv
  <2>2. DOMAIN T = 1 .. Len(T)
    BY <2>1 DEF Grouped
  <2>3. ASSUME NEW k \in DOMAIN T
        PROVE  /\ Cardinality(GroupOf(T, k)) = GroupSize
               /\ Cardinality({MergedTrajUid[l] : l \in GroupOf(T, k)}) = GroupSize
    BY <2>1, <2>2, GroupsWhole
  <2> QED BY <2>2, <2>3 DEF GroupsComplete, UidAt, GroupOf
<1> QED BY <1>1, SamplingInductive, PTL

(* dynamic_multi_turn_loop ends with enough trajectories and never two       *)
(* batches of them, and only its last try may add groups that teach nothing. *)
THEOREM SamplingEnds == Spec => []SamplingEndsWell
<1>1. SamplingInv => SamplingEndsWell
  <2> SUFFICES ASSUME SamplingInv PROVE SamplingEndsWell
    OBVIOUS
  <2> DEFINE T == total_trajectories
  <2>1. PICK m \in Nat : Grouped(T, MergedTrajUid, m, 1, MergedCalls) /\ Teaching(MergedRewards, m)
    BY DEF SamplingInv, GroupsInv
  <2>2. DOMAIN T = 1 .. Len(T)
    BY <2>1 DEF Grouped
  <2>3. ASSUME NEW k \in DOMAIN T
        PROVE  \/ \E l \in GroupOf(T, k) : MergedRewards[l] # MergedRewards[k]
               \/ LastTry /\ \A l \in GroupOf(T, k) : l > Len(T) - Target
    BY <2>1, <2>2, GroupsTeach
  <2>4. /\ Len(T) < 2 * Target
        /\ status \in {"key_error", "unbound_local"} => Len(T) >= Target
    BY DEF SamplingInv, EnoughInv
  <2> QED BY <2>2, <2>3, <2>4 DEF SamplingEndsWell, UidAt, GroupOf, LastTry
<1> QED BY <1>1, SamplingInductive, PTL

=============================================================================
