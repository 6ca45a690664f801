------------------------ MODULE RewardShapingProofs -------------------------
(***************************************************************************)
(* The shaped rewards, for any number of trajectories, lengths, ranks and  *)
(* any windows: nothing is lost between the rollout and the penalties, and *)
(* every won trajectory pays each of them once.                            *)
(*                                                                         *)
(* The rows of the rollout are the turns of its trajectories, each once    *)
(* and in order (OnceInv, OrderInv), of which the returns make use; copies *)
(* and reordering leave every turn once or twice.  The lists the penalties *)
(* align by position are made from the first rows of the trajectories, of  *)
(* which each has one, wherever its rows are.                              *)
(***************************************************************************)
EXTENDS RewardShapingProperties, SequenceLemmas

-----------------------------------------------------------------------------
(* InOrder lists a set.                                                      *)
LEMMA InOrderLists ==
  ASSUME NEW S \in SUBSET Nat, IsFiniteSet(S)
  PROVE  /\ Cardinality(S) \in Nat
         /\ Lists(InOrder(S), S, Cardinality(S))
         /\ DOMAIN InOrder(S) = 1 .. Cardinality(S)
         /\ \A i, j \in DOMAIN InOrder(S) : InOrder(S)[i] = InOrder(S)[j] => i = j
         /\ \A x \in S : \E i \in DOMAIN InOrder(S) : InOrder(S)[i] = x
<1> DEFINE n == Cardinality(S)
           s == InOrder(S)
<1>1. n \in Nat
  BY FS_CardinalityType
<1>2. \E l : Lists(l, S, n)
  BY <1>1, ListExists
<1>3. \E l \in [1 .. n -> S] : \A i, j \in DOMAIN l : i < j => l[i] < l[j]
  <2>1. PICK l : Lists(l, S, n)
    BY <1>2
  <2>2. l \in [1 .. n -> S] /\ \A i, j \in DOMAIN l : i < j => l[i] < l[j]
    BY <2>1 DEF Lists
  <2> QED BY <2>2
<1>4. s \in [1 .. n -> S] /\ \A i, j \in DOMAIN s : i < j => s[i] < s[j]
  BY <1>3 DEF InOrder
<1> HIDE DEF s
<1>5. DOMAIN s = 1 .. n /\ Lists(s, S, n)
  BY <1>4 DEF Lists
<1>6. /\ \A i, j \in 1 .. n : s[i] = s[j] => i = j
      /\ \A x \in S : \E i \in 1 .. n : s[i] = x
  BY <1>5, ListIsWhole
<1> QED BY <1>1, <1>5, <1>6 DEF s

(* It is a sequence. *)
LEMMA InOrderIsSeq ==
  ASSUME NEW S \in SUBSET Nat, IsFiniteSet(S)
  PROVE  /\ InOrder(S) \in Seq(S) /\ Len(InOrder(S)) = Cardinality(S)
         /\ \A i, j \in 1 .. Len(InOrder(S)) : i < j => InOrder(S)[i] < InOrder(S)[j]
<1> DEFINE n == Cardinality(S)
           s == InOrder(S)
<1>1. n \in Nat /\ Lists(s, S, n)
  BY InOrderLists
<1>2. s \in [1 .. n -> S] /\ \A i, j \in 1 .. n : i < j => s[i] < s[j]
  BY <1>1 DEF Lists
<1> HIDE DEF s, n
<1>3. s \in Seq(S) /\ Len(s) = n
  BY <1>1, <1>2
<1> QED BY <1>2, <1>3 DEF s, n

(* A set of positions is finite. *)
LEMMA PositionsAreFinite ==
  ASSUME NEW n \in Nat, NEW S \in SUBSET (1 .. n)
  PROVE  IsFiniteSet(S) /\ S \in SUBSET Nat /\ Cardinality(S) \in Nat
<1>1. IsFiniteSet(1 .. n)
  BY FS_Interval
<1>2. IsFiniteSet(S)
  BY <1>1, FS_Subset
<1> QED BY <1>2, FS_CardinalityType

-----------------------------------------------------------------------------
(* The invariant.                                                            *)

RowSet ==
  [traj_uid : Ids, turn : 1 .. MaxLength, rewards : {0, 1}, episode_rewards : {0, 1},
   tool_callings : Nat, total_output_tokens : Nat,
   step_rewards : Nat, token_penalty : Int, dt_penalty : Int]

(* The row says what its episode was. *)
Tells(row, e) ==
  /\ row.turn <= e.length
  /\ row.rewards = (IF e.won /\ row.turn = e.length THEN 1 ELSE 0)
  /\ row.episode_rewards = (IF e.won THEN 1 ELSE 0)
  /\ row.tool_callings = e.calls
  /\ row.total_output_tokens = TokensOf(e)

TypeInv ==
  /\ stage \in Stages
  /\ batch \in Seq(RowSet)
  /\ stage # "rollout" => episodes \in [Ids -> Episodes]
  /\ stage = "rollout" => batch = <<>>
  /\ won_buffer \in Seq({0, 1}) /\ won_dt_buffer \in Seq(Nat)

TruthInv == \A i \in DOMAIN batch : Tells(batch[i], episodes[batch[i].traj_uid])

TurnAt(i) == <<batch[i].traj_uid, batch[i].turn>>

OnceInv ==
  stage \in {"returns", "adjust"} =>
    /\ \A i, j \in DOMAIN batch : TurnAt(i) = TurnAt(j) => i = j
    /\ \A turn \in Turns : \E i \in DOMAIN batch : TurnAt(i) = turn

OrderInv ==
  stage = "returns" =>
    \A i, j \in DOMAIN batch :
      i < j /\ batch[i].traj_uid = batch[j].traj_uid => batch[i].turn < batch[j].turn

ReturnsInv ==
  stage \in {"adjust", "balance", "token", "quality", "done"} =>
    \A i \in DOMAIN batch :
      batch[i].step_rewards = IF episodes[batch[i].traj_uid].won THEN 1 ELSE 0

(* The verdicts are aligned with the trajectories until the next rollout. *)
WonInv == stage \in {"quality", "done"} => won_arr = WonArray(batch)

ShapingInv ==
  /\ TypeInv /\ TruthInv /\ OnceInv /\ OrderInv /\ ReturnsInv /\ WonInv
  /\ NothingLost /\ PenaltiesPaidOnce

-----------------------------------------------------------------------------
(* Rollout.                                                                  *)

LEMMA RowFields ==
  ASSUME NEW row \in RowSet
  PROVE  /\ row.traj_uid \in Ids /\ row.turn \in 1 .. MaxLength /\ row.turn \in Nat
         /\ row.rewards \in {0, 1} /\ row.episode_rewards \in {0, 1}
         /\ row.tool_callings \in Nat /\ row.total_output_tokens \in Nat
         /\ row.step_rewards \in Nat /\ row.token_penalty \in Int /\ row.dt_penalty \in Int
  BY SizesAssumption DEF RowSet

LEMMA EpisodesAre ==
  ASSUME NEW e \in Episodes
  PROVE  /\ e.length \in 1 .. MaxLength /\ e.won \in BOOLEAN /\ e.calls \in Nat
         /\ e.length \in Nat \ {0} /\ TokensOf(e) \in Nat
  BY SizesAssumption DEF Episodes, TokensOf

LEMMA RowsAre ==
  ASSUME NEW t \in Ids, NEW e \in Episodes
  PROVE  /\ RowsOf(t, e) \in Seq(RowSet) /\ Len(RowsOf(t, e)) = e.length
         /\ \A k \in 1 .. e.length :
              /\ RowsOf(t, e)[k].traj_uid = t /\ RowsOf(t, e)[k].turn = k
              /\ RowsOf(t, e)[k].rewards = IF e.won /\ k = e.length THEN 1 ELSE 0
              /\ RowsOf(t, e)[k].episode_rewards = IF e.won THEN 1 ELSE 0
              /\ RowsOf(t, e)[k].tool_callings = e.calls
              /\ RowsOf(t, e)[k].total_output_tokens = TokensOf(e)
<1>1. /\ e.length \in 1 .. MaxLength /\ e.calls \in Nat /\ TokensOf(e) \in Nat
      /\ e.length \in Nat /\ 1 .. e.length \subseteq 1 .. MaxLength
  BY EpisodesAre, SizesAssumption
<1> DEFINE n == e.length
           q == RowsOf(t, e)
<1>2. \A k \in 1 .. n : q[k] \in RowSet
  BY <1>1 DEF RowsOf, RowSet
<1>3. q = [k \in 1 .. n |-> q[k]]
  BY DEF RowsOf
<1>4. \A k \in 1 .. n :
        /\ q[k].traj_uid = t /\ q[k].turn = k
        /\ q[k].rewards = IF e.won /\ k = n THEN 1 ELSE 0
        /\ q[k].episode_rewards = IF e.won THEN 1 ELSE 0
        /\ q[k].tool_callings = e.calls
        /\ q[k].total_output_tokens = TokensOf(e)
  BY DEF RowsOf
<1> HIDE DEF q
<1>5. q \in Seq(RowSet) /\ Len(q) = n
  BY <1>1, <1>2, <1>3
<1> QED BY <1>4, <1>5 DEF q

LEMMA RolloutKeeps == ASSUME ShapingInv, Rollout PROVE ShapingInv'
<1> DEFINE seqs  == [t \in Ids |-> RowsOf(t, episodes'[t])]
           tag   == [row \in RowSet |-> row.traj_uid]
           place == [row \in RowSet |-> row.turn]
           q     == FlattenSeq(seqs)
<1>1. /\ episodes' \in [Ids -> Episodes] /\ batch' = q /\ stage' = "returns"
      /\ UNCHANGED windows
  BY DEF Rollout
<1>2. Trajectories \in Nat /\ Ids = 1 .. Trajectories
  BY SizesAssumption DEF Ids
<1>3. \A t \in Ids : episodes'[t] \in Episodes
  BY <1>1
<1>4. \A t \in Ids : seqs[t] = RowsOf(t, episodes'[t])
  OBVIOUS
<1>5. seqs \in [Ids -> Seq(RowSet)]
  BY <1>3, RowsAre
<1>6. \A row \in RowSet : tag[row] = row.traj_uid /\ place[row] = row.turn
  OBVIOUS
<1> HIDE DEF seqs, tag, place
<1>7. \A t \in Ids : \A k \in 1 .. Len(seqs[t]) : seqs[t][k] \in RowSet
  BY <1>5
<1>8. \A t \in Ids : /\ Len(seqs[t]) = episodes'[t].length
                     /\ \A k \in 1 .. Len(seqs[t]) : seqs[t][k].traj_uid = t /\ seqs[t][k].turn = k
  BY <1>3, <1>4, RowsAre
<1>9. TagsTell(tag, seqs, Trajectories)
  BY <1>2, <1>6, <1>7, <1>8 DEF TagsTell
<1>10. \A t \in 1 .. Trajectories : \A i, j \in 1 .. Len(seqs[t]) :
         i < j => place[seqs[t][i]] < place[seqs[t][j]]
  BY <1>2, <1>6, <1>7, <1>8
<1>11. /\ q \in Seq(RowSet) /\ Drawn(q, tag, seqs) /\ Rising(q, tag, place)
       /\ Covers(q, tag, seqs, Trajectories)
  BY <1>2, <1>5, <1>9, <1>10, FlattenRises
<1> HIDE DEF q
<1>12. DOMAIN q = 1 .. Len(q) /\ \A i \in 1 .. Len(q) : q[i] \in RowSet /\ q[i].traj_uid \in Ids
  <2>1. DOMAIN q = 1 .. Len(q) /\ \A i \in 1 .. Len(q) : q[i] \in RowSet
    BY <1>11
  <2> QED BY <2>1, RowFields
<1>13. \A i \in DOMAIN q : tag[q[i]] = q[i].traj_uid /\ place[q[i]] = q[i].turn
  BY <1>6, <1>12
<1>14. ASSUME NEW i \in DOMAIN q
       PROVE  \E k \in 1 .. episodes'[q[i].traj_uid].length :
                q[i] = RowsOf(q[i].traj_uid, episodes'[q[i].traj_uid])[k]
  <2>1. \E k \in 1 .. Len(seqs[q[i].traj_uid]) : q[i] = seqs[q[i].traj_uid][k]
    BY <1>11, <1>12, <1>13 DEF Drawn
  <2>2. q[i].traj_uid \in Ids
    BY <1>12
  <2> QED BY <1>4, <1>8, <2>1, <2>2
<1>15. TypeInv'
  <2>1. won_buffer' = won_buffer /\ won_dt_buffer' = won_dt_buffer
    BY <1>1 DEF windows
  <2>2. stage' \in Stages /\ stage' # "rollout"
    BY <1>1 DEF Stages
  <2>3. won_buffer \in Seq({0, 1}) /\ won_dt_buffer \in Seq(Nat)
    BY DEF ShapingInv, TypeInv
  <2> QED BY <1>1, <1>11, <2>1, <2>2, <2>3 DEF TypeInv
<1>16. TruthInv'
  <2> SUFFICES ASSUME NEW i \in DOMAIN q PROVE Tells(q[i], episodes'[q[i].traj_uid])
    BY <1>1 DEF TruthInv
  <2> DEFINE t == q[i].traj_uid
             e == episodes'[t]
  <2>1. t \in Ids /\ e \in Episodes
    BY <1>3, <1>12
  <2>2. PICK k \in 1 .. e.length : q[i] = RowsOf(t, e)[k]
    BY <1>14
  <2> DEFINE row == q[i]
  <2> HIDE DEF t, e
  <2>3. /\ row.turn = k
        /\ row.rewards = IF e.won /\ k = e.length THEN 1 ELSE 0
        /\ row.episode_rewards = IF e.won THEN 1 ELSE 0
        /\ row.tool_callings = e.calls
        /\ row.total_output_tokens = TokensOf(e)
    BY <2>1, <2>2, RowsAre
  <2>4. k <= e.length
    <3>1. e.length \in Nat
      BY <2>1, EpisodesAre
    <3> QED BY <3>1
  <2>5. Tells(row, e)
    <3> HIDE DEF row
    <3> QED BY <2>3, <2>4 DEF Tells
  <2> QED BY <2>5 DEF t, e
<1>17. OrderInv'
  <2>1. \A i, j \in DOMAIN q : i < j /\ q[i].traj_uid = q[j].traj_uid => q[i].turn < q[j].turn
    BY <1>11, <1>12, <1>13 DEF Rising
  <2> QED BY <1>1, <2>1 DEF OrderInv
<1>18. OnceInv'
  <2>1. ASSUME NEW i \in DOMAIN q, NEW j \in DOMAIN q, q[i].traj_uid = q[j].traj_uid,
               q[i].turn = q[j].turn
        PROVE  i = j
    <3>1. q[i].turn \in Nat
      BY <1>12, RowFields
    <3>2. ~(i < j) /\ ~(j < i)
      BY <1>1, <1>17, <2>1, <3>1 DEF OrderInv
    <3> QED BY <1>12, <3>2
  <2>2. ASSUME NEW turn \in Turns' PROVE \E i \in DOMAIN q : <<q[i].traj_uid, q[i].turn>> = turn
    <3> DEFINE t == turn[1]
               k == turn[2]
    <3>1. t \in Ids /\ k \in 1 .. MaxLength /\ k <= episodes'[t].length /\ turn = <<t, k>>
      BY DEF Turns
    <3>2. episodes'[t].length \in Nat
      BY <1>3, <3>1, EpisodesAre
    <3>3. k \in 1 .. Len(seqs[t])
      BY <1>8, <3>1, <3>2, SizesAssumption
    <3> HIDE DEF t, k
    <3>4. PICK p \in 1 .. Len(q) : q[p] = seqs[t][k]
      BY <1>2, <1>11, <3>1, <3>3 DEF Covers
    <3>5. q[p].traj_uid = t /\ q[p].turn = k
      BY <1>8, <3>1, <3>3, <3>4
    <3> QED BY <1>12, <3>1, <3>5
  <2> QED BY <1>1, <2>1, <2>2 DEF OnceInv, TurnAt
<1>19. ReturnsInv' /\ WonInv' /\ NothingLost' /\ PenaltiesPaidOnce'
  BY <1>1 DEF ReturnsInv, WonInv, NothingLost, PenaltiesPaidOnce, TokensPaidOnce, DeviationPaidOnce
<1> QED BY <1>15, <1>16, <1>17, <1>18, <1>19 DEF ShapingInv

-----------------------------------------------------------------------------
(* The step returns.                                                         *)

(* The rows are of the same turn: they differ in what the trainer adds only. *)
Alike(a, b) ==
  /\ a.traj_uid = b.traj_uid /\ a.turn = b.turn
  /\ a.rewards = b.rewards /\ a.episode_rewards = b.episode_rewards
  /\ a.tool_callings = b.tool_callings /\ a.total_output_tokens = b.total_output_tokens

LEMMA RowsChange ==
  ASSUME NEW row \in RowSet
  PROVE  /\ \A v \in Nat : LET new == [row EXCEPT !.step_rewards = v]
                          IN  new \in RowSet /\ Alike(new, row) /\ new.step_rewards = v
         /\ \A v \in Int : LET new == [row EXCEPT !.token_penalty = v]
                          IN  /\ new \in RowSet /\ Alike(new, row)
                              /\ new.step_rewards = row.step_rewards /\ new.token_penalty = v
         /\ \A v \in Int : LET new == [row EXCEPT !.dt_penalty = v]
                          IN  /\ new \in RowSet /\ Alike(new, row)
                              /\ new.step_rewards = row.step_rewards
                              /\ new.token_penalty = row.token_penalty /\ new.dt_penalty = v
<1>1. ASSUME NEW v \in Nat
      PROVE  LET new == [row EXCEPT !.step_rewards = v]
             IN  new \in RowSet /\ Alike(new, row) /\ new.step_rewards = v
  BY DEF RowSet, Alike
<1>2. ASSUME NEW v \in Int
      PROVE  LET new == [row EXCEPT !.token_penalty = v]
             IN  /\ new \in RowSet /\ Alike(new, row)
                 /\ new.step_rewards = row.step_rewards /\ new.token_penalty = v
  BY DEF RowSet, Alike
<1>3. ASSUME NEW v \in Int
      PROVE  LET new == [row EXCEPT !.dt_penalty = v]
             IN  /\ new \in RowSet /\ Alike(new, row)
                 /\ new.step_rewards = row.step_rewards
                 /\ new.token_penalty = row.token_penalty /\ new.dt_penalty = v
  BY DEF RowSet, Alike
<1> QED BY <1>1, <1>2, <1>3

LEMMA AlikeTells ==
  ASSUME NEW a, NEW b, Alike(a, b), NEW e, Tells(b, e)
  PROVE  Tells(a, e)
  BY DEF Alike, Tells

LEMMA BatchRows ==
  ASSUME TypeInv
  PROVE  /\ Len(batch) \in Nat /\ DOMAIN batch = 1 .. Len(batch)
         /\ \A i \in DOMAIN batch : batch[i] \in RowSet /\ batch[i].traj_uid \in Ids
<1>1. /\ Len(batch) \in Nat /\ DOMAIN batch = 1 .. Len(batch)
      /\ \A i \in DOMAIN batch : batch[i] \in RowSet
  BY DEF TypeInv
<1> QED BY <1>1, RowFields

(* The reward to go of a row is its trajectory's verdict: the last row is not*)
(* before it, and has the only reward.                                       *)
LEMMA ReturnIsVerdict ==
  ASSUME TypeInv, TruthInv, OnceInv, OrderInv, stage = "returns", NEW i \in DOMAIN batch
  PROVE  ReturnOf(batch, i) = IF episodes[batch[i].traj_uid].won THEN 1 ELSE 0
<1> DEFINE t == batch[i].traj_uid
           e == episodes[t]
           S == {k \in i .. Len(batch) : batch[k].traj_uid = t /\ batch[k].rewards = 1}
<1>1. /\ Len(batch) \in Nat /\ DOMAIN batch = 1 .. Len(batch)
      /\ \A k \in DOMAIN batch : batch[k] \in RowSet
  BY BatchRows
<1>2. t \in Ids /\ e \in Episodes
  <2>1. t \in Ids
    BY <1>1, RowFields
  <2> QED BY <2>1 DEF TypeInv
<1>3. e.length \in 1 .. MaxLength /\ e.length \in Nat /\ e.won \in BOOLEAN
  BY <1>2, EpisodesAre
<1>4. \A k \in DOMAIN batch : batch[k].traj_uid = t =>
        /\ batch[k].turn <= e.length /\ batch[k].turn \in Nat
        /\ batch[k].rewards = (IF e.won /\ batch[k].turn = e.length THEN 1 ELSE 0)
  BY <1>1, RowFields DEF TruthInv, Tells
<1>5. ReturnOf(batch, i) = Cardinality(S)
  BY DEF ReturnOf
<1>6. i .. Len(batch) \subseteq DOMAIN batch /\ i \in Nat
  BY <1>1
<1>7. CASE ~e.won
  <2>1. S = {}
    BY <1>4, <1>6, <1>7
  <2> QED BY <1>5, <1>7, <2>1, FS_EmptySet
<1>8. CASE e.won
  <2>1. <<t, e.length>> \in Turns
    BY <1>2, <1>3 DEF Turns
  <2>2. PICK p \in DOMAIN batch : TurnAt(p) = <<t, e.length>>
    BY <2>1 DEF OnceInv
  <2>3. batch[p].traj_uid = t /\ batch[p].turn = e.length
    BY <2>2 DEF TurnAt
  <2>4. batch[p].rewards = 1
    BY <1>4, <1>8, <2>3
  <2>5. ~(p < i)
    <3>1. p < i => batch[p].turn < batch[i].turn
      BY <2>3 DEF OrderInv
    <3> QED BY <1>3, <1>4, <2>3, <3>1
  <2>6. p \in S
    BY <1>1, <1>6, <2>3, <2>4, <2>5
  <2>7. ASSUME NEW k \in S PROVE k = p
    <3>1. k \in DOMAIN batch /\ batch[k].traj_uid = t /\ batch[k].turn = e.length
      BY <1>4, <1>6
    <3>2. TurnAt(k) = TurnAt(p)
      BY <2>2, <3>1 DEF TurnAt
    <3> QED BY <2>2, <3>1, <3>2 DEF OnceInv
  <2> HIDE DEF S
  <2>8. S = {p}
    BY <2>6, <2>7
  <2> QED BY <1>5, <1>8, <2>8, FS_Singleton
<1> QED BY <1>3, <1>7, <1>8

LEMMA ReturnsKeep == ASSUME ShapingInv, StepReturns PROVE ShapingInv'
<1>1. /\ stage = "returns" /\ stage' = "adjust"
      /\ batch' = [i \in DOMAIN batch |-> [batch[i] EXCEPT !.step_rewards = ReturnOf(batch, i)]]
      /\ UNCHANGED <<episodes, won_buffer, won_dt_buffer>>
  BY DEF StepReturns, windows
<1>2. TypeInv /\ TruthInv /\ OnceInv /\ OrderInv
  BY DEF ShapingInv
<1>3. /\ Len(batch) \in Nat /\ DOMAIN batch = 1 .. Len(batch)
      /\ \A i \in DOMAIN batch : batch[i] \in RowSet /\ batch[i].traj_uid \in Ids
  BY <1>2, BatchRows
<1>4. DOMAIN batch' = DOMAIN batch /\ batch' = [i \in DOMAIN batch |-> batch'[i]]
  BY <1>1
<1>5. ASSUME NEW i \in DOMAIN batch
      PROVE  /\ batch'[i] \in RowSet /\ Alike(batch'[i], batch[i])
             /\ batch'[i].step_rewards = IF episodes[batch[i].traj_uid].won THEN 1 ELSE 0
  <2>1. ReturnOf(batch, i) = IF episodes[batch[i].traj_uid].won THEN 1 ELSE 0
    BY <1>1, <1>2, ReturnIsVerdict
  <2>2. ReturnOf(batch, i) \in Nat
    BY <2>1
  <2>3. batch'[i] = [batch[i] EXCEPT !.step_rewards = ReturnOf(batch, i)]
    BY <1>1
  <2> QED BY <1>3, <2>1, <2>2, <2>3, RowsChange
<1>6. TypeInv'
  <2>1. batch' \in Seq(RowSet)
    BY <1>3, <1>4, <1>5
  <2> QED BY <1>1, <1>2, <2>1 DEF TypeInv, Stages
<1>7. TruthInv'
  <2> SUFFICES ASSUME NEW i \in DOMAIN batch PROVE Tells(batch'[i], episodes[batch'[i].traj_uid])
    BY <1>1, <1>4 DEF TruthInv
  <2>1. batch'[i].traj_uid = batch[i].traj_uid
    BY <1>5 DEF Alike
  <2> QED BY <1>2, <1>5, <2>1, AlikeTells DEF TruthInv
<1>8. OnceInv'
  <2>1. Turns' = Turns
    BY <1>1 DEF Turns
  <2>2. \A i \in DOMAIN batch : TurnAt(i)' = TurnAt(i)
    BY <1>5 DEF TurnAt, Alike
  <2> QED BY <1>1, <1>2, <1>4, <2>1, <2>2 DEF OnceInv
<1>9. ReturnsInv'
  BY <1>1, <1>4, <1>5 DEF ReturnsInv, Alike
<1>10. OrderInv' /\ WonInv' /\ NothingLost' /\ PenaltiesPaidOnce'
  BY <1>1 DEF OrderInv, WonInv, NothingLost, PenaltiesPaidOnce, TokensPaidOnce, DeviationPaidOnce
<1> QED BY <1>6, <1>7, <1>8, <1>9, <1>10 DEF ShapingInv

-----------------------------------------------------------------------------
(* The size the ranks can share.                                             *)

(* What is missing to the next multiple is less than the divisor.            *)
LEMMA ToAddFits ==
  ASSUME NEW n \in Nat
  PROVE  /\ ToAdd(n) \in Nat /\ ToAdd(n) < SizeDivisor
         /\ (n + ToAdd(n)) % SizeDivisor = 0
<1> DEFINE D == SizeDivisor
           r == n % D
           q == n \div D
<1>1. D \in Nat \ {0}
  BY SizesAssumption
<1>2. r \in 0 .. (D - 1) /\ q \in Nat /\ n = D * q + r
  BY <1>1
<1>3. ToAdd(n) = IF r = 0 THEN 0 ELSE D - r
  BY DEF ToAdd
<1> HIDE DEF r, q, D
<1>4. ToAdd(n) \in Nat /\ ToAdd(n) < D
  BY <1>1, <1>2, <1>3
<1>5. \A m \in Nat : (D * m) % D = 0
  BY <1>1
<1>6. n + ToAdd(n) = D * q \/ n + ToAdd(n) = D * (q + 1)
  BY <1>1, <1>2, <1>3
<1>7. (n + ToAdd(n)) % D = 0
  BY <1>2, <1>5, <1>6
<1> QED BY <1>4, <1>7 DEF D

(* The rows of a rollout are the turns of its trajectories.                  *)
LEMMA TurnsCounted ==
  ASSUME TypeInv, TruthInv, OnceInv, stage = "adjust"
  PROVE  Cardinality(Turns) = Len(batch)
<1> DEFINE f == [i \in DOMAIN batch |-> TurnAt(i)]
<1>1. /\ Len(batch) \in Nat /\ DOMAIN batch = 1 .. Len(batch)
      /\ \A i \in DOMAIN batch : batch[i] \in RowSet /\ batch[i].traj_uid \in Ids
  BY BatchRows
<1>2. IsFiniteSet(DOMAIN batch) /\ Cardinality(DOMAIN batch) = Len(batch)
  BY <1>1, FS_Interval
<1>3. \A i, j \in DOMAIN batch : f[i] = f[j] => i = j
  BY DEF OnceInv
<1>4. \A i \in DOMAIN batch : f[i] \in Turns
  <2>1. ASSUME NEW i \in DOMAIN batch PROVE TurnAt(i) \in Turns
    <3>1. batch[i].traj_uid \in Ids /\ batch[i].turn \in 1 .. MaxLength
      BY <1>1, RowFields
    <3>2. batch[i].turn <= episodes[batch[i].traj_uid].length
      BY DEF TruthInv, Tells
    <3> QED BY <3>1, <3>2 DEF Turns, TurnAt
  <2> QED BY <2>1
<1>5. \A turn \in Turns : \E i \in DOMAIN batch : f[i] = turn
  BY DEF OnceInv
<1> HIDE DEF f
<1>6. {f[i] : i \in DOMAIN batch} = Turns
  BY <1>4, <1>5
<1>7. Cardinality({f[i] : i \in DOMAIN batch}) = Cardinality(DOMAIN batch)
  BY <1>2, <1>3, InjectiveImage
<1> QED BY <1>2, <1>6, <1>7

LEMMA PairCardinality ==
  ASSUME NEW p, NEW x
  PROVE  Cardinality({p, x}) \in {1, 2} /\ Cardinality({p}) = 1
<1>1. IsFiniteSet({p}) /\ Cardinality({p}) = 1
  BY FS_Singleton
<1>2. {p, x} = {p} \cup {x}
  OBVIOUS
<1> QED BY <1>1, <1>2, FS_AddElement

LEMMA AdjustKeeps == ASSUME ShapingInv, AdjustBatch PROVE ShapingInv'
<1> DEFINE L == Len(batch)
           n == ToAdd(L)
<1>1. stage = "adjust" /\ UNCHANGED <<episodes, won_buffer, won_dt_buffer>>
  BY DEF AdjustBatch, windows
<1>2. TypeInv /\ TruthInv /\ OnceInv /\ ReturnsInv
  BY DEF ShapingInv
<1>3. /\ L \in Nat /\ DOMAIN batch = 1 .. L
      /\ \A i \in DOMAIN batch : batch[i] \in RowSet /\ batch[i].traj_uid \in Ids
  BY <1>2, BatchRows
<1>4. n \in Nat /\ n < SizeDivisor /\ (L + n) % SizeDivisor = 0
  BY <1>3, ToAddFits
<1>5. ASSUME stage' = "raised", UNCHANGED batch
      PROVE  ShapingInv'
  <2>1. TypeInv' /\ TruthInv'
    BY <1>1, <1>2, <1>5 DEF TypeInv, TruthInv, Stages
  <2>2. OnceInv' /\ OrderInv' /\ ReturnsInv' /\ WonInv' /\ NothingLost' /\ PenaltiesPaidOnce'
    BY <1>5 DEF OnceInv, OrderInv, ReturnsInv, WonInv, NothingLost, PenaltiesPaidOnce,
                TokensPaidOnce, DeviationPaidOnce
  <2> QED BY <2>1, <2>2 DEF ShapingInv
<1>6. ASSUME stage' = "balance", NEW dup \in [1 .. n -> DOMAIN batch], IsInjective(dup),
             batch' = batch \o [k \in 1 .. n |-> batch[dup[k]]]
      PROVE  ShapingInv'
  <2> DEFINE new == [k \in 1 .. n |-> batch[dup[k]]]
             N   == L + n
             q   == batch'
  <2> HIDE DEF n, L
  <2>1. new \in Seq(RowSet) /\ Len(new) = n
    BY <1>3, <1>4, <1>6
  <2>2. batch \in Seq(RowSet) /\ Len(batch) = L
    BY <1>2 DEF TypeInv, L
  <2>3. \A k \in 1 .. n : new[k] = batch[dup[k]] /\ dup[k] \in DOMAIN batch
    BY <1>6
  <2>4. q = batch \o new
    BY <1>6
  <2> HIDE DEF new, q
  <2>5. /\ q \in Seq(RowSet) /\ Len(q) = L + n
        /\ \A i \in 1 .. (L + n) : q[i] = IF i <= L THEN batch[i] ELSE new[i - L]
    BY <2>1, <2>2, <2>4, ConcatElements
  <2>6. DOMAIN q = 1 .. N /\ Len(q) = N /\ N \in Nat
    BY <1>3, <1>4, <2>5
  <2>7. ASSUME NEW i \in 1 .. N
        PROVE  q[i] = IF i <= L THEN batch[i] ELSE batch[dup[i - L]]
    <3>1. q[i] = IF i <= L THEN batch[i] ELSE new[i - L]
      BY <2>5
    <3>2. ~(i <= L) => i - L \in 1 .. n
      <4>1. L \in Nat /\ n \in Nat
        BY <1>3, <1>4
      <4> QED BY <4>1
    <3> QED BY <2>3, <3>1, <3>2
  <2>8. ASSUME NEW i \in DOMAIN q PROVE \E j \in DOMAIN batch : q[i] = batch[j]
    <3>1. CASE i <= L
      BY <1>3, <2>6, <2>7, <3>1
    <3>2. CASE ~(i <= L)
      <4>1. i - L \in 1 .. n
        BY <1>3, <1>4, <2>6, <3>2
      <4> QED BY <1>6, <2>6, <2>7, <3>2, <4>1
    <3> QED BY <3>1, <3>2
  <2>9. TypeInv'
    BY <1>1, <1>2, <1>6, <2>5 DEF TypeInv, Stages, q
  <2>10. TruthInv'
    <3> SUFFICES ASSUME NEW i \in DOMAIN q PROVE Tells(q[i], episodes[q[i].traj_uid])
      BY <1>1 DEF TruthInv, q
    <3> QED BY <1>2, <2>8 DEF TruthInv
  <2>11. ReturnsInv'
    <3> SUFFICES ASSUME NEW i \in DOMAIN q
                 PROVE  q[i].step_rewards = IF episodes[q[i].traj_uid].won THEN 1 ELSE 0
      BY <1>1 DEF ReturnsInv, q
    <3> QED BY <1>1, <1>2, <2>8 DEF ReturnsInv
  <2>12. ASSUME NEW turn \in Turns
         PROVE  Cardinality({i \in 1 .. N : q[i].traj_uid = turn[1] /\ q[i].turn = turn[2]}) \in {1, 2}
    <3> DEFINE T == {i \in 1 .. N : q[i].traj_uid = turn[1] /\ q[i].turn = turn[2]}
    <3>1. PICK p \in DOMAIN batch : TurnAt(p) = turn
      BY <1>1, <1>2 DEF OnceInv
    <3>2. batch[p].traj_uid = turn[1] /\ batch[p].turn = turn[2] /\ turn = <<turn[1], turn[2]>>
      BY <3>1 DEF TurnAt
    <3>3. \A j \in DOMAIN batch :
            batch[j].traj_uid = turn[1] /\ batch[j].turn = turn[2] => j = p
      BY <1>1, <1>2, <3>1, <3>2 DEF OnceInv, TurnAt
    <3>4. p \in 1 .. N /\ p <= L /\ q[p] = batch[p]
      BY <1>3, <1>4, <2>7
    <3>5. \A i \in T : i <= L => i = p
      BY <1>3, <2>7, <3>3
    <3>6. \A i \in T : ~(i <= L) => i - L \in 1 .. n /\ dup[i - L] = p
      <4> SUFFICES ASSUME NEW i \in T, ~(i <= L) PROVE i - L \in 1 .. n /\ dup[i - L] = p
        OBVIOUS
      <4>1. i \in 1 .. N /\ q[i].traj_uid = turn[1] /\ q[i].turn = turn[2]
        OBVIOUS
      <4>2. i - L \in 1 .. n
        BY <1>3, <1>4, <4>1
      <4>3. q[i] = batch[dup[i - L]] /\ dup[i - L] \in DOMAIN batch
        BY <1>6, <2>7, <4>1, <4>2
      <4> QED BY <3>3, <4>1, <4>2, <4>3
    <3>7. \A i, j \in T : ~(i <= L) /\ ~(j <= L) => i = j
      <4>1. \A x, y \in 1 .. n : dup[x] = dup[y] => x = y
        BY <1>6 DEF IsInjective
      <4>2. \A i \in T : i \in Int
        BY <2>6
      <4> HIDE DEF T
      <4> SUFFICES ASSUME NEW i \in T, NEW j \in T, ~(i <= L), ~(j <= L) PROVE i = j
        OBVIOUS
      <4>3. i - L = j - L
        BY <3>6, <4>1
      <4> QED BY <1>3, <4>2, <4>3
    <3>8. p \in T
      BY <3>2, <3>4
    <3> HIDE DEF T
    <3>9. T = {p} \/ \E x : T = {p, x}
      <4>1. CASE \E x \in T : ~(x <= L)
        <5>1. PICK x \in T : ~(x <= L)
          BY <4>1
        <5>2. T = {p, x}
          BY <3>5, <3>7, <3>8, <5>1
        <5> QED BY <5>2
      <4>2. CASE ~\E x \in T : ~(x <= L)
        BY <3>5, <3>8, <4>2
      <4> QED BY <4>1, <4>2
    <3>10. Cardinality(T) \in {1, 2}
      BY <3>9, PairCardinality
    <3> QED BY <3>10 DEF T
  <2>13. NothingLost'
    <3>1. Turns' = Turns
      BY <1>1 DEF Turns
    <3>2. Cardinality(Turns) = L
      BY <1>1, <1>2, TurnsCounted DEF L
    <3>3. Len(q) % SizeDivisor = 0 /\ Len(q) - Cardinality(Turns) < SizeDivisor
      BY <1>3, <1>4, <2>6, <3>2, SizesAssumption
    <3>4. \A turn \in Turns : {i \in IsOf(turn[1])' : batch'[i].turn = turn[2]}
             = {i \in 1 .. N : q[i].traj_uid = turn[1] /\ q[i].turn = turn[2]}
      BY <2>6 DEF IsOf, q
    <3> QED BY <2>12, <3>1, <3>3, <3>4 DEF NothingLost, q
  <2>14. OnceInv' /\ OrderInv' /\ WonInv' /\ PenaltiesPaidOnce'
    BY <1>6 DEF OnceInv, OrderInv, WonInv, PenaltiesPaidOnce, TokensPaidOnce, DeviationPaidOnce
  <2> QED BY <2>9, <2>10, <2>11, <2>13, <2>14 DEF ShapingInv
<1> QED BY <1>5, <1>6 DEF AdjustBatch

-----------------------------------------------------------------------------
(* Balancing.                                                                *)

(* g names every position up to n once.                                      *)
Reorders(g, n) ==
  /\ g \in Seq(1 .. n) /\ Len(g) = n
  /\ \A i, j \in 1 .. n : g[i] = g[j] => i = j
  /\ \A x \in 1 .. n : \E i \in 1 .. n : g[i] = x

LEMMA IntervalCounts ==
  ASSUME NEW n \in Nat
  PROVE  IsFiniteSet(1 .. n) /\ Cardinality(1 .. n) = n
<1>1. IsFiniteSet(1 .. n) /\ Cardinality(1 .. n) = IF 1 > n THEN 0 ELSE n - 1 + 1
  BY FS_Interval
<1> QED BY <1>1

(* Dealing rows to ranks and listing them by rank reorders them.             *)
LEMMA DealingReorders ==
  ASSUME NEW n \in Nat, NEW m \in Nat, NEW rank \in [1 .. n -> 1 .. m]
  PROVE  Reorders(FlattenSeq([r \in 1 .. m |-> InOrder({i \in 1 .. n : rank[i] = r})]), n)
<1> DEFINE part(r) == {i \in 1 .. n : rank[i] = r}
           seqs    == [r \in 1 .. m |-> InOrder(part(r))]
           place   == [i \in 1 .. n |-> i]
           g       == FlattenSeq(seqs)
<1>1. ASSUME NEW r \in 1 .. m
      PROVE  /\ seqs[r] \in Seq(1 .. n)
             /\ \A k \in 1 .. Len(seqs[r]) : seqs[r][k] \in 1 .. n /\ rank[seqs[r][k]] = r
             /\ \A i, j \in 1 .. Len(seqs[r]) : i < j => seqs[r][i] < seqs[r][j]
             /\ \A x \in part(r) : \E k \in 1 .. Len(seqs[r]) : seqs[r][k] = x
  <2> DEFINE P == part(r)
             s == InOrder(P)
  <2>1. IsFiniteSet(P) /\ P \in SUBSET Nat
    <3>1. P \in SUBSET (1 .. n)
      OBVIOUS
    <3> HIDE DEF P
    <3> QED BY <3>1, PositionsAreFinite
  <2>2. \A x \in P : x \in 1 .. n /\ rank[x] = r
    OBVIOUS
  <2> HIDE DEF P
  <2>3. /\ s \in Seq(P) /\ Len(s) = Cardinality(P)
        /\ \A i, j \in 1 .. Len(s) : i < j => s[i] < s[j]
    BY <2>1, InOrderIsSeq
  <2>4. DOMAIN s = 1 .. Cardinality(P) /\ \A x \in P : \E k \in DOMAIN s : s[k] = x
    BY <2>1, InOrderLists
  <2>5. seqs[r] = s
    BY DEF P
  <2> HIDE DEF s, seqs
  <2>6. \A k \in 1 .. Len(s) : s[k] \in P
    BY <2>3
  <2>7. s \in Seq(1 .. n)
    BY <2>2, <2>3
  <2>8. \A x \in P : \E k \in 1 .. Len(s) : s[k] = x
    BY <2>3, <2>4
  <2> QED BY <2>2, <2>3, <2>5, <2>6, <2>7, <2>8 DEF P
<1>2. \A i \in 1 .. n : place[i] = i
  OBVIOUS
<1>3. \A x \in 1 .. n : rank[x] \in 1 .. m /\ x \in part(rank[x])
  OBVIOUS
<1>4. seqs \in [1 .. m -> Seq(1 .. n)]
  BY <1>1
<1> HIDE DEF seqs, place, part
<1>5. TagsTell(rank, seqs, m)
  BY <1>1 DEF TagsTell
<1>6. \A k \in 1 .. m : \A i, j \in 1 .. Len(seqs[k]) :
        i < j => place[seqs[k][i]] < place[seqs[k][j]]
  <2> SUFFICES ASSUME NEW k \in 1 .. m, NEW i \in 1 .. Len(seqs[k]), NEW j \in 1 .. Len(seqs[k]), i < j
               PROVE  place[seqs[k][i]] < place[seqs[k][j]]
    OBVIOUS
  <2>1. seqs[k][i] \in 1 .. n /\ seqs[k][j] \in 1 .. n /\ seqs[k][i] < seqs[k][j]
    BY <1>1
  <2>2. place[seqs[k][i]] = seqs[k][i] /\ place[seqs[k][j]] = seqs[k][j]
    BY <1>2, <2>1
  <2> QED BY <2>1, <2>2
<1>7. g \in Seq(1 .. n) /\ Rising(g, rank, place) /\ Covers(g, rank, seqs, m)
  BY <1>4, <1>5, <1>6, FlattenRises
<1> HIDE DEF g
<1>8. DOMAIN g = 1 .. Len(g) /\ Len(g) \in Nat /\ \A i \in 1 .. Len(g) : g[i] \in 1 .. n
  BY <1>7
<1>9. \A i, j \in 1 .. Len(g) : g[i] = g[j] => i = j
  <2> SUFFICES ASSUME NEW i \in 1 .. Len(g), NEW j \in 1 .. Len(g), g[i] = g[j] PROVE i = j
    OBVIOUS
  <2>1. ~(place[g[i]] < place[g[i]])
    BY <1>2, <1>8
  <2>2. ~(i < j) /\ ~(j < i)
    BY <1>7, <2>1 DEF Rising
  <2> QED BY <1>8, <2>2
<1>10. \A x \in 1 .. n : \E i \in 1 .. Len(g) : g[i] = x
  <2> SUFFICES ASSUME NEW x \in 1 .. n PROVE \E i \in 1 .. Len(g) : g[i] = x
    OBVIOUS
  <2>1. rank[x] \in 1 .. m /\ x \in part(rank[x])
    BY <1>3
  <2>2. PICK k \in 1 .. Len(seqs[rank[x]]) : seqs[rank[x]][k] = x
    BY <1>1, <2>1
  <2> QED BY <1>7, <2>1, <2>2 DEF Covers
<1>11. Len(g) = n
  <2>1. {g[i] : i \in 1 .. Len(g)} = 1 .. n
    BY <1>8, <1>10
  <2>2. IsFiniteSet(1 .. Len(g)) /\ Cardinality(1 .. Len(g)) = Len(g) /\ Cardinality(1 .. n) = n
    BY <1>8, IntervalCounts
  <2>3. Cardinality({g[i] : i \in 1 .. Len(g)}) = Cardinality(1 .. Len(g))
    BY <1>9, <2>2, InjectiveImage, SMTT(30)
  <2> QED BY <2>1, <2>2, <2>3
<1>12. Reorders(g, n)
  BY <1>7, <1>9, <1>10, <1>11 DEF Reorders
<1> QED BY <1>12 DEF g, seqs, part

(* The same number of rows satisfies anything that looks at the rows only.   *)
LEMMA ReorderedRows ==
  ASSUME NEW n \in Nat, NEW g, Reorders(g, n), NEW T \in SUBSET (1 .. n)
  PROVE  Cardinality({i \in 1 .. n : g[i] \in T}) = Cardinality(T)
<1> DEFINE U == {i \in 1 .. n : g[i] \in T}
<1>1. IsFiniteSet(U)
  <2>1. U \in SUBSET (1 .. n)
    OBVIOUS
  <2> HIDE DEF U
  <2> QED BY <2>1, PositionsAreFinite
<1>2. \A x, y \in U : g[x] = g[y] => x = y
  BY DEF Reorders
<1>3. {g[x] : x \in U} = T
  <2>1. \A x \in T : \E i \in U : g[i] = x
    BY DEF Reorders
  <2>2. \A i \in U : g[i] \in T
    OBVIOUS
  <2> HIDE DEF U
  <2> QED BY <2>1, <2>2
<1> HIDE DEF U
<1>4. Cardinality({g[x] : x \in U}) = Cardinality(U)
  BY <1>1, <1>2, InjectiveImage
<1> QED BY <1>3, <1>4 DEF U

LEMMA BalanceKeeps == ASSUME ShapingInv, BalanceBatch PROVE ShapingInv'
<1> DEFINE n == Len(batch)
           q == batch'
<1>1. stage = "balance" /\ stage' = "token" /\ UNCHANGED <<episodes, won_buffer, won_dt_buffer>>
  BY DEF BalanceBatch, windows
<1>2. TypeInv /\ TruthInv /\ ReturnsInv /\ NothingLost
  BY DEF ShapingInv
<1>3. /\ n \in Nat /\ DOMAIN batch = 1 .. n
      /\ \A i \in DOMAIN batch : batch[i] \in RowSet /\ batch[i].traj_uid \in Ids
  BY <1>2, BatchRows
<1>4. PICK rank \in [DOMAIN batch -> 1 .. WorldSize] :
        LET global_idx == FlattenSeq([r \in 1 .. WorldSize |->
                             InOrder({i \in DOMAIN batch : rank[i] = r})])
        IN  batch' = [k \in DOMAIN global_idx |-> batch[global_idx[k]]]
  BY DEF BalanceBatch
<1> DEFINE g == FlattenSeq([r \in 1 .. WorldSize |-> InOrder({i \in 1 .. n : rank[i] = r})])
<1> HIDE DEF n
<1>5. q = [k \in DOMAIN g |-> batch[g[k]]]
  BY <1>3, <1>4
<1>6. Reorders(g, n)
  <2>1. rank \in [1 .. n -> 1 .. WorldSize]
    BY <1>3, <1>4
  <2>2. n \in Nat /\ WorldSize \in Nat
    BY <1>3, SizesAssumption
  <2> QED BY <2>1, <2>2, DealingReorders
<1> HIDE DEF g, q
<1>7. DOMAIN g = 1 .. n /\ \A k \in 1 .. n : g[k] \in 1 .. n
  BY <1>6 DEF Reorders
<1>8. DOMAIN q = 1 .. n /\ \A k \in 1 .. n : q[k] = batch[g[k]]
  BY <1>5, <1>7
<1>9. q \in Seq(RowSet) /\ Len(q) = n
  <2>1. \A k \in 1 .. n : q[k] \in RowSet
    BY <1>3, <1>7, <1>8
  <2>2. q = [k \in 1 .. n |-> q[k]]
    BY <1>5, <1>7
  <2> QED BY <1>3, <2>1, <2>2
<1>10. TypeInv'
  BY <1>1, <1>2, <1>9 DEF TypeInv, Stages, q
<1>11. TruthInv'
  <2> SUFFICES ASSUME NEW i \in 1 .. n PROVE Tells(q[i], episodes[q[i].traj_uid])
    BY <1>1, <1>8 DEF TruthInv, q
  <2> QED BY <1>2, <1>3, <1>7, <1>8 DEF TruthInv
<1>12. ReturnsInv'
  <2> SUFFICES ASSUME NEW i \in 1 .. n
               PROVE  q[i].step_rewards = IF episodes[q[i].traj_uid].won THEN 1 ELSE 0
    BY <1>1, <1>8 DEF ReturnsInv, q
  <2>1. \A j \in DOMAIN batch :
          batch[j].step_rewards = IF episodes[batch[j].traj_uid].won THEN 1 ELSE 0
    BY <1>1, <1>2 DEF ReturnsInv
  <2>2. g[i] \in DOMAIN batch /\ q[i] = batch[g[i]]
    BY <1>3, <1>7, <1>8
  <2> QED BY <2>1, <2>2
<1>13. NothingLost'
  <2>1. Turns' = Turns
    BY <1>1 DEF Turns
  <2>2. n % SizeDivisor = 0 /\ n - Cardinality(Turns) < SizeDivisor
    BY <1>1, <1>2 DEF NothingLost, n
  <2>3. ASSUME NEW turn \in Turns
        PROVE  Cardinality({i \in IsOf(turn[1])' : batch'[i].turn = turn[2]}) \in {1, 2}
    <3> DEFINE T == {i \in IsOf(turn[1]) : batch[i].turn = turn[2]}
    <3>1. Cardinality(T) \in {1, 2}
      BY <1>1, <1>2 DEF NothingLost
    <3>2. T \in SUBSET (1 .. n)
      BY <1>3 DEF IsOf
    <3>3. {i \in IsOf(turn[1])' : batch'[i].turn = turn[2]} = {i \in 1 .. n : g[i] \in T}
      BY <1>3, <1>7, <1>8 DEF IsOf, q
    <3> HIDE DEF T
    <3>4. Cardinality({i \in 1 .. n : g[i] \in T}) = Cardinality(T)
      BY <1>3, <1>6, <3>2, ReorderedRows
    <3> QED BY <3>1, <3>3, <3>4
  <2> QED BY <1>9, <2>1, <2>2, <2>3 DEF NothingLost, q
<1>14. OnceInv' /\ OrderInv' /\ WonInv' /\ PenaltiesPaidOnce'
  BY <1>1 DEF OnceInv, OrderInv, WonInv, PenaltiesPaidOnce, TokensPaidOnce, DeviationPaidOnce
<1> QED BY <1>10, <1>11, <1>12, <1>13, <1>14 DEF ShapingInv

-----------------------------------------------------------------------------
(* The lists that are aligned by position.                                   *)

(* first has a row of each trajectory.                                       *)
Finds(first, rows, n) ==
  /\ first \in [1 .. n -> DOMAIN rows]
  /\ \A j, k \in 1 .. n : rows[first[j]].traj_uid = rows[first[k]].traj_uid => j = k
  /\ \A i \in DOMAIN rows : \E k \in 1 .. n : rows[first[k]].traj_uid = rows[i].traj_uid

LEMMA FirstRowsFind ==
  ASSUME NEW rows \in Seq(RowSet)
  PROVE  \E n \in Nat : Finds(FirstRows(rows), rows, n)
<1> DEFINE F == {i \in DOMAIN rows :
                   \A k \in 1 .. (i - 1) : rows[k].traj_uid # rows[i].traj_uid}
           n == Cardinality(F)
           s == InOrder(F)
<1>1. Len(rows) \in Nat /\ DOMAIN rows = 1 .. Len(rows)
  OBVIOUS
<1>2. FirstRows(rows) = s
  BY DEF FirstRows
<1>3. IsFiniteSet(F) /\ F \in SUBSET Nat
  <2>1. F \in SUBSET (1 .. Len(rows))
    BY <1>1
  <2> HIDE DEF F
  <2> QED BY <1>1, <2>1, PositionsAreFinite
<1>4. \A i \in DOMAIN rows : \E k \in F : rows[k].traj_uid = rows[i].traj_uid
  <2> SUFFICES ASSUME NEW i \in DOMAIN rows PROVE \E k \in F : rows[k].traj_uid = rows[i].traj_uid
    OBVIOUS
  <2> DEFINE T == {k \in 1 .. Len(rows) : rows[k].traj_uid = rows[i].traj_uid}
  <2>1. T \subseteq Nat /\ T # {}
    BY <1>1
  <2> HIDE DEF T
  <2>2. PICK k \in T : \A y \in T : k <= y
    BY <2>1, LeastExists
  <2>3. k \in 1 .. Len(rows) /\ rows[k].traj_uid = rows[i].traj_uid
    BY <2>2 DEF T
  <2>4. ASSUME NEW y \in 1 .. (k - 1) PROVE rows[y].traj_uid # rows[k].traj_uid
    <3>1. y \in 1 .. Len(rows) /\ ~(k <= y)
      BY <1>1, <2>3
    <3>2. y \notin T
      BY <2>2, <3>1
    <3> QED BY <2>3, <3>1, <3>2 DEF T
  <2> QED BY <1>1, <2>3, <2>4
<1>5. \A i, j \in F : rows[i].traj_uid = rows[j].traj_uid => i = j
  <2> SUFFICES ASSUME NEW i \in F, NEW j \in F, rows[i].traj_uid = rows[j].traj_uid, i < j
               PROVE  FALSE
    <3>1. \A i, j \in F : ~(i < j) /\ ~(j < i) => i = j
      BY <1>3
    <3> QED BY <3>1
  <2>1. i \in 1 .. (j - 1)
    BY <1>1
  <2> QED BY <2>1
<1>6. F \subseteq DOMAIN rows
  OBVIOUS
<1> HIDE DEF F
<1>7. /\ n \in Nat /\ Lists(s, F, n) /\ DOMAIN s = 1 .. n
      /\ \A i, j \in DOMAIN s : s[i] = s[j] => i = j
      /\ \A x \in F : \E i \in DOMAIN s : s[i] = x
  BY <1>3, InOrderLists
<1>8. s \in [1 .. n -> F]
  BY <1>7 DEF Lists
<1> HIDE DEF s, n
<1>9. s \in [1 .. n -> DOMAIN rows]
  BY <1>6, <1>8
<1>10. \A j, k \in 1 .. n : rows[s[j]].traj_uid = rows[s[k]].traj_uid => j = k
  BY <1>5, <1>7, <1>8
<1>11. \A i \in DOMAIN rows : \E k \in 1 .. n : rows[s[k]].traj_uid = rows[i].traj_uid
  BY <1>4, <1>7
<1>12. Finds(s, rows, n)
  BY <1>9, <1>10, <1>11 DEF Finds
<1> QED BY <1>2, <1>7, <1>12

(* All trajectories are in the batch. *)
Present == \A t \in Ids : IsOf(t) # {}

(* The verdicts are those of the trajectories. *)
Verdicts(won, order) ==
  /\ order \in Seq(Ids) /\ order \in SetToSeqs(Ids)
  /\ \A t \in Ids : \E k \in DOMAIN order : order[k] = t
  /\ won \in Seq({0, 1}) /\ DOMAIN won = DOMAIN order /\ Len(won) = Len(order)
  /\ won = [k \in DOMAIN order |-> IF episodes[order[k]].won THEN 1 ELSE 0]

LEMMA WonArrayAligned ==
  ASSUME TypeInv, TruthInv, Present
  PROVE  Verdicts(WonArray(batch), UidOrder(batch))
<1> DEFINE first == FirstRows(batch)
           order == UidOrder(batch)
           won   == WonArray(batch)
<1>1. /\ batch \in Seq(RowSet) /\ DOMAIN batch = 1 .. Len(batch)
      /\ \A i \in DOMAIN batch : batch[i] \in RowSet /\ batch[i].traj_uid \in Ids
  BY BatchRows DEF TypeInv
<1>2. PICK n \in Nat : Finds(first, batch, n)
  BY <1>1, FirstRowsFind
<1>3. first \in [1 .. n -> DOMAIN batch]
  BY <1>2 DEF Finds
<1>4. /\ order = [k \in DOMAIN first |-> batch[first[k]].traj_uid]
      /\ won = [k \in DOMAIN first |-> batch[first[k]].episode_rewards]
  BY DEF UidOrder, WonArray
<1> HIDE DEF first, order, won
<1>5. \A k \in 1 .. n : /\ batch[first[k]].traj_uid \in Ids
                        /\ batch[first[k]].episode_rewards \in {0, 1}
                        /\ batch[first[k]].episode_rewards
                             = IF episodes[batch[first[k]].traj_uid].won THEN 1 ELSE 0
  BY <1>1, <1>3 DEF TruthInv, Tells
<1>6. /\ order \in [1 .. n -> Ids] /\ won \in [1 .. n -> {0, 1}]
      /\ \A k \in 1 .. n : order[k] = batch[first[k]].traj_uid
      /\ \A k \in 1 .. n : won[k] = IF episodes[order[k]].won THEN 1 ELSE 0
  BY <1>3, <1>4, <1>5
<1>7. \A j, k \in 1 .. n : order[j] = order[k] => j = k
  BY <1>2, <1>6 DEF Finds
<1>8. \A t \in Ids : \E k \in 1 .. n : order[k] = t
  <2> SUFFICES ASSUME NEW t \in Ids PROVE \E k \in 1 .. n : order[k] = t
    OBVIOUS
  <2>1. PICK i \in DOMAIN batch : batch[i].traj_uid = t
    BY DEF Present, IsOf
  <2> QED BY <1>2, <1>6, <2>1, SMTT(30) DEF Finds
<1>9. n = Cardinality(Ids)
  <2>1. {order[k] : k \in 1 .. n} = Ids
    BY <1>6, <1>8
  <2>2. IsFiniteSet(1 .. n) /\ Cardinality(1 .. n) = n
    BY IntervalCounts
  <2>3. Cardinality({order[k] : k \in 1 .. n}) = Cardinality(1 .. n)
    BY <1>7, <2>2, InjectiveImage
  <2> QED BY <2>1, <2>2, <2>3
<1>10. order \in SetToSeqs(Ids)
  BY <1>6, <1>7, <1>9 DEF SetToSeqs
<1>11. /\ order \in Seq(Ids) /\ Len(order) = n /\ DOMAIN order = 1 .. n
       /\ won \in Seq({0, 1}) /\ Len(won) = n /\ DOMAIN won = 1 .. n
  BY <1>6
<1>12. won = [k \in DOMAIN order |-> IF episodes[order[k]].won THEN 1 ELSE 0]
  BY <1>6, <1>11
<1>13. Verdicts(won, order)
  BY <1>8, <1>10, <1>11, <1>12 DEF Verdicts
<1> QED BY <1>13 DEF won, order

(* The last row of a trajectory.                                             *)
IsLast(i) == \A k \in (i + 1) .. Len(batch) : batch[k].traj_uid # batch[i].traj_uid

LEMMA LastRow ==
  ASSUME TypeInv, NEW t \in Ids, IsOf(t) # {}
  PROVE  /\ Max(IsOf(t)) \in IsOf(t)
         /\ \A j \in IsOf(t) : IsLast(j) <=> j = Max(IsOf(t))
<1>1. /\ Len(batch) \in Nat /\ DOMAIN batch = 1 .. Len(batch)
  BY BatchRows
<1>2. IsOf(t) \in SUBSET (1 .. Len(batch)) /\ IsOf(t) \in SUBSET (0 .. Len(batch))
  BY <1>1 DEF IsOf
<1> DEFINE m == Max(IsOf(t))
<1>3. m \in IsOf(t) /\ \A y \in IsOf(t) : y <= m
  BY <1>1, <1>2, MaxIsGreatest
<1> HIDE DEF m
<1>4. IsLast(m)
  <2> SUFFICES ASSUME NEW k \in (m + 1) .. Len(batch) PROVE batch[k].traj_uid # batch[m].traj_uid
    BY DEF IsLast
  <2>1. k \in 1 .. Len(batch) /\ ~(k <= m)
    BY <1>1, <1>2, <1>3
  <2>2. k \notin IsOf(t)
    BY <1>3, <2>1
  <2> QED BY <1>1, <1>3, <2>1, <2>2 DEF IsOf
<1>5. ASSUME NEW j \in IsOf(t), IsLast(j) PROVE j = m
  <2>1. j \in 1 .. Len(batch) /\ m \in 1 .. Len(batch) /\ j <= m
    BY <1>2, <1>3, <1>5
  <2>2. batch[j].traj_uid = t /\ batch[m].traj_uid = t
    BY <1>3, <1>5 DEF IsOf
  <2>3. m \notin (j + 1) .. Len(batch)
    BY <1>5, <2>2 DEF IsLast
  <2> QED BY <1>1, <2>1, <2>3
<1> QED BY <1>3, <1>4, <1>5 DEF m

(* The last rows of the won trajectories are penalised, and no others.       *)
LEMMA PenalisedRows ==
  ASSUME TypeInv, TruthInv, Present, NEW i \in DOMAIN batch
  PROVE  IsPenalised(batch, i, WonArray(batch))
           <=> episodes[batch[i].traj_uid].won /\ IsLast(i)
<1> DEFINE order == UidOrder(batch)
           won   == WonArray(batch)
           t     == batch[i].traj_uid
<1>1. Verdicts(won, order)
  BY WonArrayAligned
<1>2. t \in Ids /\ episodes[t].won \in BOOLEAN
  <2>1. t \in Ids /\ batch # <<>>
    BY BatchRows
  <2>2. episodes[t] \in Episodes
    BY <2>1 DEF TypeInv
  <2> QED BY <2>1, <2>2, EpisodesAre
<1>3. IsPenalised(batch, i, won) <=>
        /\ Len(won) = Len(order)
        /\ \E k \in DOMAIN won : order[k] = t /\ won[k] > 0
        /\ IsLast(i)
  BY DEF IsPenalised, IsLast
<1> HIDE DEF order, won, t
<1>4. /\ Len(won) = Len(order) /\ DOMAIN won = DOMAIN order
      /\ \A k \in DOMAIN order : won[k] = IF episodes[order[k]].won THEN 1 ELSE 0
      /\ \E k \in DOMAIN order : order[k] = t
  BY <1>1, <1>2 DEF Verdicts
<1>5. (\E k \in DOMAIN won : order[k] = t /\ won[k] > 0) <=> episodes[t].won
  BY <1>4
<1> QED BY <1>3, <1>4, <1>5 DEF won, t

(* They are the same for rows that differ in penalties.                      *)
LEMMA AlikeBatches ==
  ASSUME NEW a \in Seq(RowSet), NEW b \in Seq(RowSet), DOMAIN a = DOMAIN b,
         \A i \in DOMAIN b : Alike(a[i], b[i])
  PROVE  WonArray(a) = WonArray(b)
<1>1. /\ Len(b) \in Nat /\ DOMAIN b = 1 .. Len(b)
      /\ \A i \in 1 .. Len(b) : /\ a[i].traj_uid = b[i].traj_uid
                               /\ a[i].episode_rewards = b[i].episode_rewards
  BY DEF Alike
<1>2. \A i \in DOMAIN b : 1 .. (i - 1) \subseteq 1 .. Len(b)
  BY <1>1
<1>3. {i \in DOMAIN a : \A k \in 1 .. (i - 1) : a[k].traj_uid # a[i].traj_uid}
        = {i \in DOMAIN b : \A k \in 1 .. (i - 1) : b[k].traj_uid # b[i].traj_uid}
  BY <1>1, <1>2
<1>4. FirstRows(a) = FirstRows(b)
  BY <1>3 DEF FirstRows
<1>5. PICK n \in Nat : Finds(FirstRows(b), b, n)
  BY FirstRowsFind
<1>6. FirstRows(b) \in [1 .. n -> 1 .. Len(b)]
  BY <1>1, <1>5 DEF Finds
<1> QED BY <1>1, <1>4, <1>6 DEF WonArray

-----------------------------------------------------------------------------
(* The windows.                                                              *)

LEMMA MaxOfTwo ==
  ASSUME NEW a \in Int, NEW b \in Int
  PROVE  /\ Max({a, b}) = IF a >= b THEN a ELSE b
         /\ Min({a, b}) = IF a <= b THEN a ELSE b
  BY DEF Max, Min

LEMMA WindowSlides ==
  ASSUME NEW S, NEW buffer \in Seq(S), NEW new \in Seq(S)
  PROVE  Window(buffer, new) \in Seq(S) /\ Slid(buffer, new, Window(buffer, new))
<1> DEFINE all == buffer \o new
           n   == Len(all)
           W   == WindowSize
           m   == Max({1, n - W + 1})
           w   == Window(buffer, new)
<1>1. all \in Seq(S) /\ n \in Nat /\ \A i \in 1 .. n : all[i] \in S
  OBVIOUS
<1>2. W \in Nat \ {0}
  BY WindowAssumption
<1>3. w = SubSeq(all, m, n)
  BY DEF Window
<1> HIDE DEF n, W
<1>4. m = IF 1 >= n - W + 1 THEN 1 ELSE n - W + 1
  BY <1>1, <1>2, MaxOfTwo
<1> DEFINE l == Min({W, n})
<1>5. l = IF W <= n THEN W ELSE n
  <2>1. W \in Int /\ n \in Int
    BY <1>1, <1>2
  <2> QED BY <2>1, MaxOfTwo
<1> HIDE DEF m, l, all, w
<1>6. l \in Nat /\ m \in Nat /\ m + l = n + 1 /\ n - m + 1 = l
  BY <1>1, <1>2, <1>4, <1>5
<1>7. m >= 1
  BY <1>1, <1>2, <1>4
<1>8. w = [i \in 1 .. l |-> all[i + m - 1]]
  <2>1. m \in 1 .. (n + 1)
    BY <1>1, <1>6, <1>7
  <2>2. w = [i \in 1 .. (n - m + 1) |-> all[i + m - 1]]
    BY <1>1, <1>3, <2>1
  <2> QED BY <1>6, <2>2
<1>9. \A i \in 1 .. l : i + m - 1 \in 1 .. n /\ n - l + i = i + m - 1
  BY <1>1, <1>6, <1>7
<1>10. w \in Seq(S) /\ Len(w) = l /\ DOMAIN w = 1 .. l
  <2>1. \A i \in 1 .. l : all[i + m - 1] \in S
    BY <1>1, <1>9
  <2>2. w \in [1 .. l -> S]
    BY <1>8, <2>1
  <2> QED BY <1>6, <2>2
<1>11. \A i \in 1 .. l : w[i] = all[n - l + i]
  BY <1>8, <1>9
<1>12. Len(w) = Min({WindowSize, Len(all)})
  BY <1>10 DEF l, n, W
<1>13. \A i \in DOMAIN w : w[i] = all[Len(all) - Len(w) + i]
  BY <1>10, <1>11 DEF n
<1> QED BY <1>10, <1>12, <1>13 DEF Slid, all, w

-----------------------------------------------------------------------------
(* The token penalty.                                                        *)

LEMMA AllPresent ==
  ASSUME TypeInv, NothingLost, stage \in {"token", "quality"}
  PROVE  Present
<1> SUFFICES ASSUME NEW t \in Ids, IsOf(t) = {} PROVE FALSE
  BY DEF Present
<1>1. episodes[t] \in Episodes
  BY DEF TypeInv
<1>2. <<t, 1>> \in Turns
  <2>1. episodes[t].length \in Nat \ {0} /\ 1 \in 1 .. MaxLength
    BY <1>1, EpisodesAre, SizesAssumption
  <2> QED BY <2>1 DEF Turns
<1>3. Cardinality({i \in IsOf(t) : batch[i].turn = 1}) \in {1, 2}
  BY <1>2 DEF NothingLost
<1>4. {i \in IsOf(t) : batch[i].turn = 1} = {}
  OBVIOUS
<1> QED BY <1>3, <1>4, FS_EmptySet

(* A step that changes penalties only keeps what the rows are.               *)
LEMMA PenaltiesOnly ==
  ASSUME ShapingInv, stage \in {"token", "quality"}, stage' \in {"quality", "done"},
         episodes' = episodes, batch' \in Seq(RowSet), DOMAIN batch' = DOMAIN batch,
         won_arr' = WonArray(batch),
         \A i \in DOMAIN batch : /\ Alike(batch'[i], batch[i])
                                /\ batch'[i].step_rewards = batch[i].step_rewards
  PROVE  /\ TruthInv' /\ OnceInv' /\ OrderInv' /\ ReturnsInv' /\ WonInv' /\ NothingLost'
         /\ \A t \in Ids : IsOf(t)' = IsOf(t)
<1>1. /\ TypeInv /\ TruthInv /\ ReturnsInv /\ NothingLost
      /\ batch \in Seq(RowSet)
  BY DEF ShapingInv, TypeInv
<1>2. \A i \in DOMAIN batch : batch'[i].traj_uid = batch[i].traj_uid /\ batch'[i].turn = batch[i].turn
  BY DEF Alike
<1>3. TruthInv'
  BY <1>1, <1>2, AlikeTells DEF TruthInv
<1>4. OnceInv' /\ OrderInv'
  BY DEF OnceInv, OrderInv
<1>5. ReturnsInv'
  <2>1. \A i \in DOMAIN batch :
          batch[i].step_rewards = IF episodes[batch[i].traj_uid].won THEN 1 ELSE 0
    BY <1>1 DEF ReturnsInv
  <2> QED BY <1>2, <2>1 DEF ReturnsInv
<1>6. WonInv'
  <2>1. WonArray(batch') = WonArray(batch)
    BY <1>1, AlikeBatches
  <2> QED BY <2>1 DEF WonInv
<1>7. \A t : IsOf(t)' = IsOf(t)
  BY <1>2 DEF IsOf
<1>8. NothingLost'
  <2>1. Turns' = Turns
    BY DEF Turns
  <2>2. /\ Len(batch) % SizeDivisor = 0 /\ Len(batch) - Cardinality(Turns) < SizeDivisor
        /\ \A turn \in Turns :
             Cardinality({i \in IsOf(turn[1]) : batch[i].turn = turn[2]}) \in {1, 2}
    BY <1>1 DEF NothingLost
  <2>3. Len(batch') = Len(batch)
    BY <1>1
  <2>4. ASSUME NEW turn
        PROVE  {i \in IsOf(turn[1])' : batch'[i].turn = turn[2]}
                 = {i \in IsOf(turn[1]) : batch[i].turn = turn[2]}
    <3>1. IsOf(turn[1]) \subseteq DOMAIN batch
      BY DEF IsOf
    <3> QED BY <1>2, <1>7, <3>1
  <2> QED BY <2>1, <2>2, <2>3, <2>4 DEF NothingLost
<1> QED BY <1>3, <1>4, <1>5, <1>6, <1>7, <1>8

LEMMA TokenKeeps ==
  ASSUME ShapingInv, TokenPenalty
  PROVE  /\ ShapingInv'
         /\ \E order \in SetToSeqs(Ids) :
              Slid(won_buffer, [k \in DOMAIN order |-> IF episodes[order[k]].won THEN 1 ELSE 0],
                   won_buffer')
<1> DEFINE won     == WonArray(batch)
           order   == UidOrder(batch)
           Due(i)  == IF CoefPositive(won_buffer') /\ IsPenalised(batch, i, won)
                      THEN batch[i].total_output_tokens ELSE 0
<1>1. /\ stage = "token" /\ stage' = "quality" /\ won_arr' = won
      /\ won_buffer' = Window(won_buffer, won)
      /\ UNCHANGED <<episodes, won_dt_buffer>>
      /\ batch' = [i \in DOMAIN batch |-> [batch[i] EXCEPT !.token_penalty = Due(i)]]
  BY DEF TokenPenalty
<1>2. TypeInv /\ TruthInv /\ NothingLost
  BY DEF ShapingInv
<1>3. Present
  BY <1>1, <1>2, AllPresent
<1>4. Verdicts(won, order)
  BY <1>2, <1>3, WonArrayAligned
<1>5. /\ Len(batch) \in Nat /\ DOMAIN batch = 1 .. Len(batch)
      /\ \A i \in DOMAIN batch : batch[i] \in RowSet /\ batch[i].traj_uid \in Ids
  BY <1>2, BatchRows
<1>6. \A i \in DOMAIN batch : IsPenalised(batch, i, won) <=>
                               episodes[batch[i].traj_uid].won /\ IsLast(i)
  BY <1>2, <1>3, PenalisedRows
<1> HIDE DEF won, order
<1>7. \A i \in DOMAIN batch : Due(i) \in Int
  <2> SUFFICES ASSUME NEW i \in DOMAIN batch PROVE Due(i) \in Int
    OBVIOUS
  <2>1. batch[i].total_output_tokens \in Nat
    BY <1>5, RowFields
  <2> QED BY <2>1
<1>8. \A i \in DOMAIN batch : batch'[i] = [batch[i] EXCEPT !.token_penalty = Due(i)]
  BY <1>1
<1>9. \A i \in DOMAIN batch : Due(i) = IF CoefPositive(won_buffer') /\ IsPenalised(batch, i, won)
                                       THEN batch[i].total_output_tokens ELSE 0
  OBVIOUS
<1>10. DOMAIN batch' = DOMAIN batch /\ batch' = [i \in DOMAIN batch |-> batch'[i]]
  BY <1>1
<1> HIDE DEF Due
<1>11. \A i \in DOMAIN batch : /\ batch'[i] \in RowSet /\ Alike(batch'[i], batch[i])
                                /\ batch'[i].step_rewards = batch[i].step_rewards
                                /\ batch'[i].token_penalty = Due(i)
  <2> SUFFICES ASSUME NEW i \in DOMAIN batch
               PROVE  /\ batch'[i] \in RowSet /\ Alike(batch'[i], batch[i])
                      /\ batch'[i].step_rewards = batch[i].step_rewards
                      /\ batch'[i].token_penalty = Due(i)
    OBVIOUS
  <2> DEFINE v == Due(i)
  <2>1. v \in Int /\ batch'[i] = [batch[i] EXCEPT !.token_penalty = v] /\ batch[i] \in RowSet
    BY <1>5, <1>7, <1>8
  <2> HIDE DEF v
  <2>2. /\ batch'[i] \in RowSet /\ Alike(batch'[i], batch[i])
        /\ batch'[i].step_rewards = batch[i].step_rewards /\ batch'[i].token_penalty = v
    BY <2>1, RowsChange
  <2> QED BY <2>2 DEF v
<1>12. batch' \in Seq(RowSet)
  BY <1>5, <1>10, <1>11
<1>13. /\ won_buffer' \in Seq({0, 1})
       /\ Slid(won_buffer, won, won_buffer')
  <2>1. won_buffer \in Seq({0, 1}) /\ won \in Seq({0, 1})
    BY <1>2, <1>4 DEF TypeInv, Verdicts
  <2> QED BY <1>1, <2>1, WindowSlides
<1>14. TypeInv'
  <2>1. stage' \in Stages /\ stage' # "rollout"
    BY <1>1 DEF Stages
  <2>2. episodes' \in [Ids -> Episodes] /\ won_dt_buffer' \in Seq(Nat)
    BY <1>1, <1>2 DEF TypeInv
  <2> QED BY <1>12, <1>13, <2>1, <2>2 DEF TypeInv
<1>15. /\ TruthInv' /\ OnceInv' /\ OrderInv' /\ ReturnsInv' /\ WonInv' /\ NothingLost'
       /\ \A t \in Ids : IsOf(t)' = IsOf(t)
  <2>1. won_arr' = WonArray(batch)
    BY <1>1 DEF won
  <2> QED BY <1>1, <1>10, <1>11, <1>12, <2>1, PenaltiesOnly
<1>16. ASSUME NEW t \in Ids
       PROVE  LET due == IF episodes[t].won /\ CoefPositive(won_buffer') THEN TokensOf(episodes[t]) ELSE 0
              IN  \E i \in IsOf(t) : \A j \in IsOf(t) :
                    batch'[j].token_penalty = IF j = i THEN due ELSE 0
  <2>1. IsOf(t) # {} /\ IsOf(t) \subseteq DOMAIN batch
    BY <1>3 DEF Present, IsOf
  <2>2. /\ Max(IsOf(t)) \in IsOf(t)
        /\ \A j \in IsOf(t) : IsLast(j) <=> j = Max(IsOf(t))
    BY <1>2, <2>1, LastRow
  <2>3. \A j \in IsOf(t) : batch[j].traj_uid = t /\ batch[j].total_output_tokens = TokensOf(episodes[t])
    BY <1>2 DEF IsOf, TruthInv, Tells
  <2>4. \A j \in IsOf(t) : batch'[j].token_penalty =
          IF CoefPositive(won_buffer') /\ episodes[t].won /\ j = Max(IsOf(t))
          THEN TokensOf(episodes[t]) ELSE 0
    BY <1>6, <1>9, <1>11, <2>1, <2>2, <2>3
  <2> QED BY <2>2, <2>4
<1>17. PenaltiesPaidOnce'
  <2>1. TokensPaidOnce'
    <3> SUFFICES ASSUME NEW t \in Ids
                 PROVE  LET due == IF episodes'[t].won /\ CoefPositive(won_buffer')
                                   THEN TokensOf(episodes'[t]) ELSE 0
                        IN  \E i \in IsOf(t)' : \A j \in IsOf(t)' :
                              batch'[j].token_penalty = IF j = i THEN due ELSE 0
      BY Zenon DEF TokensPaidOnce
    <3>1. IsOf(t)' = IsOf(t) /\ episodes' = episodes
      BY <1>1, <1>15
    <3> QED BY <1>16, <3>1, Zenon
  <2>2. DeviationPaidOnce'
    BY <1>1 DEF DeviationPaidOnce
  <2> QED BY <2>1, <2>2 DEF PenaltiesPaidOnce
<1>18. \E o \in SetToSeqs(Ids) :
         Slid(won_buffer, [k \in DOMAIN o |-> IF episodes[o[k]].won THEN 1 ELSE 0], won_buffer')
  BY <1>4, <1>13 DEF Verdicts
<1> QED BY <1>14, <1>15, <1>17, <1>18 DEF ShapingInv

-----------------------------------------------------------------------------
(* The penalty on the calls.                                                 *)

LEMMA WonCalls ==
  ASSUME TypeInv, TruthInv, Present, stage # "rollout"
  PROVE  LET new == WonDtCalls(WonArray(batch), DtCalls(batch))
         IN  /\ new \in Seq(Nat)
             /\ \E order \in SetToSeqs({t \in Ids : episodes[t].won}) :
                  new = [k \in DOMAIN order |-> episodes[order[k]].calls]
<1> DEFINE won   == WonArray(batch)
           order == UidOrder(batch)
           calls == DtCalls(batch)
           W     == {t \in Ids : episodes[t].won}
           K     == {k \in DOMAIN won : won[k] > 0}
           wins  == InOrder(K)
           m     == Cardinality(K)
           n     == Len(order)
           new   == WonDtCalls(won, calls)
<1>1. Verdicts(won, order)
  BY WonArrayAligned
<1>2. /\ DOMAIN order = 1 .. n /\ n \in Nat /\ DOMAIN won = 1 .. n
      /\ \A k \in 1 .. n : order[k] \in Ids
      /\ \A t \in Ids : \E k \in 1 .. n : order[k] = t
      /\ \A k \in 1 .. n : won[k] = IF episodes[order[k]].won THEN 1 ELSE 0
  <2>1. order \in Seq(Ids) /\ DOMAIN won = DOMAIN order
    BY <1>1 DEF Verdicts
  <2>2. DOMAIN order = 1 .. n /\ n \in Nat /\ \A k \in 1 .. n : order[k] \in Ids
    BY <2>1
  <2> HIDE DEF n, won, order
  <2> QED BY <1>1, <2>1, <2>2 DEF Verdicts
<1>3. \A j, k \in 1 .. n : order[j] = order[k] => j = k
  <2>1. order \in SetToSeqs(Ids)
    BY <1>1 DEF Verdicts
  <2> HIDE DEF n, order
  <2> QED BY <1>2, <2>1 DEF SetToSeqs
<1>4. \A t \in Ids : episodes[t].calls \in Nat /\ episodes[t].won \in BOOLEAN
  <2>1. \A t \in Ids : episodes[t] \in Episodes
    BY DEF TypeInv
  <2> QED BY <2>1, EpisodesAre
<1>5. calls = [k \in 1 .. n |-> batch[Max(IsOf(order[k]))].tool_callings]
  BY <1>2 DEF DtCalls, IsOf
<1>6. new = [k \in DOMAIN wins |-> calls[wins[k]]]
  BY DEF WonDtCalls
<1> HIDE DEF won, order, calls, new, n
<1>7. \A k \in 1 .. n : calls[k] = episodes[order[k]].calls
  <2> SUFFICES ASSUME NEW k \in 1 .. n PROVE calls[k] = episodes[order[k]].calls
    OBVIOUS
  <2> DEFINE t == order[k]
             i == Max(IsOf(t))
  <2>1. t \in Ids /\ IsOf(t) # {}
    BY <1>2 DEF Present
  <2> HIDE DEF t
  <2>2. i \in IsOf(t)
    BY <2>1, LastRow
  <2> HIDE DEF i
  <2>3. batch[i].tool_callings = episodes[t].calls
    BY <2>2 DEF IsOf, TruthInv, Tells
  <2> QED BY <1>5, <2>3 DEF i, t
<1>8. IsFiniteSet(K) /\ K \in SUBSET Nat
  <2>1. K \in SUBSET (1 .. n)
    BY <1>2
  <2> HIDE DEF K
  <2> QED BY <1>2, <2>1, PositionsAreFinite
<1>9. \A k \in 1 .. n : k \in K <=> episodes[order[k]].won
  BY <1>2, <1>4
<1>10. K \subseteq 1 .. n
  BY <1>2
<1> HIDE DEF K
<1>11. /\ m \in Nat /\ Lists(wins, K, m) /\ DOMAIN wins = 1 .. m
       /\ \A i, j \in DOMAIN wins : wins[i] = wins[j] => i = j
       /\ \A x \in K : \E i \in DOMAIN wins : wins[i] = x
  BY <1>8, InOrderLists
<1>12. wins \in [1 .. m -> K]
  BY <1>11 DEF Lists
<1> DEFINE order2 == [k \in 1 .. m |-> order[wins[k]]]
<1>13. \A k \in 1 .. m : order2[k] = order[wins[k]]
  OBVIOUS
<1> HIDE DEF wins, m
<1>14. order2 \in [1 .. m -> W]
  BY <1>2, <1>9, <1>10, <1>12
<1>15. DOMAIN order2 = 1 .. m
  OBVIOUS
<1>16. \A t \in W : \E k \in 1 .. m : order2[k] = t
  <2> SUFFICES ASSUME NEW t \in Ids, episodes[t].won PROVE \E k \in 1 .. m : order2[k] = t
    OBVIOUS
  <2>1. PICK j \in 1 .. n : order[j] = t
    BY <1>2
  <2>2. PICK k \in 1 .. m : wins[k] = j
    BY <1>9, <1>11, <2>1
  <2> QED BY <1>13, <2>1, <2>2
<1> HIDE DEF order2, W
<1>17. \A j, k \in 1 .. m : order2[j] = order2[k] => j = k
  <2> SUFFICES ASSUME NEW j \in 1 .. m, NEW k \in 1 .. m, order2[j] = order2[k] PROVE j = k
    OBVIOUS
  <2>1. wins[j] \in 1 .. n /\ wins[k] \in 1 .. n
    BY <1>10, <1>12
  <2>2. wins[j] = wins[k]
    BY <1>3, <1>13, <2>1
  <2> QED BY <1>11, <2>2
<1>18. m = Cardinality(W)
  <2>1. {order2[k] : k \in 1 .. m} = W
    BY <1>14, <1>16
  <2>2. IsFiniteSet(1 .. m) /\ Cardinality(1 .. m) = m
    BY <1>11, IntervalCounts
  <2> DEFINE D == 1 .. m
  <2>3. IsFiniteSet(D) /\ \A x, y \in D : order2[x] = order2[y] => x = y
    BY <1>17, <2>2
  <2> HIDE DEF D
  <2>4. Cardinality({order2[x] : x \in D}) = Cardinality(D)
    BY <2>3, InjectiveImage
  <2> QED BY <2>1, <2>2, <2>4 DEF D
<1>19. order2 \in SetToSeqs(W)
  BY <1>14, <1>17, <1>18 DEF SetToSeqs
<1>20. new = [k \in 1 .. m |-> episodes[order2[k]].calls]
  <2>1. \A k \in 1 .. m : calls[wins[k]] = episodes[order2[k]].calls
    BY <1>7, <1>10, <1>12, <1>13
  <2> QED BY <1>6, <1>11, <2>1
<1>21. new \in Seq(Nat)
  <2>1. \A k \in 1 .. m : order2[k] \in Ids
    BY <1>14 DEF W
  <2>2. \A k \in 1 .. m : episodes[order2[k]].calls \in Nat
    BY <1>4, <2>1
  <2> QED BY <1>11, <1>20, <2>2
<1> QED BY <1>15, <1>19, <1>20, <1>21 DEF new, W, won, calls

LEMMA ReferenceIsNumber ==
  ASSUME NEW buffer \in Seq(Nat)
  PROVE  Reference(buffer) \in Int
<1>1. buffer \in Seq(Int)
  OBVIOUS
<1>2. FoldLeft(+, 0, buffer) \in Int
  BY <1>1, SumIsNumber
<1>3. InitVal * WindowSize \in Int
  BY WindowAssumption
<1> QED BY <1>2, <1>3 DEF Reference

(* What exceeds one call of difference, on either side.                      *)
Excess(apart) == IF apart > WindowSize THEN apart - WindowSize ELSE 0

LEMMA DeviationIsExcess ==
  ASSUME NEW calls \in Nat, NEW reference \in Int
  PROVE  /\ Deviation(calls, reference) \in Int
         /\ Deviation(calls, reference)
              = Excess(Max({calls * WindowSize - reference, reference - calls * WindowSize}))
<1> DEFINE W == WindowSize
           x == calls * WindowSize
           d == x - reference
           a == Max({d, reference - x})
           b == Max({0, d - W, -d - W})
<1>1. W \in Nat \ {0} /\ x \in Int
  BY WindowAssumption
<1>2. d \in Int /\ reference - x = -d
  BY <1>1
<1>3. Deviation(calls, reference) = b
  BY DEF Deviation
<1>4. a = Max({d, -d})
  BY <1>2
<1> HIDE DEF d, W
<1>5. a = IF d >= -d THEN d ELSE -d
  BY <1>2, <1>4, MaxOfTwo
<1>6. b = Excess(a) /\ b \in Int
  <2>1. b = IF d - W >= 0 THEN d - W ELSE IF -d - W >= 0 THEN -d - W ELSE 0
    BY <1>1, <1>2 DEF Max
  <2> HIDE DEF a, b
  <2> QED BY <1>1, <1>2, <1>5, <2>1 DEF Excess, W
<1> QED BY <1>3, <1>6 DEF d

LEMMA QualityKeeps ==
  ASSUME ShapingInv, DtQuality
  PROVE  /\ ShapingInv'
         /\ \E order \in SetToSeqs({t \in Ids : episodes[t].won}) :
              Slid(won_dt_buffer, [k \in DOMAIN order |-> episodes[order[k]].calls], won_dt_buffer')
<1> DEFINE new     == WonDtCalls(won_arr, DtCalls(batch))
           R       == Reference(won_dt_buffer')
           Due(i)  == IF IsPenalised(batch, i, won_arr)
                      THEN Deviation(batch[i].tool_callings, R) ELSE 0
<1>1. /\ stage = "quality" /\ stage' = "done"
      /\ won_dt_buffer' = Window(won_dt_buffer, new)
      /\ UNCHANGED <<episodes, won_buffer, won_arr>>
      /\ batch' = [i \in DOMAIN batch |-> [batch[i] EXCEPT !.dt_penalty = Due(i)]]
  BY DEF DtQuality
<1>2. TypeInv /\ TruthInv /\ NothingLost /\ won_arr = WonArray(batch) /\ TokensPaidOnce
  BY <1>1 DEF ShapingInv, WonInv, PenaltiesPaidOnce
<1>3. Present
  BY <1>1, <1>2, AllPresent
<1>4. /\ new \in Seq(Nat)
      /\ \E order \in SetToSeqs({t \in Ids : episodes[t].won}) :
           new = [k \in DOMAIN order |-> episodes[order[k]].calls]
  BY <1>1, <1>2, <1>3, WonCalls
<1>5. /\ Len(batch) \in Nat /\ DOMAIN batch = 1 .. Len(batch)
      /\ \A i \in DOMAIN batch : batch[i] \in RowSet /\ batch[i].traj_uid \in Ids
  BY <1>2, BatchRows
<1>6. \A i \in DOMAIN batch : IsPenalised(batch, i, won_arr) <=>
                               episodes[batch[i].traj_uid].won /\ IsLast(i)
  BY <1>2, <1>3, PenalisedRows
<1> HIDE DEF new
<1>7. won_dt_buffer' \in Seq(Nat) /\ Slid(won_dt_buffer, new, won_dt_buffer')
  <2>1. won_dt_buffer \in Seq(Nat)
    BY <1>2 DEF TypeInv
  <2> QED BY <1>1, <1>4, <2>1, WindowSlides
<1>8. R \in Int
  BY <1>7, ReferenceIsNumber
<1> HIDE DEF R
<1>9. \A i \in DOMAIN batch : Due(i) \in Int
  <2> SUFFICES ASSUME NEW i \in DOMAIN batch PROVE Due(i) \in Int
    OBVIOUS
  <2>1. batch[i].tool_callings \in Nat
    BY <1>5, RowFields
  <2>2. Deviation(batch[i].tool_callings, R) \in Int
    BY <1>8, <2>1, DeviationIsExcess
  <2> QED BY <2>2
<1>10. \A i \in DOMAIN batch : batch'[i] = [batch[i] EXCEPT !.dt_penalty = Due(i)]
  BY <1>1
<1>11. \A i \in DOMAIN batch : Due(i) = IF IsPenalised(batch, i, won_arr)
                                        THEN Deviation(batch[i].tool_callings, R) ELSE 0
  OBVIOUS
<1>12. DOMAIN batch' = DOMAIN batch /\ batch' = [i \in DOMAIN batch |-> batch'[i]]
  BY <1>1
<1> HIDE DEF Due
<1>13. \A i \in DOMAIN batch : /\ batch'[i] \in RowSet /\ Alike(batch'[i], batch[i])
                                /\ batch'[i].step_rewards = batch[i].step_rewards
                                /\ batch'[i].token_penalty = batch[i].token_penalty
                                /\ batch'[i].dt_penalty = Due(i)
  <2> SUFFICES ASSUME NEW i \in DOMAIN batch
               PROVE  /\ batch'[i] \in RowSet /\ Alike(batch'[i], batch[i])
                      /\ batch'[i].step_rewards = batch[i].step_rewards
                      /\ batch'[i].token_penalty = batch[i].token_penalty
                      /\ batch'[i].dt_penalty = Due(i)
    OBVIOUS
  <2> DEFINE v == Due(i)
  <2>1. v \in Int /\ batch'[i] = [batch[i] EXCEPT !.dt_penalty = v] /\ batch[i] \in RowSet
    BY <1>5, <1>9, <1>10
  <2> HIDE DEF v
  <2>2. /\ batch'[i] \in RowSet /\ Alike(batch'[i], batch[i])
        /\ batch'[i].step_rewards = batch[i].step_rewards
        /\ batch'[i].token_penalty = batch[i].token_penalty /\ batch'[i].dt_penalty = v
    BY <2>1, RowsChange
  <2> QED BY <2>2 DEF v
<1>14. batch' \in Seq(RowSet)
  BY <1>5, <1>12, <1>13
<1>15. TypeInv'
  <2>1. stage' \in Stages /\ stage' # "rollout"
    BY <1>1 DEF Stages
  <2>2. episodes' \in [Ids -> Episodes] /\ won_buffer' \in Seq({0, 1})
    BY <1>1, <1>2 DEF TypeInv
  <2> QED BY <1>7, <1>14, <2>1, <2>2 DEF TypeInv
<1>16. /\ TruthInv' /\ OnceInv' /\ OrderInv' /\ ReturnsInv' /\ WonInv' /\ NothingLost'
       /\ \A t \in Ids : IsOf(t)' = IsOf(t)
  <2>1. won_arr' = WonArray(batch)
    BY <1>1, <1>2
  <2> QED BY <1>1, <1>12, <1>13, <1>14, <2>1, PenaltiesOnly
<1>17. ASSUME NEW t \in Ids
       PROVE  LET apart == Max({episodes[t].calls * WindowSize - R, R - episodes[t].calls * WindowSize})
                  due   == IF episodes[t].won /\ apart > WindowSize THEN apart - WindowSize ELSE 0
              IN  \E i \in IsOf(t) : \A j \in IsOf(t) :
                    batch'[j].dt_penalty = IF j = i THEN due ELSE 0
  <2> DEFINE c     == episodes[t].calls
             apart == Max({c * WindowSize - R, R - c * WindowSize})
             due   == IF episodes[t].won /\ apart > WindowSize THEN apart - WindowSize ELSE 0
  <2>1. IsOf(t) # {} /\ IsOf(t) \subseteq DOMAIN batch
    BY <1>3 DEF Present, IsOf
  <2>2. /\ Max(IsOf(t)) \in IsOf(t)
        /\ \A j \in IsOf(t) : IsLast(j) <=> j = Max(IsOf(t))
    BY <1>2, <2>1, LastRow
  <2>3. \A j \in IsOf(t) : batch[j].traj_uid = t /\ batch[j].tool_callings = c
    BY <1>2 DEF IsOf, TruthInv, Tells
  <2>4. c \in Nat /\ episodes[t].won \in BOOLEAN
    <3>1. episodes[t] \in Episodes
      BY <1>1, <1>2 DEF TypeInv
    <3> QED BY <3>1, EpisodesAre
  <2>5. Deviation(c, R) = Excess(apart)
    <3> HIDE DEF c
    <3> QED BY <1>8, <2>4, DeviationIsExcess
  <2> HIDE DEF apart, c
  <2>6. due = IF episodes[t].won THEN Deviation(c, R) ELSE 0
    BY <2>4, <2>5 DEF Excess
  <2> HIDE DEF due
  <2>7. \A j \in IsOf(t) : batch'[j].dt_penalty =
          IF episodes[t].won /\ j = Max(IsOf(t)) THEN Deviation(c, R) ELSE 0
    BY <1>6, <1>11, <1>13, <2>1, <2>2, <2>3
  <2>8. \E i \in IsOf(t) : \A j \in IsOf(t) :
          batch'[j].dt_penalty = IF j = i THEN due ELSE 0
    BY <2>2, <2>6, <2>7
  <2> QED BY <2>8 DEF due, apart, c
<1>18. PenaltiesPaidOnce'
  <2>1. TokensPaidOnce'
    <3> SUFFICES ASSUME NEW t \in Ids
                 PROVE  LET due == IF episodes'[t].won /\ CoefPositive(won_buffer')
                                   THEN TokensOf(episodes'[t]) ELSE 0
                        IN  \E i \in IsOf(t)' : \A j \in IsOf(t)' :
                              batch'[j].token_penalty = IF j = i THEN due ELSE 0
      BY Zenon DEF TokensPaidOnce
    <3>1. IsOf(t)' = IsOf(t) /\ episodes' = episodes /\ won_buffer' = won_buffer
      BY <1>1, <1>16
    <3> DEFINE due == IF episodes[t].won /\ CoefPositive(won_buffer)
                      THEN TokensOf(episodes[t]) ELSE 0
    <3>2. PICK i \in IsOf(t) : \A j \in IsOf(t) :
            batch[j].token_penalty = IF j = i THEN due ELSE 0
      BY <1>1, <1>2, Zenon DEF TokensPaidOnce
    <3>3. \A j \in IsOf(t) : batch'[j].token_penalty = batch[j].token_penalty
      BY <1>13 DEF IsOf
    <3> HIDE DEF due
    <3>4. \A j \in IsOf(t) : batch'[j].token_penalty = IF j = i THEN due ELSE 0
      BY <3>2, <3>3
    <3> QED BY <3>1, <3>4, Zenon DEF due
  <2>2. DeviationPaidOnce'
    <3> SUFFICES ASSUME NEW t \in Ids
                 PROVE  LET apart == Max({episodes'[t].calls * WindowSize - R,
                                          R - episodes'[t].calls * WindowSize})
                            due   == IF episodes'[t].won /\ apart > WindowSize
                                     THEN apart - WindowSize ELSE 0
                        IN  \E i \in IsOf(t)' : \A j \in IsOf(t)' :
                              batch'[j].dt_penalty = IF j = i THEN due ELSE 0
      BY Zenon DEF DeviationPaidOnce, R
    <3>1. IsOf(t)' = IsOf(t) /\ episodes' = episodes
      BY <1>1, <1>16
    <3> QED BY <1>17, <3>1, SMTT(30)
  <2> QED BY <2>1, <2>2 DEF PenaltiesPaidOnce
<1>19. \E order \in SetToSeqs({t \in Ids : episodes[t].won}) :
         Slid(won_dt_buffer, [k \in DOMAIN order |-> episodes[order[k]].calls], won_dt_buffer')
  BY <1>4, <1>7
<1> QED BY <1>15, <1>16, <1>18, <1>19 DEF ShapingInv

-----------------------------------------------------------------------------
(* The theorems.                                                             *)

LEMMA InitInv == Init => ShapingInv
<1> SUFFICES ASSUME Init PROVE ShapingInv
  OBVIOUS
<1>1. TypeInv
  BY DEF Init, TypeInv, Stages
<1>2. TruthInv /\ OnceInv /\ OrderInv /\ ReturnsInv /\ WonInv
  BY DEF Init, TruthInv, OnceInv, OrderInv, ReturnsInv, WonInv
<1>3. NothingLost /\ PenaltiesPaidOnce
  BY DEF Init, NothingLost, PenaltiesPaidOnce, TokensPaidOnce, DeviationPaidOnce
<1> QED BY <1>1, <1>2, <1>3 DEF ShapingInv

LEMMA StutterKeeps == ASSUME ShapingInv, UNCHANGED vars PROVE ShapingInv'
<1>1. UNCHANGED <<stage, episodes, batch, won_buffer, won_dt_buffer, won_arr>>
  BY DEF vars
<1>2. TypeInv' /\ TruthInv' /\ OnceInv' /\ OrderInv' /\ ReturnsInv' /\ WonInv'
  <2>1. Turns' = Turns /\ \A i : TurnAt(i)' = TurnAt(i)
    BY <1>1 DEF Turns, TurnAt
  <2>2. TypeInv /\ TruthInv /\ OnceInv /\ OrderInv /\ ReturnsInv /\ WonInv
    BY DEF ShapingInv
  <2> QED BY <1>1, <2>1, <2>2 DEF TypeInv, TruthInv, OnceInv, OrderInv, ReturnsInv, WonInv
<1>3. NothingLost' = NothingLost /\ PenaltiesPaidOnce' = PenaltiesPaidOnce
  BY <1>1 DEF NothingLost, PenaltiesPaidOnce, TokensPaidOnce, DeviationPaidOnce, Turns, IsOf
<1> QED BY <1>2, <1>3 DEF ShapingInv

(* From the first training step on, through copies, reordering and both      *)
(* penalties, every part of the invariant holds.                             *)
THEOREM ShapingInductive == Spec => []ShapingInv
<1>1. Init => ShapingInv
  BY InitInv
<1>2. ShapingInv /\ [Next]_vars => ShapingInv'
  BY RolloutKeeps, ReturnsKeep, AdjustKeeps, BalanceKeeps, TokenKeeps, QualityKeeps, StutterKeeps
     DEF Next
<1> QED BY <1>1, <1>2, PTL DEF Spec

(* adjust_batch and _balance_batch lose no row, copy none twice, and leave a *)
(* size the ranks can share.                                                 *)
THEOREM RowsSurvive == Spec => []NothingLost
<1>1. ShapingInv => NothingLost
  BY DEF ShapingInv
<1> QED BY <1>1, ShapingInductive, PTL

(* The reward to go of every row, copy or not, is that of its turn.          *)
THEOREM ReturnsOfTheTurn == Spec => []ReturnsAreOfTheTurn
<1>1. ShapingInv => ReturnsAreOfTheTurn
  BY DEF ShapingInv, ReturnsInv, ReturnsAreOfTheTurn
<1> QED BY <1>1, ShapingInductive, PTL

(* A won trajectory pays each penalty on exactly one of its rows.            *)
THEOREM PaidOnce == Spec => []PenaltiesPaidOnce
<1>1. ShapingInv => PenaltiesPaidOnce
  BY DEF ShapingInv
<1> QED BY <1>1, ShapingInductive, PTL

(* Each step moves the windows by what its trajectories did, once for each.  *)
THEOREM WindowsMove == Spec => WindowsSeeEpisodes
<1> DEFINE Moves ==
      /\ stage = "token" =>
           \E order \in SetToSeqs(Ids) :
             Slid(won_buffer, [k \in DOMAIN order |-> IF episodes[order[k]].won THEN 1 ELSE 0],
                  won_buffer')
      /\ stage = "quality" =>
           \E order \in SetToSeqs({t \in Ids : episodes[t].won}) :
             Slid(won_dt_buffer, [k \in DOMAIN order |-> episodes[order[k]].calls],
                  won_dt_buffer')
<1>1. ASSUME ShapingInv, Next PROVE Moves
  <2>1. CASE stage = "token"
    <3>1. TokenPenalty
      BY <1>1, <2>1 DEF Next, Rollout, StepReturns, AdjustBatch, BalanceBatch, DtQuality
    <3> QED BY <1>1, <2>1, <3>1, TokenKeeps
  <2>2. CASE stage = "quality"
    <3>1. DtQuality
      BY <1>1, <2>2 DEF Next, Rollout, StepReturns, AdjustBatch, BalanceBatch, TokenPenalty
    <3> QED BY <1>1, <2>2, <3>1, QualityKeeps
  <2> QED BY <2>1, <2>2
<1>2. ShapingInv /\ [Next]_vars => [Moves]_vars
  BY <1>1
<1> QED BY <1>2, ShapingInductive, PTL DEF Spec, WindowsSeeEpisodes

=============================================================================
