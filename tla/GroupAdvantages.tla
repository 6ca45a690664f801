--------------------------- MODULE GroupAdvantages ---------------------------
(***************************************************************************)
(* From the rewards of the rows to their advantages (compute_advantage):   *)
(* the estimators that compare the rows of a prompt, on a batch that has   *)
(* been filled up with copies and reordered for the ranks.                 *)
(*                                                                         *)
(* A row has the reward of its episode, token_level_rewards summed up, and *)
(* the discounted return of its step, step_rewards; penalties make the one *)
(* independent of the other.  Advantages are fractions <<n, d>> with d > 0.*)
(* The division by a standard deviation, which is positive, is left out.   *)
(***************************************************************************)
EXTENDS Integers, Sequences, SequencesExt, FiniteSetsExt

CONSTANTS
  Trajectories,   \* of the batch, numbered in its order
  RolloutN,       \* trajectories of a prompt
  MaxRows,        \* rows of a rollout
  WorldSize,      \* ranks; the batch has a multiple of them
  Rewards,        \* of the rows, a set of integers
  Returns,        \* of their steps, another
  Observations,
  SimilarPairs    \* of observations, in the order are_similar takes them

ASSUME AdvantagesAssumption ==
  /\ Trajectories \in Nat \ {0} /\ RolloutN \in Nat \ {0}
  /\ MaxRows \in Nat /\ WorldSize \in 1..MaxRows
  /\ Rewards \subseteq Int /\ Returns \subseteq Int
  /\ Returns # {} /\ Observations # {}
  /\ SimilarPairs \subseteq Observations \X Observations
  /\ \A o \in Observations : <<o, o>> \in SimilarPairs

Estimators == {"grpo", "grpo_passk", "rloo", "gigpo", "gigpo_similarity"}

VARIABLES
  stage,
  adv_estimator,
  batch,        \* the rows
  advantages    \* of the rows

advantage_vars == <<stage, adv_estimator, batch, advantages>>

-----------------------------------------------------------------------------
(* The rewards of a prompt.                                                *)

\* id2score: all the rows of a trajectory count, and so do copies.
OfPrompt(rows, i) == {k \in DOMAIN rows : rows[k].uid = rows[i].uid}

\* The scores a row is compared by.
EpisodeScores(rows) == [k \in DOMAIN rows |-> rows[k].reward]
StepScores(rows) == [k \in DOMAIN rows |-> rows[k].step_reward]

Total(scores, those) == MapThenSumSet(LAMBDA k : scores[k], those)

\* The distance of a score from the mean of those it is compared with.
FromMean(scores, i, those) ==
  LET n == Cardinality(those) IN <<n * scores[i] - Total(scores, those), n>>

Grpo(rows, i) ==
  LET group == OfPrompt(rows, i)
  IN  IF Cardinality(group) = 1 THEN <<rows[i].reward, 1>> ELSE FromMean(EpisodeScores(rows), i, group)

\* The mean and the reward itself, both times n / (n - 1).
Rloo(rows, i) ==
  LET group == OfPrompt(rows, i)
      n     == Cardinality(group)
  IN  IF n = 1 THEN <<rows[i].reward, 1>>
      ELSE <<n * rows[i].reward - Total(EpisodeScores(rows), group), n - 1>>

\* The rows a best one is taken from; it is compared with the best of the others.
Passk(rows, i) ==
  LET group  == OfPrompt(rows, i)
      best   == Max({rows[k].reward : k \in group})
      i_max  == Min({k \in group : rows[k].reward = best})
      others == {rows[k].reward : k \in group \ {i_max}}
  IN  <<IF i = i_max THEN best - Max(others) ELSE 0, 1>>

-----------------------------------------------------------------------------
(* The step groups of GiGPO.                                               *)

AreSimilar(est, a, b) == IF est = "gigpo" THEN a = b ELSE <<a, b>> \in SimilarPairs

Fits_AnyPrompt(rows, est, cluster, i) ==
  AreSimilar(est, rows[i].anchor_obs, rows[cluster.rep].anchor_obs)

\* A cluster a row may join: one of its prompt whose first row is alike.
Fits(rows, est, cluster, i) ==
  /\ rows[cluster.rep].uid = rows[i].uid
  /\ AreSimilar(est, rows[i].anchor_obs, rows[cluster.rep].anchor_obs)

\* A row joins the first cluster that fits, or founds one.
Placed(rows, est, clusters, i) ==
  LET fitting == {c \in DOMAIN clusters : Fits(rows, est, clusters[c], i)}
  IN  IF fitting = {} THEN Append(clusters, [rep |-> i, locs |-> {i}])
      ELSE [clusters EXCEPT ![Min(fitting)].locs = @ \cup {i}]

\* The clusters, in the order of their first rows.
Clusters(rows, est) ==
  FoldLeft(LAMBDA clusters, i : Placed(rows, est, clusters, i), <<>>, [i \in DOMAIN rows |-> i])

StepGroup(rows, est, i) ==
  LET clusters == Clusters(rows, est)
  IN  (CHOOSE c \in Range(clusters) : i \in c.locs).locs

\* A row alone in its group is compared with itself.
StepAdvantage(rows, est, i) == FromMean(StepScores(rows), i, StepGroup(rows, est, i))

Plus(x, y) == <<x[1] * y[2] + y[1] * x[2], x[2] * y[2]>>

Gigpo_InputsSwapped(rows, est, i) ==
  Plus(FromMean(StepScores(rows), i, OfPrompt(rows, i)),
       FromMean(EpisodeScores(rows), i, StepGroup(rows, est, i)))

\* Of the rewards among the rows of the prompt, and the returns among those of
\* the step group.
Gigpo(rows, est, i) == Plus(Grpo(rows, i), StepAdvantage(rows, est, i))

-----------------------------------------------------------------------------
AdvantageInit ==
  /\ stage = "rollout" /\ adv_estimator = "grpo"
  /\ batch = <<>> /\ advantages = <<>>

\* Rows as far as the estimator looks at them.
RowsFor(est) ==
  LET Seen(values) == IF est \in {"gigpo", "gigpo_similarity"} THEN values
                      ELSE {CHOOSE v \in values : TRUE}
  IN  [traj_uid : 1..Trajectories, anchor_obs : Seen(Observations), reward : Rewards,
       step_reward : Seen(Returns)]

\* The rows of a rollout, those of a trajectory together.  Prompts are
\* repeated, so that neighbours make a group.
Rollout ==
  /\ stage = "rollout"
  /\ adv_estimator' \in Estimators
  /\ \E n \in 1..MaxRows : \E rows \in [1..n -> RowsFor(adv_estimator')] :
       /\ \A i \in 2..n : rows[i - 1].traj_uid <= rows[i].traj_uid
       /\ batch' = [i \in 1..n |-> [uid |-> (rows[i].traj_uid - 1) \div RolloutN,
                                    anchor_obs |-> rows[i].anchor_obs,
                                    reward |-> rows[i].reward,
                                    step_reward |-> rows[i].step_reward]]
  /\ stage' = "adjust"
  /\ UNCHANGED advantages

\* adjust_batch: copies of different rows; too few rows raise (RewardShaping).
AdjustBatch ==
  /\ stage = "adjust"
  /\ LET add == (WorldSize - (Len(batch) % WorldSize)) % WorldSize
     IN  /\ add <= Len(batch)
         /\ \E copies \in [1..add -> DOMAIN batch] :
              /\ \A j, k \in 1..add : copies[j] = copies[k] => j = k
              /\ batch' = batch \o [k \in 1..add |-> batch[copies[k]]]
  /\ stage' = "balance"
  /\ UNCHANGED <<adv_estimator, advantages>>

\* The elements of a finite set of numbers, the smallest first.
InOrder(S) ==
  CHOOSE s \in [1..Cardinality(S) -> S] : \A i, j \in DOMAIN s : i < j => s[i] < s[j]

\* _balance_batch: equal shares, each in the order of the batch.
Reordered(rows, rank) ==
  FlattenSeq([r \in 1..WorldSize |->
    LET share == InOrder({i \in DOMAIN rows : rank[i] = r})
    IN  [k \in DOMAIN share |-> rows[share[k]]]])

EqualShares(n) ==
  {rank \in [1..n -> 1..WorldSize] :
     \A r \in 1..WorldSize : WorldSize * Cardinality({i \in 1..n : rank[i] = r}) = n}

BalanceBatch ==
  /\ stage = "balance"
  /\ \E rank \in EqualShares(Len(batch)) : batch' = Reordered(batch, rank)
  /\ stage' = "advantage"
  /\ UNCHANGED <<adv_estimator, advantages>>

AdvantageOf(rows, est, i) ==
  CASE est = "grpo"       -> Grpo(rows, i)
    [] est = "rloo"       -> Rloo(rows, i)
    [] est = "grpo_passk" -> Passk(rows, i)
    [] OTHER              -> Gigpo(rows, est, i)

\* Pass@k needs two rows of every prompt.
ComputeAdvantage ==
  /\ stage = "advantage"
  /\ IF adv_estimator = "grpo_passk" /\ \E i \in DOMAIN batch : OfPrompt(batch, i) = {i}
     THEN stage' = "raised" /\ UNCHANGED advantages
     ELSE /\ stage' = "done"
          /\ advantages' = [i \in DOMAIN batch |-> AdvantageOf(batch, adv_estimator, i)]
  /\ UNCHANGED <<adv_estimator, batch>>

AdvantageNext == Rollout \/ AdjustBatch \/ BalanceBatch \/ ComputeAdvantage

AdvantageSpec == AdvantageInit /\ [][AdvantageNext]_advantage_vars
=============================================================================
