---------------------------- MODULE RewardShaping -----------------------------
(***************************************************************************)
(* From the rows of a rollout to the rewards the advantages are computed   *)
(* from (the part of RayPPOTrainer.fit behind the rollout): step returns,  *)
(* duplication of rows to a size the ranks can share (adjust_batch),       *)
(* reordering by length (_balance_batch), episode rewards, and the two     *)
(* penalties on won episodes with the sliding windows that control them.   *)
(*                                                                         *)
(* Trajectories reach the trainer as rows; every step from the second on   *)
(* finds them again by traj_uid in a batch with duplicates and in another  *)
(* order.  Penalties are kept apart from the reward, in tokens and in      *)
(* units of 1 / WindowSize calls, and not multiplied by their factors.     *)
(***************************************************************************)
EXTENDS Integers, Sequences, SequencesExt, FiniteSetsExt

CONSTANTS
  Trajectories,   \* trajectories of a rollout, numbered in the order of the batch
  MaxLength,      \* rows of a trajectory
  MaxCalls,       \* calls of the tool in a trajectory
  SizeDivisor,    \* size_divisor of adjust_batch
  WorldSize,      \* ranks the batch is balanced over
  WindowSize,     \* token_efficiency_penalty.window_size, of both windows
  InitVal,        \* dt_quality_reward.adaptive_threshold.init_val
  SrLo, SrHi,     \* sr_threshold_lo, sr_threshold_hi in percent
  MaxSteps        \* bound: training steps

ASSUME SizesAssumption ==
  /\ Trajectories \in Nat \ {0} /\ MaxLength \in Nat \ {0} /\ MaxCalls \in Nat
  /\ WorldSize \in Nat \ {0} /\ SizeDivisor \in Nat \ {0}
  /\ SizeDivisor % WorldSize = 0
ASSUME WindowAssumption    == WindowSize \in Nat \ {0} /\ InitVal \in Nat
ASSUME ThresholdAssumption == SrLo \in 0 .. 100 /\ SrHi \in SrLo .. 100

VARIABLES
  stage,            \* what fit does next
  steps,
  episodes,         \* the trajectories of the rollout
  batch,            \* the rows
  won_buffer,       \* TokenEfficiencyPenaltyController._won_buffer
  won_dt_buffer,    \* AdaptiveDTThresholdController._won_dt_buffer
  won_arr

windows == <<won_buffer, won_dt_buffer>>

vars == <<stage, steps, episodes, batch, won_buffer, won_dt_buffer, won_arr>>

Stages == {"rollout", "returns", "adjust", "balance", "token", "quality", "done", "raised"}

Ids == 1 .. Trajectories

Episodes == [length : 1 .. MaxLength, won : BOOLEAN, calls : 0 .. MaxCalls]

(* One token per generation: an action per row, two for every call.          *)
TokensOf(episode) == episode.length + 2 * episode.calls

(* The elements of a finite set of numbers, the smallest first.              *)
InOrder(S) ==
  CHOOSE s \in [1 .. Cardinality(S) -> S] : \A i, j \in DOMAIN s : i < j => s[i] < s[j]

(* The rows gather_rollout_data made of trajectory t: the reward is the last *)
(* row's.                                                                    *)
RowsOf(t, episode) ==
  [k \in 1 .. episode.length |->
     [traj_uid |-> t, turn |-> k,
      rewards  |-> IF episode.won /\ k = episode.length THEN 1 ELSE 0,
      episode_rewards     |-> IF episode.won THEN 1 ELSE 0,
      tool_callings       |-> episode.calls,
      total_output_tokens |-> TokensOf(episode),
      step_rewards |-> 0, token_penalty |-> 0, dt_penalty |-> 0]]

-----------------------------------------------------------------------------
Init ==
  /\ stage = "rollout" /\ steps = 0
  /\ episodes = <<>> /\ batch = <<>> /\ won_arr = <<>>
  /\ won_buffer = <<>> /\ won_dt_buffer = <<>>

Rollout ==
  /\ stage \in {"rollout", "done"} /\ steps < MaxSteps
  /\ episodes' \in [Ids -> Episodes]
  /\ batch' = FlattenSeq([t \in Ids |-> RowsOf(t, episodes'[t])])
  /\ won_arr' = <<>>
  /\ stage' = "returns"
  /\ steps' = steps + 1
  /\ UNCHANGED windows

(* Mutant: the running return starts at the first row instead of the last. *)
ReturnOf_Forward(rows, i) ==
  Cardinality({k \in 1 .. i : rows[k].traj_uid = rows[i].traj_uid /\ rows[k].rewards = 1})

(* compute_step_discounted_returns with gamma = 1: the rewards of the rows   *)
(* of the trajectory from this one on, in the order of the batch.            *)
ReturnOf(rows, i) ==
  Cardinality({k \in i .. Len(rows) :
                 rows[k].traj_uid = rows[i].traj_uid /\ rows[k].rewards = 1})

StepReturns ==
  /\ stage = "returns"
  /\ batch' = [i \in DOMAIN batch |-> [batch[i] EXCEPT !.step_rewards = ReturnOf(batch, i)]]
  /\ stage' = "adjust"
  /\ UNCHANGED <<steps, episodes, windows, won_arr>>

-----------------------------------------------------------------------------
(* Mutant: the remainder is added instead of what is missing. *)
ToAdd_Remainder(n) == n % SizeDivisor

ToAdd(n) == IF n % SizeDivisor = 0 THEN 0 ELSE SizeDivisor - (n % SizeDivisor)

(* adjust_batch: that many different rows, drawn at random, are appended     *)
(* again; there may be too few of them.                                      *)
AdjustBatch ==
  /\ stage = "adjust"
  /\ LET n == ToAdd(Len(batch))
     IN  \/ /\ n <= Len(batch)
            /\ \E dup \in [1 .. n -> DOMAIN batch] :
                 /\ IsInjective(dup)
                 /\ batch' = batch \o [k \in 1 .. n |-> batch[dup[k]]]
            /\ stage' = "balance"
         \/ /\ n > Len(batch)
            /\ stage' = "raised" /\ UNCHANGED batch
  /\ UNCHANGED <<steps, episodes, windows, won_arr>>

(* _balance_batch: the rows are dealt to the ranks in equal numbers, each    *)
(* rank's in the order of the batch, and the batch is reordered by rank.     *)
(* Which rows go to which rank depends on their lengths (SeqlenBalancing).   *)
BalanceBatch ==
  /\ stage = "balance"
  /\ \E rank \in [DOMAIN batch -> 1 .. WorldSize] :
       /\ \A r \in 1 .. WorldSize :
            WorldSize * Cardinality({i \in DOMAIN batch : rank[i] = r}) = Len(batch)
       /\ LET global_idx == FlattenSeq([r \in 1 .. WorldSize |->
                               InOrder({i \in DOMAIN batch : rank[i] = r})])
          IN  batch' = [k \in DOMAIN global_idx |-> batch[global_idx[k]]]
  /\ stage' = "token"
  /\ UNCHANGED <<steps, episodes, windows, won_arr>>

-----------------------------------------------------------------------------
(* The first rows of the trajectories.                                       *)
FirstRows(rows) ==
  InOrder({i \in DOMAIN rows : \A k \in 1 .. (i - 1) : rows[k].traj_uid # rows[i].traj_uid})

(* The trajectories in the order their first rows have in the batch.         *)
UidOrder(rows) ==
  LET first == FirstRows(rows) IN [k \in DOMAIN first |-> rows[first[k]].traj_uid]

(* The verdicts, aligned with UidOrder.                                      *)
WonArray(rows) ==
  LET first == FirstRows(rows) IN [k \in DOMAIN first |-> rows[first[k]].episode_rewards]

(* Mutant: the calls are listed in the order of the last rows. *)
DtCalls_ByLastRow(rows) ==
  LET last == InOrder({i \in DOMAIN rows :
                         \A k \in (i + 1) .. Len(rows) : rows[k].traj_uid # rows[i].traj_uid})
  IN  [k \in DOMAIN last |-> rows[last[k]].tool_callings]

(* _extract_unique_dt_calls: the last row of a trajectory tells its calls.   *)
DtCalls(rows) ==
  LET order == UidOrder(rows)
  IN  [k \in DOMAIN order |->
         rows[Max({i \in DOMAIN rows : rows[i].traj_uid = order[k]})].tool_callings]

(* deque(maxlen = window_size), extended by the entries of new.              *)
Window(buffer, new) ==
  LET all == buffer \o new
  IN  SubSeq(all, Max({1, Len(all) - WindowSize + 1}), Len(all))

(* The wins of a window; its success rate is compared in percent.            *)
Wins(buffer) == Cardinality({k \in DOMAIN buffer : buffer[k] > 0})

(* current_coef is positive.                                                 *)
CoefPositive(buffer) ==
  LET wins == 100 * Wins(buffer)
      n    == IF buffer = <<>> THEN 1 ELSE Len(buffer)
  IN  wins >= SrHi * n \/ wins > SrLo * n

(* Mutant: every row of the trajectory is penalised. *)
IsPenalised_EveryRow(rows, i, won) ==
  \E k \in DOMAIN won : UidOrder(rows)[k] = rows[i].traj_uid /\ won[k] > 0

(* Row i carries the penalty of its trajectory: it is the last row of a won  *)
(* one.  If verdicts and trajectories do not match in number, none does.     *)
IsPenalised(rows, i, won) ==
  /\ Len(won) = Len(UidOrder(rows))
  /\ \E k \in DOMAIN won : UidOrder(rows)[k] = rows[i].traj_uid /\ won[k] > 0
  /\ \A k \in (i + 1) .. Len(rows) : rows[k].traj_uid # rows[i].traj_uid

(* TokenEfficiencyPenaltyController.update, apply_token_efficiency_penalty   *)
TokenPenalty ==
  /\ stage = "token"
  /\ won_arr' = WonArray(batch)
  /\ won_buffer' = Window(won_buffer, won_arr')
  /\ batch' = [i \in DOMAIN batch |-> [batch[i] EXCEPT !.token_penalty =
                  IF CoefPositive(won_buffer') /\ IsPenalised(batch, i, won_arr')
                  THEN batch[i].total_output_tokens ELSE 0]]
  /\ stage' = "quality"
  /\ UNCHANGED <<steps, episodes, won_dt_buffer>>

(* AdaptiveDTThresholdController.update: the calls of the won episodes.      *)
WonDtCalls(won, calls) ==
  LET wins == InOrder({k \in DOMAIN won : won[k] > 0})
  IN  [k \in DOMAIN wins |-> calls[wins[k]]]

(* current_mean_won_dt, in units of 1 / WindowSize.                          *)
Reference(buffer) ==
  IF Len(buffer) < WindowSize THEN InitVal * WindowSize ELSE FoldLeft(+, 0, buffer)

(* Mutant: only calling too often is penalised. *)
Deviation_OneSided(calls, reference) ==
  Max({0, calls * WindowSize - reference - WindowSize})

Deviation(calls, reference) ==
  LET difference == calls * WindowSize - reference
  IN  Max({0, difference - WindowSize, -difference - WindowSize})

DtQuality ==
  /\ stage = "quality"
  /\ won_dt_buffer' = Window(won_dt_buffer, WonDtCalls(won_arr, DtCalls(batch)))
  /\ batch' = [i \in DOMAIN batch |-> [batch[i] EXCEPT !.dt_penalty =
                  IF IsPenalised(batch, i, won_arr)
                  THEN Deviation(batch[i].tool_callings, Reference(won_dt_buffer')) ELSE 0]]
  /\ stage' = "done"
  /\ UNCHANGED <<steps, episodes, won_buffer, won_arr>>

-----------------------------------------------------------------------------
Next == Rollout \/ StepReturns \/ AdjustBatch \/ BalanceBatch \/ TokenPenalty \/ DtQuality

Spec == Init /\ [][Next]_vars

=============================================================================
