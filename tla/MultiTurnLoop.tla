---------------------------- MODULE MultiTurnLoop -----------------------------
(***************************************************************************)
(* The entry of the rollout (multi_turn_loop): a training batch is rolled  *)
(* out once or, with filter_groups, by dynamic sampling: again and again,  *)
(* keeping the groups whose episodes differ in reward, until there are     *)
(* enough trajectories or the tries are used up, then merged.              *)
(*                                                                         *)
(* The branch of the selective thinking modes is SelectiveRollout.         *)
(***************************************************************************)
EXTENDS VanillaRollout, FiniteSetsExt

CONSTANTS
  TrainBatchSize,       \* data.train_batch_size: groups of a training batch
  ValBatchSize,         \* envs of a validation batch
  FilterGroups,         \* algorithm.filter_groups.enable
  MaxNumGenBatches,     \* algorithm.filter_groups.max_num_gen_batches
  MaxCalls              \* bound: calls of the loop, with all the tries

ASSUME BatchSizesAssumption == TrainBatchSize \in Nat \ {0} /\ ValBatchSize \in Nat \ {0}
ASSUME FilterAssumption     == FilterGroups \in BOOLEAN /\ MaxNumGenBatches \in Nat

VARIABLES
  status,                 \* where the call of multi_turn_loop is
  is_train,
  try_count,
  total_trajectories,     \* total_batch_list of dynamic_multi_turn_loop
  total_episode_rewards,  \* per try
  total_episode_lengths,  \* per try
  total_success,          \* per try: lists per key
  total_traj_uid,         \* per try
  total_tool_callings,    \* per try
  gen_batch_output        \* the rows gather_rollout_data returned

totals == <<total_trajectories, total_episode_rewards, total_episode_lengths,
            total_success, total_traj_uid, total_tool_callings>>

vars == <<vanillaVars, status, is_train, try_count, totals, gen_batch_output>>

Statuses == {"idle", "sampling", "rolling", "gather", "returned",
             "no_batch", "key_error", "unbound_local"}

Init ==
  /\ VanillaInit
  /\ status = "idle" /\ is_train = FALSE /\ try_count = 0
  /\ total_trajectories = <<>> /\ total_episode_rewards = <<>>
  /\ total_episode_lengths = <<>> /\ total_success = <<>> /\ total_traj_uid = <<>>
  /\ total_tool_callings = <<>>
  /\ gen_batch_output = <<>>

(* Trajectories of a training batch: each prompt is repeated.                *)
Target == TrainBatchSize * GroupSize

(* The trainer calls the loop, for a training or a validation batch.         *)
Call ==
  /\ status = "idle" /\ calls < MaxCalls
  /\ is_train' \in BOOLEAN
  /\ status' = IF FilterGroups /\ is_train' THEN "sampling" ELSE "rolling"
  /\ try_count' = 0
  /\ UNCHANGED <<totals, gen_batch_output>>
  /\ IF FilterGroups /\ is_train' THEN UNCHANGED vanillaVars
     ELSE VanillaReset(IF is_train' THEN Target ELSE ValBatchSize, is_train')

(* A turn of the plain loop, or its verdicts.                                *)
Roll ==
  /\ VanillaTurn \/ VanillaEvaluate
  /\ UNCHANGED <<status, is_train, try_count, totals, gen_batch_output>>

-----------------------------------------------------------------------------
(* dynamic_multi_turn_loop.                                                  *)

(* Mutant: one more batch although there is enough. *)
Short_OrEqual == Len(total_trajectories) <= Target

Short == Len(total_trajectories) < Target

Try ==
  /\ status = "sampling" /\ phase = "idle"
  /\ Short /\ try_count < MaxNumGenBatches
  /\ try_count' = try_count + 1
  /\ VanillaReset(Target, TRUE)
  /\ UNCHANGED <<status, is_train, totals, gen_batch_output>>

At(list, indices) == [k \in DOMAIN indices |-> list[indices[k]]]

(* The envs of the group with index g, counted from 0.                       *)
GroupIndices(g) == [j \in 1 .. GroupSize |-> g * GroupSize + j]

GroupRewards(g) == At(episode_rewards, GroupIndices(g))

(* Mutant: a group is informative as soon as one of its episodes failed. *)
Informative_AnyFailed(g) == \E j \in 1 .. GroupSize : GroupRewards(g)[j] = 0

Informative(g) == \E j \in 1 .. GroupSize : GroupRewards(g)[j] # GroupRewards(g)[1]

LastTry == try_count = MaxNumGenBatches

(* filter_group_data: the indices kept, group by group.                      *)
KeepIndices ==
  IF LastTry THEN [i \in Batch |-> i]
  ELSE FlattenSeq([g \in 1 .. TrainBatchSize |->
                     IF Informative(g - 1) THEN GroupIndices(g - 1) ELSE <<>>])

(* Mutant: the lengths are not filtered with the rest. *)
KeptLengths_All == [i \in Batch |-> episode_lengths[i]]

KeptLengths == At(episode_lengths, KeepIndices)

(* Tool calls per episode: added up where the infos report them              *)
(* (vanilla_multi_turn_loop), which no environment of the repository does.   *)
ToolCallings == [i \in Batch |-> 0]

(* Keys whose list does not cover the batch cannot be filtered and go.       *)
KeptSuccess ==
  IF LastTry THEN success
  ELSE [key \in {k \in DOMAIN success : Len(success[k]) = Len(total_batch_list)} |->
          At(success[key], KeepIndices)]

Keep ==
  /\ status = "sampling" /\ phase = "done"
  /\ total_trajectories' = total_trajectories \o At(total_batch_list, KeepIndices)
  /\ total_episode_rewards' = Append(total_episode_rewards, At(episode_rewards, KeepIndices))
  /\ total_episode_lengths' = Append(total_episode_lengths, KeptLengths)
  /\ total_success' = Append(total_success, KeptSuccess)
  /\ total_traj_uid' =
       Append(total_traj_uid, At([i \in Batch |-> TrajUidOf(calls, i)], KeepIndices))
  /\ total_tool_callings' = Append(total_tool_callings, At(ToolCallings, KeepIndices))
  /\ VanillaReturns
  /\ UNCHANGED <<status, is_train, try_count, gen_batch_output>>

(* The loop is over: the lists of the tries are concatenated, which fails    *)
(* without a try and if a key of the first is missing in another one.  Then  *)
(* gather_rollout_data is called with two token counts that this branch of   *)
(* multi_turn_loop never assigned.                                           *)
MergeOutcome ==
  CASE total_success = <<>>                                   -> "no_batch"
    [] total_success # <<>> /\ \E t \in DOMAIN total_success :
         ~(DOMAIN total_success[1] \subseteq DOMAIN total_success[t]) -> "key_error"
    [] OTHER                                                  -> "unbound_local"

Merge ==
  /\ status = "sampling" /\ phase = "idle"
  /\ ~(Short /\ try_count < MaxNumGenBatches)
  /\ status' = MergeOutcome
  /\ UNCHANGED <<vanillaVars, is_train, try_count, totals, gen_batch_output>>

-----------------------------------------------------------------------------
(* What the loop has merged so far, list by list.                            *)

MergedRewards == FlattenSeq(total_episode_rewards)
MergedLengths == FlattenSeq(total_episode_lengths)
MergedTrajUid == FlattenSeq(total_traj_uid)
MergedToolCallings == FlattenSeq(total_tool_callings)

MergedSuccess(key) ==
  FlattenSeq([t \in DOMAIN total_success |-> total_success[t][key]])

-----------------------------------------------------------------------------
(* The plain branch, and what the trainer gets.                              *)

(* gather_rollout_data: the active rows, stamped with the sums of their      *)
(* trajectory.                                                               *)
Stamp(i, row) ==
  [uid |-> row.uid, traj_uid |-> row.traj_uid,
   episode_rewards |-> episode_rewards[i], episode_lengths |-> episode_lengths[i]]

(* Mutant: the rows played after the end of the episode are kept. *)
Stamped_AllRows(i) ==
  [k \in DOMAIN total_batch_list[i] |-> Stamp(i, total_batch_list[i][k])]

Stamped(i) ==
  FlattenSeq([k \in DOMAIN total_batch_list[i] |->
                IF total_batch_list[i][k].active_masks
                THEN <<Stamp(i, total_batch_list[i][k])>> ELSE <<>>])

Gather ==
  /\ status = "rolling" /\ phase = "done"
  /\ gen_batch_output' = FlattenSeq([i \in Batch |-> Stamped(i)])
  /\ status' = "returned"
  /\ UNCHANGED <<vanillaVars, is_train, try_count, totals>>

(* The trainer has used the batch and goes on.                               *)
Consume ==
  /\ status = "returned"
  /\ VanillaReturns
  /\ status' = "idle"
  /\ gen_batch_output' = <<>>
  /\ UNCHANGED <<is_train, try_count, totals>>

Next == Call \/ Roll \/ Try \/ Keep \/ Merge \/ Gather \/ Consume

Spec == Init /\ [][Next]_vars

=============================================================================
