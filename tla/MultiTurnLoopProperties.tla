----------------------- MODULE MultiTurnLoopProperties ------------------------
(***************************************************************************)
(* What dynamic sampling must guarantee of the batch it merges.            *)
(***************************************************************************)
EXTENDS MultiTurnLoop

(* The active rows of a trajectory.                                          *)
Active(rows) == {r \in DOMAIN rows : rows[r].active_masks}

UidAt(k) == total_trajectories[k][1].uid

(* The batch handed to the trainer by the plain loop: every trajectory has   *)
(* as many rows as its length says, and all carry the same reward.           *)
RowsMatchLengths ==
  status = "returned" =>
    \A k \in DOMAIN gen_batch_output :
      LET rows == {r \in DOMAIN gen_batch_output :
                     gen_batch_output[r].traj_uid = gen_batch_output[k].traj_uid}
      IN  /\ Cardinality(rows) = gen_batch_output[k].episode_lengths
          /\ \A r \in rows :
               gen_batch_output[r].episode_rewards = gen_batch_output[k].episode_rewards

(* Between two tries, the six lists kept apart (trajectories, rewards,       *)
(* lengths, verdicts, ids, tool calls), each filtered and concatenated on    *)
(* its own, still speak of the same trajectories in the same order: the      *)
(* lengths and rewards count the active rows and those that were rewarded    *)
(* (by 1: a row earns 0 or 1), and an episode is a success if and only if it *)
(* was rewarded; of the tool calls, which are 0 in all games here, there is  *)
(* one count per trajectory.  And so it is for the rows that are handed to   *)
(* the trainer.                                                              *)
ListsAligned ==
  /\ RowsMatchLengths
  /\ phase = "idle" =>
       /\ Len(MergedRewards) = Len(total_trajectories)
       /\ Len(MergedLengths) = Len(total_trajectories)
       /\ Len(MergedTrajUid) = Len(total_trajectories)
       /\ Len(MergedSuccess("success_rate")) = Len(total_trajectories)
       /\ Len(MergedToolCallings) = Len(total_trajectories)
       /\ \A k \in DOMAIN total_trajectories :
            LET rows == total_trajectories[k]
            IN  /\ \A r \in DOMAIN rows : rows[r].traj_uid = MergedTrajUid[k]
                /\ MergedRewards[k] = Cardinality({r \in Active(rows) : rows[r].rewards = 1})
                /\ MergedLengths[k] = Cardinality(Active(rows))
                /\ MergedSuccess("success_rate")[k] <=> MergedRewards[k] = 1

(* Groups are kept or dropped as a whole, once, and stay apart: every uid of *)
(* the merged batch stands for GroupSize different trajectories of one try,  *)
(* so that advantages are normalised over complete groups.                   *)
GroupsComplete ==
  \A k \in DOMAIN total_trajectories :
    LET group == {l \in DOMAIN total_trajectories : UidAt(l) = UidAt(k)}
    IN  /\ Cardinality(group) = GroupSize
        /\ Cardinality({MergedTrajUid[l] : l \in group}) = GroupSize

(* Sampling ends well, whatever the games answered.  Only the last try may   *)
(* add groups that teach nothing: in every other one the rewards of a group  *)
(* differ.  The last try is taken unfiltered for a reason: it fills the batch*)
(* by itself, so there are enough trajectories at the end, and never two     *)
(* batches of them.                                                          *)
SamplingEndsWell ==
  /\ \A k \in DOMAIN total_trajectories :
       LET group == {l \in DOMAIN total_trajectories : UidAt(l) = UidAt(k)}
       IN  \/ \E l \in group : MergedRewards[l] # MergedRewards[k]
           \/ try_count = MaxNumGenBatches
              /\ \A l \in group : l > Len(total_trajectories) - Target
  /\ Len(total_trajectories) < 2 * Target
  /\ status \in {"key_error", "unbound_local"} => Len(total_trajectories) >= Target

=============================================================================
