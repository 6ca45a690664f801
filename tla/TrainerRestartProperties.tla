----------------------- MODULE TrainerRestartProperties -----------------------
(***************************************************************************)
(* What checkpoints and restarts must guarantee, and what comments of the  *)
(* code say about them.                                                    *)
(***************************************************************************)
EXTENDS TrainerRestart, FiniteSets, Functions

(* Types of the variables of the trainer and of the managers. *)
TypeOK ==
  /\ ManagersTypeOK
  /\ status \in Statuses
  /\ launches \in 0 .. MaxLaunches
  /\ global_steps \in 0 .. LastStep
  /\ position \in 0 .. LastStep
  /\ to_save \subseteq Roles
  /\ data \in [Steps -> (0 .. LastStep) \cup {NoFile}]
  /\ tracker \in Steps \cup {NoTracker, Truncated}

-----------------------------------------------------------------------------
(* Safety.                                                                   *)

(* The checkpoint of a step is whole: every file of every role is there and  *)
(* all were written by the launch n at that step.                            *)
WrittenAt(role, step, n) ==
  \A w \in Writers(role) : shards[role][step][w] = [run |-> n, step |-> step]

Whole(step) ==
  /\ \E n \in 1 .. MaxLaunches : \A role \in Roles : WrittenAt(role, step, n)
  /\ data[step] = step

(* checkpoint_manager.py:169: the tracker records "the latest chckpoint      *)
(* during training to restart from": whatever was interrupted since, the     *)
(* checkpoint it names can be resumed from, and is of one launch.            *)
TrackedIsWhole == tracker \in Steps => tracker \in folders /\ Whole(tracker)

(* The directories a manager remembers are whole, in the order they were     *)
(* written, and the same on every rank once a save is over.                  *)
RememberedAreWhole ==
  \A role \in Roles, r \in Ranks :
    LET paths == previous_saved_paths[role][r]
    IN  /\ ~(saving = role /\ at[r] = "entered") =>
             \A k \in DOMAIN paths : WrittenAt(role, paths[k], launches)
        /\ \A k \in DOMAIN paths : k < Len(paths) => paths[k] < paths[k + 1]
        /\ saving # role => \A q \in Ranks : previous_saved_paths[role][q] = paths

(* The checkpoints of a role that this launch has written. *)
OfThisLaunch(role) ==
  {s \in Steps : \E r \in Ranks : /\ shards[role][s][r] # NoFile
                                 /\ shards[role][s][r].run = launches}

(* Rotation (remove_previous_save_local_path) keeps what a manager believes  *)
(* it keeps, on ranks that rotate on their own, and at no moment of a save   *)
(* more than max_ckpt_to_keep.  (Checkpoints of earlier launches stay for    *)
(* ever: previous_saved_paths starts empty.)                                 *)
KeptPathsIntact ==
  /\ RememberedAreWhole
  /\ MaxCkptToKeep > 0 =>
       \A role \in Roles : Cardinality(OfThisLaunch(role)) <= MaxCkptToKeep

(* Whatever a launch resumed from, the weights it trains and the data it     *)
(* draws are of the same step, on every rank; also when rank 0 alone has     *)
(* written them and a missing file would be passed over in silence.          *)
PartsInStep ==
  status \notin {"down", "finished"} =>
    \A role \in Roles, r \in Ranks : weights[role][r].step = position

(* The step a truncated tracker was opened for: the last one with data.pt.   *)
LatestData ==
  CHOOSE s \in Steps : data[s] # NoFile /\ \A q \in Steps : data[q] # NoFile => q <= s

(* The parts of the state of a training, and the step each is the result of. *)
AllParts == (Roles \X Ranks) \cup {<<"loader", 0>>}

AsOf == [p \in AllParts |->
           IF p[1] = "loader" THEN position ELSE weights[p[1]][p[2]].step]

Durable == IF tracker = Truncated THEN LatestData ELSE tracker

Up == Statuses \ {"down", "finished"}

(* Killed and relaunched training is training: weights of all roles on all   *)
(* ranks and the position of the data loader resume as of the tracked step,  *)
(* no step is skipped or repeated on newer weights, the tracked step never   *)
(* goes back, and a kill loses at most save_freq steps.                      *)
Training ==
  INSTANCE DurableTraining WITH
    Parts   <- AllParts,
    MaxLoss <- SaveFreq,
    up      <- status \in Up,
    as_of   <- AsOf,
    durable <- Durable

ImplementsDurableTraining == Training!TrainingSpec

-----------------------------------------------------------------------------
(* Liveness.                                                                 *)

(* If a killed launch is relaunched and one launch is finally left alone,    *)
(* the training reaches its last step.  Only a kill between truncating and   *)
(* writing the tracker leaves a file behind that makes every later launch    *)
(* fail (int("") raises in find_latest_ckpt_path).                           *)
TrainingCompletes ==
  <>(status = "finished" \/ (status = "down" /\ tracker = Truncated))

-----------------------------------------------------------------------------
(* The inductive invariant behind the safety properties.                     *)

Committing == {"saving", "data", "tracker", "flush"}

(* A launch gets at most one step further than the last one was to get.      *)
BoundInv ==
  /\ status \in Up => launches > 0 /\ global_steps \in 1 .. TotalSteps + launches - 1
  /\ status = "finished" => launches > 0 /\ global_steps <= TotalSteps + launches
  /\ tracker <= TotalSteps + launches - 1

(* A launch is ahead of the tracker until it writes it.                      *)
TrackerInv ==
  /\ tracker = Truncated => status \in {"flush", "down"}
  /\ status = "flush" => tracker = Truncated
  /\ status \in {"training", "saving", "data", "tracker"} => tracker < global_steps
  /\ status = "validating" => tracker <= global_steps

(* In the save that is under way, the rank has remembered the new directory. *)
Appended(role, r) ==
  /\ status \in Committing
  /\ role \notin to_save
  /\ saving # role \/ at[r] = "returned"

(* The directories a manager remembers are in the order of their steps, and  *)
(* none is newer than the tracked one but the one of the save under way.     *)
(* Rotation, which removes the first ones, does not reach the tracked one.   *)
PathsInv ==
  \A role \in Roles, r \in Ranks :
    LET paths == previous_saved_paths[role][r]
    IN  /\ \A k \in DOMAIN paths : k < Len(paths) => paths[k] < paths[k + 1]
        /\ \A k \in DOMAIN paths :
             \/ paths[k] <= IF status = "flush" THEN global_steps ELSE tracker
             \/ paths[k] = global_steps /\ Appended(role, r)

(* The files of the role are written, in the save that is under way.         *)
Done(role) == status \in Committing /\ role \notin to_save /\ saving # role

(* What has been written in a save, by which ranks, between which barriers.  *)
SaveInv ==
  /\ saving # "none" => status = "saving" /\ saving \notin to_save
  /\ status \in Committing \ {"saving"} => to_save = {}
  /\ saving # "none" => \A r \in Ranks :
       /\ at[r] # "idle"
       /\ at[r] # "entered" => global_steps \in folders
       /\ at[r] \in {"written", "returned"} =>
            /\ \A q \in Ranks : at[q] # "entered"
            /\ r \in Writers(saving) =>
                 shards[saving][global_steps][r] = [run |-> launches, step |-> global_steps]
  /\ \A role \in Roles :
       Done(role) => global_steps \in folders /\ WrittenAt(role, global_steps, launches)
  /\ status \in {"tracker", "flush"} => data[global_steps] = global_steps

(* Weights and loader are of the last step that was trained.                 *)
PartsInv ==
  /\ status = "training" =>
       /\ position = global_steps - 1
       /\ \A role \in Roles, r \in Ranks : weights[role][r].step = position
  /\ status \in Up \ {"training"} =>
       /\ position = global_steps
       /\ \A role \in Roles, r \in Ranks :
            weights[role][r] = [run |-> launches, step |-> global_steps]

(* A launch that is over holds nothing. *)
DownInv ==
  status = "down" =>
    /\ position = 0
    /\ \A role \in Roles, r \in Ranks : weights[role][r].step = 0

(* No step behind the tracked one and before the step s was to be saved. *)
NoneToSaveBefore(s) ==
  tracker # Truncated => \A q \in Steps : tracker < q /\ q < s => ~Saves(q)

(* Every save that was due is tracked, and a data.pt that the tracker does   *)
(* not know of is of the first step that was to be saved behind it.          *)
DueInv ==
  /\ status \in Up => NoneToSaveBefore(global_steps)
  /\ status \in Committing => Saves(global_steps)
  /\ status = "validating" => tracker = global_steps \/ ~Saves(global_steps)
  /\ \A s \in Steps : data[s] # NoFile =>
       /\ NoneToSaveBefore(s)
       /\ status = "flush" => s <= global_steps

RestartInv ==
  TypeOK /\ BoundInv /\ TrackedIsWhole /\ TrackerInv /\ PathsInv /\ SaveInv /\ PartsInv

(* With what is held and what is due: the inductive invariant behind the     *)
(* refinement of DurableTraining.                                            *)
DurableInv == RestartInv /\ DownInv /\ DueInv

-----------------------------------------------------------------------------
(* What ranks that rotate on their own keep.                                 *)

InSave(role, r, places) == saving = role /\ at[r] \in places

Returned(role, r) == InSave(role, r, {"returned"})

NobodyRotated(role) == saving # role \/ \A r \in Ranks : at[r] = "entered"

(* What the rank keeps of what it remembers, now or when it comes to rotate. *)
KeptBy(role, r) ==
  IF InSave(role, r, {"entered"}) THEN Kept(previous_saved_paths[role][r])
  ELSE previous_saved_paths[role][r]

(* Ranks keep the same, but for the new directory; all they keep is whole,   *)
(* in the order of the steps, and within the limit.                          *)
KeepersAgree(role) ==
  \A q, r \in Ranks :
    /\ (Returned(role, q) <=> Returned(role, r)) => KeptBy(role, q) = KeptBy(role, r)
    /\ Returned(role, q) /\ ~Returned(role, r) =>
         KeptBy(role, q) = Append(KeptBy(role, r), global_steps)

KeptWhole(role, r) ==
  /\ \A step \in Range(KeptBy(role, r)) : WrittenAt(role, step, launches)
  /\ Returned(role, r) => global_steps \in Range(previous_saved_paths[role][r])

KeptInOrder(role, r) ==
  LET paths == previous_saved_paths[role][r]
  IN  /\ \A j, k \in DOMAIN paths : j < k => paths[j] < paths[k]
      /\ MaxCkptToKeep > 0 =>
           Len(paths) <= IF InSave(role, r, {"at_barrier", "written"})
                         THEN MaxCkptToKeep - 1 ELSE MaxCkptToKeep

(* What this launch has written and is still there is remembered, but for    *)
(* the new directory; a launch that is over may have left what it kept.      *)
RestRemoved(role) ==
  status # "down" =>
    \A r \in Ranks :
      OfThisLaunch(role) \subseteq
        IF NobodyRotated(role) THEN Range(previous_saved_paths[role][r])
        ELSE Range(KeptBy(role, r)) \cup {global_steps}

WithinLimit(role) ==
  /\ \A s \in Steps, r \in Ranks :
       shards[role][s][r] # NoFile => shards[role][s][r].run <= launches
  /\ MaxCkptToKeep > 0 => Cardinality(OfThisLaunch(role)) <= MaxCkptToKeep

Keepers(role) ==
  /\ KeepersAgree(role)
  /\ \A r \in Ranks : KeptWhole(role, r) /\ KeptInOrder(role, r)
  /\ RestRemoved(role)
  /\ WithinLimit(role)

(* The inductive invariant behind KeptPathsIntact. *)
KeptInv == RestartInv /\ \A role \in Roles : Keepers(role)

=============================================================================
