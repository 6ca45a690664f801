---------------------------- MODULE TrainerRestart ----------------------------
(***************************************************************************)
(* The training loop of the trainer (RayPPOTrainer.fit) seen as what it    *)
(* leaves on disk: a launch resumes from the tracked checkpoint, trains,   *)
(* saves every save_freq steps and at the end, and may be killed at any    *)
(* point of it.                                                            *)
(*                                                                         *)
(* A save is a sequence: the roles one after the other, the state of the   *)
(* data loader, the tracker, which is truncated before it is written.      *)
(* The loader is the number of batches it has handed out.                  *)
(***************************************************************************)
EXTENDS FSDPCheckpointManager

CONSTANTS
  TotalSteps,     \* total_training_steps
  SaveFreq,       \* trainer.save_freq; 0 stands for a value that disables saving
  ResumeModes,    \* trainer.resume_mode of the launches: "auto", "disable"
  MaxLaunches,    \* bound: launches
  CrashPoints     \* the statuses in which a launch may be killed

ASSUME TotalStepsAssumption  == TotalSteps \in Nat \ {0}
ASSUME SaveFreqAssumption    == SaveFreq \in Nat
ASSUME ResumeModesAssumption == ResumeModes \subseteq {"auto", "disable"}
ASSUME MaxLaunchesAssumption == MaxLaunches \in Nat \ {0}
ASSUME BoundAssumption       == LastStep = TotalSteps + MaxLaunches

VARIABLES
  status,         \* where the launch is
  launches,       \* launches so far
  global_steps,
  position,       \* batches the data loader has handed out
  to_save,        \* the roles whose checkpoint is still to be saved
  data,           \* data.pt per step: the position saved, NoFile if there is none
  tracker         \* latest_checkpointed_iteration.txt

Statuses == {"down", "training", "saving", "data", "tracker", "flush",
             "validating", "finished"}

(* Only a launch that runs is killed. *)
ASSUME CrashPointsAssumption == CrashPoints \subseteq Statuses \ {"down", "finished"}

NoTracker == 0
Truncated == -1

trainerVars == <<status, launches, global_steps, position, to_save, data, tracker>>
vars == <<disk, memory, trainerVars>>

-----------------------------------------------------------------------------
Init ==
  /\ ManagersInit
  /\ status = "down" /\ launches = 0 /\ global_steps = 0 /\ position = 0
  /\ to_save = {}
  /\ data = [s \in Steps |-> NoFile]
  /\ tracker = NoTracker

FirstStep(resumed) == resumed + 1

(* The launch starts from scratch: resuming is off, or find_latest_ckpt_path *)
(* finds no tracker or no folder.                                            *)
FromScratch(mode) ==
  mode = "disable" \/ tracker = NoTracker \/ (tracker # Truncated /\ tracker \notin folders)

StartFresh ==
  /\ Restarted(FreshWeights)
  /\ position' = 0
  /\ global_steps' = FirstStep(0)
  /\ status' = "training"

(* Mutant: the data loader starts from scratch although its state was saved. *)
LoadedPosition_Ignored(step) == 0

LoadedPosition(step) == IF data[step] = NoFile THEN 0 ELSE data[step]

Resume ==
  /\ Restarted(LoadedWeights(tracker))
  /\ position' = LoadedPosition(tracker)
  /\ global_steps' = FirstStep(tracker)
  /\ status' = "training"

Readable == tracker # Truncated /\ Loadable(tracker)

(* Reading the tracker or a shard raises; the launch is over. *)
LaunchFails ==
  /\ status' = "down"
  /\ Restarted(FreshWeights)
  /\ position' = 0 /\ global_steps' = 0

Launch ==
  /\ status \in {"down", "finished"} /\ launches < MaxLaunches
  /\ launches' = launches + 1
  /\ \E mode \in ResumeModes :
       \/ FromScratch(mode) /\ StartFresh
       \/ ~FromScratch(mode) /\ Readable /\ Resume
       \/ ~FromScratch(mode) /\ ~Readable /\ LaunchFails
  /\ UNCHANGED <<to_save, data, tracker>>

IsLastStep(step) == step >= TotalSteps

Saves(step) == SaveFreq > 0 /\ (IsLastStep(step) \/ step % SaveFreq = 0)

(* One step of training: a batch is drawn and the weights are updated.       *)
Train ==
  /\ status = "training"
  /\ weights' = [role \in Roles |-> [r \in Ranks |->
                   [run |-> launches, step |-> global_steps]]]
  /\ position' = position + 1
  /\ IF Saves(global_steps)
     THEN status' = "saving" /\ to_save' = Roles
     ELSE status' = "validating" /\ UNCHANGED to_save
  /\ UNCHANGED <<disk, previous_saved_paths, saving, at, launches, global_steps,
                 data, tracker>>

(* _save_checkpoint: the actor first, then the critic.                       *)
NextRole == IF "actor" \in to_save THEN "actor" ELSE "critic"

SaveRole ==
  /\ status = "saving" /\ to_save # {}
  /\ CallSave(NextRole)
  /\ to_save' = to_save \ {NextRole}
  /\ UNCHANGED <<status, launches, global_steps, position, data, tracker>>

RankStep ==
  /\ status = "saving"
  /\ \E r \in Ranks : \/ RotateAndMkdir(r, global_steps)
                      \/ WriteShard(r, global_steps)
                      \/ RememberPath(r, global_steps)
  /\ UNCHANGED trainerVars

RoleSaved ==
  /\ status = "saving" /\ SaveReturns
  /\ saving' = "none"
  /\ at' = [r \in Ranks |-> "idle"]
  /\ status' = IF to_save = {} THEN "data" ELSE "saving"
  /\ UNCHANGED <<disk, previous_saved_paths, weights, launches, global_steps,
                 position, to_save, data, tracker>>

SaveData ==
  /\ status = "data"
  /\ data' = [data EXCEPT ![global_steps] = position]
  /\ status' = "tracker"
  /\ UNCHANGED <<disk, memory, launches, global_steps, position, to_save, tracker>>

(* open(..., "w") truncates the tracker, the write follows.                  *)
OpenTracker ==
  /\ status = "tracker"
  /\ tracker' = Truncated
  /\ status' = "flush"
  /\ UNCHANGED <<disk, memory, launches, global_steps, position, to_save, data>>

WriteTracker ==
  /\ status = "flush"
  /\ tracker' = global_steps
  /\ status' = "validating"
  /\ UNCHANGED <<disk, memory, launches, global_steps, position, to_save, data>>

(* Validation, and the end of the step.                                      *)
EndStep ==
  /\ status = "validating"
  /\ status' = IF IsLastStep(global_steps) THEN "finished" ELSE "training"
  /\ global_steps' = global_steps + 1
  /\ UNCHANGED <<disk, memory, launches, position, to_save, data, tracker>>

(* The launch is killed and what it held in memory is lost.                  *)
Crash ==
  /\ status \in CrashPoints /\ launches < MaxLaunches
  /\ status' = "down"
  /\ Restarted(FreshWeights)
  /\ position' = 0 /\ global_steps' = 0 /\ to_save' = {}
  /\ UNCHANGED <<launches, data, tracker>>

-----------------------------------------------------------------------------
Running == Train \/ SaveRole \/ RankStep \/ RoleSaved \/ SaveData \/ OpenTracker
           \/ WriteTracker \/ EndStep

Next == Launch \/ Running \/ Crash

Spec == Init /\ [][Next]_vars

(* A launch that is not killed goes on, and somebody relaunches one that was.*)
Fairness == WF_vars(Running) /\ WF_vars(Launch /\ status = "down")

FairSpec == Spec /\ Fairness

=============================================================================
