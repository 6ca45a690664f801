------------------------- MODULE TrainerRestartProofs -------------------------
(* Proofs about checkpoints and restarts, for any number of ranks, roles,   *)
(* steps, launches and kept checkpoints, and for launches killed anywhere.  *)
EXTENDS TrainerRestartProperties, SequenceTheorems, FiniteSetTheorems, TLAPS

(* What is assumed: at least two checkpoints are kept, a write that fails    *)
(* is not passed over, and launches resume.                                  *)
Setting == /\ MaxCkptToKeep # 1
           /\ AdapterMayFail = FALSE
           /\ ResumeModes \subseteq {"auto"}

USE WorldSizeAssumption, RolesAssumption, KeepAssumption, LastStepAssumption,
    TotalStepsAssumption, MaxLaunchesAssumption, BoundAssumption

-----------------------------------------------------------------------------
(* Lemmas about the operators of the model.                                *)

\* A version is a file, and one that is there.
LEMMA VersionsArePresent ==
  \A n \in Nat, s \in Nat :
    [run |-> n, step |-> s] \in Versions /\ [run |-> n, step |-> s] # NoFile
BY NoFileAssumption DEF Versions

\* Rank 0 exists, writers are ranks, and a rank reads a file of a writer.
LEMMA WritersAreRanks ==
  0 \in Ranks /\ \A role \in Roles : /\ Writers(role) \subseteq Ranks
                                   /\ \A r \in Ranks : Source(role, r) \in Writers(role)
BY DEF Ranks, Writers, Source

\* Rotation never removes the last directory.
LEMMA LastIsKept ==
  ASSUME Setting, NEW paths \in Seq(Steps)
  PROVE  /\ KeepStart(paths) \in 0 .. Len(paths)
         /\ KeepStart(paths) > 0 => KeepStart(paths) < Len(paths)
<1>1. Len(paths) \in Nat
  OBVIOUS
<1> QED BY <1>1 DEF KeepStart, Setting

\* What is kept is the rest of the directories, in their order.
LEMMA KeptIsRest ==
  ASSUME Setting, NEW paths \in Seq(Steps)
  PROVE  /\ Kept(paths) \in Seq(Steps)
         /\ \A k \in DOMAIN Kept(paths) :
              /\ k + KeepStart(paths) \in DOMAIN paths
              /\ Kept(paths)[k] = paths[k + KeepStart(paths)]
         /\ \A k \in DOMAIN Kept(paths) :
              k < Len(Kept(paths)) => k + KeepStart(paths) < Len(paths)
<1> DEFINE m == KeepStart(paths) + 1
           n == Len(paths)
<1>1. n \in Nat /\ m \in 1 .. n + 1 /\ KeepStart(paths) = m - 1
  BY LastIsKept
<1>2. \A i \in m .. n : paths[i] \in Steps
  BY <1>1
<1> HIDE DEF m, n
<1>3. /\ SubSeq(paths, m, n) \in Seq(Steps)
      /\ Len(SubSeq(paths, m, n)) = IF m <= n THEN n - m + 1 ELSE 0
      /\ \A i \in 1 .. n - m + 1 : SubSeq(paths, m, n)[i] = paths[m + i - 1]
  BY <1>1, <1>2, SubSeqProperties
<1>4. Kept(paths) = SubSeq(paths, m, n)
  BY DEF Kept, m, n
<1>5. Len(Kept(paths)) = n - m + 1 /\ DOMAIN Kept(paths) = 1 .. n - m + 1
  BY <1>1, <1>3, <1>4
<1>6. DOMAIN paths = 1 .. n /\ Len(paths) = n
  BY DEF n
<1> QED BY <1>1, <1>3, <1>4, <1>5, <1>6

-----------------------------------------------------------------------------
(* The start.                                                              *)

\* Before the first launch nothing is on disk and the invariant holds.
LEMMA InvInit == Init => RestartInv
<1> SUFFICES ASSUME Init PROVE RestartInv
  OBVIOUS
<1> USE DEF Init, ManagersInit
<1>1. TypeOK
  <2>1. <<>> \in Seq(Steps) /\ Base \in Versions
    BY DEF Base, Versions
  <2>2. weights \in [Roles -> [Ranks -> Versions]]
    BY <2>1 DEF FreshWeights
  <2>3. previous_saved_paths \in [Roles -> [Ranks -> Seq(Steps)]]
    BY <2>1 DEF NoPaths
  <2>4. at \in [Ranks -> Places]
    BY DEF Places
  <2> QED BY <2>2, <2>3, <2>4 DEF TypeOK, ManagersTypeOK, Statuses, NoTracker
<1>2. BoundInv /\ TrackerInv /\ PartsInv
  BY DEF BoundInv, TrackerInv, PartsInv, Up, NoTracker, Truncated
<1>3. TrackedIsWhole
  BY DEF TrackedIsWhole, NoTracker, Steps
<1>4. PathsInv
  BY DEF PathsInv, NoPaths
<1>5. SaveInv
  BY DEF SaveInv, Done, Committing
<1> QED BY <1>1, <1>2, <1>3, <1>4, <1>5 DEF RestartInv

-----------------------------------------------------------------------------
(* Launches and kills.                                                     *)

\* New managers remember no directories and write none.
LEMMA RestartedManagers ==
  ASSUME ManagersTypeOK, NEW loaded \in [Roles -> [Ranks -> Versions]], Restarted(loaded)
  PROVE  ManagersTypeOK' /\ PathsInv'
<1>1. previous_saved_paths' \in [Roles -> [Ranks -> Seq(Steps)]]
  <2>1. <<>> \in Seq(Steps)
    OBVIOUS
  <2> QED BY <2>1 DEF Restarted, NoPaths
<1>2. at' \in [Ranks -> Places]
  BY DEF Restarted, Places
<1>3. ManagersTypeOK'
  BY <1>1, <1>2 DEF ManagersTypeOK, Restarted, disk
<1>4. PathsInv'
  BY DEF Restarted, NoPaths, PathsInv
<1> QED BY <1>3, <1>4

\* What is on disk as the tracked checkpoint is that of its step.
LEMMA TrackedIsLoadable ==
  ASSUME TypeOK, TrackedIsWhole, tracker \in Steps
  PROVE  /\ LoadedPosition(tracker) = tracker
         /\ LoadedWeights(tracker) \in [Roles -> [Ranks -> Versions]]
         /\ \A role \in Roles, r \in Ranks :
              LoadedWeights(tracker)[role][r].step = tracker
<1>1. PICK n \in 1 .. MaxLaunches : \A role \in Roles : WrittenAt(role, tracker, n)
  BY DEF TrackedIsWhole, Whole
<1>2. tracker \in Nat /\ n \in Nat
  BY DEF Steps
<1>3. data[tracker] = tracker /\ tracker # NoFile
  BY <1>2, NoFileAssumption DEF TrackedIsWhole, Whole
<1>4. LoadedPosition(tracker) = tracker
  BY <1>3 DEF LoadedPosition
<1>5. \A role \in Roles, r \in Ranks :
        /\ LoadedWeights(tracker)[role][r] = [run |-> n, step |-> tracker]
        /\ LoadedWeights(tracker)[role][r] \in Versions
  BY <1>1, <1>2, VersionsArePresent, WritersAreRanks DEF LoadedWeights, WrittenAt
<1>6. LoadedWeights(tracker) \in [Roles -> [Ranks -> Versions]]
  BY <1>5 DEF LoadedWeights
<1> QED BY <1>4, <1>5, <1>6

\* The weights training starts from are well typed, and of step 0.
LEMMA FreshTypes ==
  /\ FreshWeights \in [Roles -> [Ranks -> Versions]]
  /\ \A role \in Roles, r \in Ranks : FreshWeights[role][r].step = 0
BY DEF FreshWeights, Base, Versions

\* A kill leaves what is tracked alone.
LEMMA CrashStep == ASSUME RestartInv, Crash PROVE RestartInv'
<1> USE DEF RestartInv, Crash
<1>1. ManagersTypeOK' /\ PathsInv'
  BY FreshTypes, RestartedManagers DEF TypeOK
<1>2. TypeOK'
  BY <1>1 DEF TypeOK, Statuses
<1>3. BoundInv' /\ TrackerInv' /\ PartsInv'
  BY DEF BoundInv, TrackerInv, PartsInv, Up
<1>4. TrackedIsWhole'
  BY DEF TrackedIsWhole, Whole, WrittenAt, Restarted, disk
<1>5. SaveInv'
  BY DEF SaveInv, Restarted, Done, Committing
<1> QED BY <1>1, <1>2, <1>3, <1>4, <1>5

\* A launch that resumes by itself starts from scratch only if nothing is tracked.
LEMMA ScratchMeansUntracked ==
  ASSUME Setting, RestartInv, NEW mode \in ResumeModes
  PROVE  /\ FromScratch(mode) => tracker = 0
         /\ ~FromScratch(mode) => tracker \in Steps \cup {Truncated}
<1>1. mode # "disable"
  BY DEF Setting
<1>2. tracker \in Steps \cup {NoTracker, Truncated}
  BY DEF RestartInv, TypeOK
<1>3. tracker \in Steps => tracker \in folders /\ tracker # NoTracker /\ tracker # Truncated
  BY DEF RestartInv, TrackedIsWhole, Steps, NoTracker, Truncated
<1>4. NoTracker = 0 /\ Truncated # NoTracker
  BY DEF NoTracker, Truncated
<1> QED BY <1>1, <1>2, <1>3, <1>4 DEF FromScratch

\* A launch goes on from the tracked step, or fails on a truncated tracker.
LEMMA LaunchStep == ASSUME Setting, RestartInv, Launch PROVE RestartInv'
<1> USE DEF RestartInv
<1>1. PICK mode \in ResumeModes :
        \/ FromScratch(mode) /\ StartFresh
        \/ ~FromScratch(mode) /\ Readable /\ Resume
        \/ ~FromScratch(mode) /\ ~Readable /\ LaunchFails
  BY DEF Launch
<1>2. /\ status \in {"down", "finished"} /\ launches' = launches + 1
      /\ launches \in Nat /\ launches < MaxLaunches /\ launches' \in 1 .. MaxLaunches
      /\ UNCHANGED <<to_save, data, tracker>>
  BY DEF Launch, TypeOK
<1>3. PICK loaded \in [Roles -> [Ranks -> Versions]] :
        /\ Restarted(loaded)
        /\ \/ /\ status' = "training" /\ tracker \in Nat
              /\ global_steps' = tracker + 1 /\ position' = tracker
              /\ \A role \in Roles, r \in Ranks : loaded[role][r].step = tracker
           \/ status' = "down" /\ global_steps' = 0 /\ position' = 0
  <2>1. CASE FromScratch(mode) /\ StartFresh
    BY <2>1, ScratchMeansUntracked, FreshTypes DEF StartFresh, FirstStep
  <2>2. CASE ~FromScratch(mode) /\ Readable /\ Resume
    <3>1. tracker \in Steps
      BY <2>2, ScratchMeansUntracked DEF Readable
    <3>2. tracker \in Nat
      BY <3>1 DEF Steps
    <3> QED BY <2>2, <3>1, <3>2, TrackedIsLoadable DEF Resume, FirstStep
  <2>3. CASE ~FromScratch(mode) /\ ~Readable /\ LaunchFails
    BY <2>3, FreshTypes DEF LaunchFails
  <2> QED BY <1>1, <2>1, <2>2, <2>3
<1>4. ManagersTypeOK' /\ PathsInv'
  BY <1>3, RestartedManagers DEF TypeOK
<1>5. status' \in {"training", "down"}
  BY <1>3
<1>6. BoundInv'
  <2>1. tracker' <= TotalSteps + launches' - 1
    BY <1>2 DEF BoundInv, TypeOK, Steps, NoTracker, Truncated
  <2>2. status' \in Up => launches' > 0 /\ global_steps' \in 1 .. TotalSteps + launches' - 1
    BY <1>2, <1>3 DEF BoundInv, Up
  <2> QED BY <1>5, <2>1, <2>2 DEF BoundInv
<1>7. TypeOK'
  <2>1. global_steps' \in 0 .. LastStep /\ position' \in 0 .. LastStep
    BY <1>2, <1>3 DEF BoundInv
  <2> QED BY <1>2, <1>4, <1>5, <2>1 DEF TypeOK, Statuses
<1>8. TrackerInv'
  BY <1>2, <1>3 DEF TrackerInv, Truncated
<1>9. TrackedIsWhole'
  BY <1>2, <1>3 DEF TrackedIsWhole, Whole, WrittenAt, Restarted, disk
<1>10. SaveInv'
  BY <1>3, <1>5 DEF SaveInv, Restarted, Done, Committing
<1>11. PartsInv'
  BY <1>2, <1>3 DEF PartsInv, Restarted, Up
<1> QED BY <1>4, <1>6, <1>7, <1>8, <1>9, <1>10, <1>11

-----------------------------------------------------------------------------
(* Steps of a launch.                                                      *)

\* A launch that is up has a step, and its weights are a version.
LEMMA UpTypes ==
  ASSUME RestartInv, status \in Up
  PROVE  /\ launches \in 1 .. MaxLaunches /\ global_steps \in Steps
         /\ global_steps <= TotalSteps + launches - 1
         /\ [run |-> launches, step |-> global_steps] \in Versions
         /\ tracker \in Int
<1>1. /\ launches \in 1 .. MaxLaunches /\ global_steps \in Steps
      /\ global_steps <= TotalSteps + launches - 1
  BY DEF RestartInv, TypeOK, BoundInv, Steps
<1>2. tracker \in Int
  BY DEF RestartInv, TypeOK, Steps, NoTracker, Truncated
<1>3. launches \in Nat /\ global_steps \in Nat
  BY <1>1 DEF Steps
<1> QED BY <1>1, <1>2, <1>3, VersionsArePresent

\* A step of training.
LEMMA TrainStep == ASSUME RestartInv, Train PROVE RestartInv'
<1> USE DEF RestartInv, Train
<1>1. /\ status = "training" /\ status \in Up
      /\ launches \in 1 .. MaxLaunches /\ global_steps \in Steps
      /\ global_steps <= TotalSteps + launches - 1
      /\ [run |-> launches, step |-> global_steps] \in Versions
      /\ tracker \in Int
  BY UpTypes DEF Up, Statuses
<1>2. /\ status' \in {"saving", "validating"}
      /\ to_save' \subseteq Roles
      /\ status' = "saving" => to_save' = Roles
      /\ position' = global_steps
      /\ UNCHANGED <<disk, previous_saved_paths, saving, at, launches, global_steps,
                     data, tracker>>
  <2>1. position' = global_steps
    BY <1>1 DEF PartsInv, Steps
  <2>2. CASE Saves(global_steps)
    BY <2>1, <2>2
  <2>3. CASE ~Saves(global_steps)
    BY <2>1, <2>3 DEF TypeOK
  <2> QED BY <2>2, <2>3
<1>3. TypeOK'
  <2>1. weights' \in [Roles -> [Ranks -> Versions]]
    BY <1>1
  <2>2. ManagersTypeOK'
    BY <1>2, <2>1 DEF TypeOK, ManagersTypeOK, disk
  <2>3. position' \in 0 .. LastStep
    BY <1>1, <1>2 DEF Steps
  <2> QED BY <1>2, <2>2, <2>3 DEF TypeOK, Statuses
<1>4. BoundInv' /\ TrackerInv'
  BY <1>1, <1>2 DEF BoundInv, TrackerInv, Up, Statuses
<1>5. TrackedIsWhole'
  BY <1>2 DEF TrackedIsWhole, Whole, WrittenAt, disk
<1>6. PathsInv'
  BY <1>1, <1>2 DEF PathsInv, Appended, Committing
<1>7. SaveInv'
  BY <1>1, <1>2 DEF SaveInv, Done, Committing
<1>8. PartsInv'
  BY <1>2 DEF PartsInv
<1> QED BY <1>3, <1>4, <1>5, <1>6, <1>7, <1>8

\* The trainer calls the managers of the next role.
LEMMA SaveRoleStep == ASSUME RestartInv, SaveRole PROVE RestartInv'
<1> USE DEF RestartInv, SaveRole, CallSave
<1>1. NextRole \in to_save /\ NextRole \in Roles
  BY DEF NextRole, TypeOK
<1> HIDE DEF NextRole
<1>2. /\ saving = "none" /\ saving' = NextRole /\ to_save' = to_save \ {NextRole}
      /\ at' \in [Ranks -> Places] /\ \A r \in Ranks : at'[r] = "entered"
      /\ UNCHANGED <<folders, shards, previous_saved_paths, weights, status, launches,
                     global_steps, position, data, tracker>>
  BY DEF Places, disk
<1>3. TypeOK'
  BY <1>1, <1>2 DEF TypeOK, ManagersTypeOK
<1>4. BoundInv' /\ TrackerInv' /\ PartsInv'
  BY <1>2 DEF BoundInv, TrackerInv, PartsInv
<1>5. TrackedIsWhole'
  BY <1>2 DEF TrackedIsWhole, Whole, WrittenAt
<1>6. PathsInv'
  <2>1. \A role \in Roles, r \in Ranks : Appended(role, r) => Appended(role, r)'
    BY <1>1, <1>2 DEF Appended
  <2> QED BY <1>2, <2>1 DEF PathsInv
<1>7. SaveInv'
  <2>1. \A role \in Roles : Done(role)' => Done(role)
    BY <1>1, <1>2 DEF Done
  <2> QED BY <1>1, <1>2, <2>1 DEF SaveInv, WrittenAt, Committing
<1> QED BY <1>3, <1>4, <1>5, <1>6, <1>7

\* The managers of a role are done.
LEMMA RoleSavedStep == ASSUME RestartInv, RoleSaved PROVE RestartInv'
<1> USE DEF RestartInv, RoleSaved, SaveReturns
<1>1. /\ saving # "none" /\ saving' = "none" /\ status = "saving"
      /\ \A r \in Ranks : at[r] = "returned"
      /\ status' \in {"saving", "data"}
      /\ status' = "data" => to_save = {}
      /\ at' \in [Ranks -> Places]
      /\ UNCHANGED <<folders, shards, previous_saved_paths, weights, launches,
                     global_steps, position, to_save, data, tracker>>
  BY DEF Places, disk
<1>2. TypeOK'
  BY <1>1 DEF TypeOK, ManagersTypeOK, Statuses
<1>3. BoundInv' /\ TrackerInv' /\ PartsInv'
  BY <1>1 DEF BoundInv, TrackerInv, PartsInv, Up, Statuses
<1>4. TrackedIsWhole'
  BY <1>1 DEF TrackedIsWhole, Whole, WrittenAt
<1>5. PathsInv'
  <2>1. \A role \in Roles, r \in Ranks : Appended(role, r) => Appended(role, r)'
    BY <1>1 DEF Appended, Committing
  <2>2. PathsInv
    OBVIOUS
  <2> HIDE DEF RestartInv, RoleSaved
  <2> QED BY <1>1, <2>1, <2>2 DEF PathsInv
<1>6. SaveInv'
  <2>1. global_steps \in folders /\ WrittenAt(saving, global_steps, launches)
    <3>1. saving \in Roles
      BY <1>1 DEF TypeOK, ManagersTypeOK
    <3>2. /\ \A r \in Ranks : at[r] = "returned" => global_steps \in folders
          /\ \A r \in Writers(saving) : r \in Ranks
      BY <1>1, <3>1, WritersAreRanks DEF SaveInv
    <3> QED BY <1>1, <3>1, <3>2, WritersAreRanks DEF SaveInv, WrittenAt
  <2>2. \A role \in Roles : Done(role)' => Done(role) \/ role = saving
    BY <1>1 DEF Done, Committing
  <2> QED BY <1>1, <2>1, <2>2 DEF SaveInv, WrittenAt, Committing
<1> QED BY <1>2, <1>3, <1>4, <1>5, <1>6

\* The state of the data loader is saved behind the shards.
LEMMA SaveDataStep == ASSUME RestartInv, SaveData PROVE RestartInv'
<1> USE DEF RestartInv, SaveData
<1>1. /\ status = "data" /\ status \in Up /\ status' = "tracker"
      /\ global_steps \in Steps /\ tracker \in Int
  BY UpTypes DEF Up, Statuses
<1>2. /\ position = global_steps
      /\ data' = [data EXCEPT ![global_steps] = global_steps]
      /\ UNCHANGED <<folders, shards, previous_saved_paths, weights, saving, at, launches,
                     global_steps, position, to_save, tracker>>
  BY <1>1 DEF PartsInv, disk, memory
<1>3. TypeOK'
  <2>1. data' \in [Steps -> (0 .. LastStep) \cup {NoFile}]
    BY <1>1, <1>2 DEF TypeOK, Steps
  <2> QED BY <1>1, <1>2, <2>1 DEF TypeOK, ManagersTypeOK, Statuses
<1>4. BoundInv' /\ TrackerInv' /\ PartsInv'
  BY <1>1, <1>2 DEF BoundInv, TrackerInv, PartsInv, Up, Statuses
<1>5. TrackedIsWhole'
  <2>1. tracker < global_steps
    BY <1>1 DEF TrackerInv
  <2>2. tracker \in Steps => data'[tracker] = data[tracker]
    BY <1>1, <1>2, <2>1 DEF TypeOK
  <2>3. TrackedIsWhole
    OBVIOUS
  <2> HIDE DEF RestartInv, SaveData
  <2> QED BY <1>2, <2>2, <2>3 DEF TrackedIsWhole, Whole, WrittenAt
<1>6. PathsInv'
  <2>1. \A role \in Roles, r \in Ranks : Appended(role, r) => Appended(role, r)'
    BY <1>1, <1>2 DEF Appended, Committing
  <2>2. PathsInv
    OBVIOUS
  <2> HIDE DEF RestartInv, SaveData
  <2> QED BY <1>1, <1>2, <2>1, <2>2 DEF PathsInv
<1>7. SaveInv'
  <2>1. data'[global_steps] = global_steps
    BY <1>1, <1>2 DEF TypeOK
  <2> QED BY <1>1, <1>2, <2>1 DEF SaveInv, Done, WrittenAt, Committing
<1> QED BY <1>3, <1>4, <1>5, <1>6, <1>7

\* Opening the tracker truncates it.
LEMMA OpenTrackerStep == ASSUME RestartInv, OpenTracker PROVE RestartInv'
<1> USE DEF RestartInv, OpenTracker
<1>1. /\ status = "tracker" /\ status \in Up /\ status' = "flush" /\ tracker' = Truncated
      /\ global_steps \in Steps /\ tracker \in Int
      /\ launches \in Nat
      /\ UNCHANGED <<folders, shards, previous_saved_paths, weights, saving, at, launches,
                     global_steps, position, to_save, data>>
  BY UpTypes DEF Up, Statuses, disk, memory
<1>2. TypeOK'
  BY <1>1 DEF TypeOK, ManagersTypeOK, Statuses
<1>3. BoundInv' /\ TrackerInv' /\ PartsInv'
  BY <1>1 DEF BoundInv, TrackerInv, PartsInv, Up, Statuses, Truncated
<1>4. TrackedIsWhole'
  BY <1>1 DEF TrackedIsWhole, Truncated, Steps
<1>5. PathsInv'
  <2>1. PathsInv /\ previous_saved_paths \in [Roles -> [Ranks -> Seq(Steps)]]
    BY DEF TypeOK, ManagersTypeOK
  <2>2. tracker < global_steps
    BY <1>1 DEF TrackerInv
  <2> HIDE DEF RestartInv, OpenTracker
  <2>3. ASSUME NEW role \in Roles, NEW r \in Ranks,
               NEW k \in DOMAIN previous_saved_paths[role][r]
        PROVE  previous_saved_paths[role][r][k] <= global_steps
    <3>1. previous_saved_paths[role][r][k] \in Steps
      BY <2>1
    <3> QED BY <1>1, <2>1, <2>2, <3>1 DEF PathsInv, Steps
  <2> QED BY <1>1, <2>1, <2>3 DEF PathsInv
<1>6. SaveInv'
  BY <1>1 DEF SaveInv, Done, WrittenAt, Committing
<1> QED BY <1>2, <1>3, <1>4, <1>5, <1>6

\* The tracker names the new checkpoint once all of it is there.
LEMMA WriteTrackerStep == ASSUME RestartInv, WriteTracker PROVE RestartInv'
<1> USE DEF RestartInv, WriteTracker
<1>1. /\ status = "flush" /\ status \in Up /\ status' = "validating"
      /\ tracker' = global_steps
      /\ global_steps \in Steps /\ launches \in 1 .. MaxLaunches
      /\ global_steps <= TotalSteps + launches - 1
      /\ UNCHANGED <<folders, shards, previous_saved_paths, weights, saving, at, launches,
                     global_steps, position, to_save, data>>
  BY UpTypes DEF Up, Statuses, disk, memory
<1>2. TypeOK'
  BY <1>1 DEF TypeOK, ManagersTypeOK, Statuses
<1>3. BoundInv' /\ TrackerInv' /\ PartsInv'
  <2>1. tracker' # Truncated
    BY <1>1 DEF Truncated, Steps
  <2>2. global_steps \in Int
    BY <1>1 DEF Steps
  <2> QED BY <1>1, <2>1, <2>2 DEF BoundInv, TrackerInv, PartsInv, Up, Statuses
<1>4. TrackedIsWhole'
  <2>1. \A role \in Roles : Done(role)
    BY <1>1 DEF Done, SaveInv, Committing
  <2>2. global_steps \in folders
    BY <2>1 DEF SaveInv
  <2>3. data[global_steps] = global_steps
    BY <1>1 DEF SaveInv
  <2>4. \A role \in Roles : WrittenAt(role, global_steps, launches)
    BY <2>1 DEF SaveInv
  <2> QED BY <1>1, <2>2, <2>3, <2>4 DEF TrackedIsWhole, Whole, WrittenAt
<1>5. PathsInv'
  <2>1. PathsInv /\ previous_saved_paths \in [Roles -> [Ranks -> Seq(Steps)]]
    BY DEF TypeOK, ManagersTypeOK
  <2> HIDE DEF RestartInv, WriteTracker
  <2>2. ASSUME NEW role \in Roles, NEW r \in Ranks,
               NEW k \in DOMAIN previous_saved_paths[role][r]
        PROVE  previous_saved_paths[role][r][k] <= global_steps
    <3>1. previous_saved_paths[role][r][k] \in Steps
      BY <2>1
    <3> QED BY <1>1, <2>1, <3>1 DEF PathsInv, Steps
  <2> QED BY <1>1, <2>1, <2>2 DEF PathsInv
<1>6. SaveInv'
  BY <1>1 DEF SaveInv, Done, WrittenAt, Committing
<1> QED BY <1>2, <1>3, <1>4, <1>5, <1>6

\* The end of a step.
LEMMA EndStepStep == ASSUME RestartInv, EndStep PROVE RestartInv'
<1> USE DEF RestartInv, EndStep
<1>1. /\ status = "validating" /\ status \in Up
      /\ global_steps' = global_steps + 1
      /\ \/ status' = "finished"
         \/ status' = "training" /\ global_steps < TotalSteps
      /\ global_steps \in Steps /\ launches \in 1 .. MaxLaunches
      /\ global_steps <= TotalSteps + launches - 1
      /\ tracker \in Int
      /\ UNCHANGED <<folders, shards, previous_saved_paths, weights, saving, at, launches,
                     position, to_save, data, tracker>>
  <2>1. CASE IsLastStep(global_steps)
    BY <2>1, UpTypes DEF Up, Statuses, disk, memory
  <2>2. CASE ~IsLastStep(global_steps)
    BY <2>2, UpTypes DEF Up, Statuses, disk, memory, IsLastStep, Steps
  <2> QED BY <2>1, <2>2
<1>2. global_steps \in 1 .. LastStep - 1
  BY <1>1 DEF Steps
<1>3. TypeOK'
  BY <1>1, <1>2 DEF TypeOK, ManagersTypeOK, Statuses
<1>4. BoundInv' /\ TrackerInv'
  BY <1>1, <1>2 DEF BoundInv, TrackerInv, Up, Statuses
<1>5. PartsInv'
  BY <1>1, <1>2 DEF PartsInv, Up, Statuses
<1>6. TrackedIsWhole'
  BY <1>1 DEF TrackedIsWhole, Whole, WrittenAt
<1>7. PathsInv'
  <2>1. PathsInv
    OBVIOUS
  <2> HIDE DEF RestartInv, EndStep
  <2> QED BY <1>1, <2>1 DEF PathsInv, Appended, Committing
<1>8. SaveInv'
  BY <1>1 DEF SaveInv, Done, Committing
<1> QED BY <1>3, <1>4, <1>5, <1>6, <1>7, <1>8

-----------------------------------------------------------------------------
(* Steps of a rank in a save.                                              *)

\* The tracked directory is not among those that are removed: those come
\* before another one, and all but the new one are at most the tracked one.
LEMMA TrackedIsNotRemoved ==
  ASSUME Setting, RestartInv, status = "saving",
         NEW role \in Roles, NEW r \in Ranks, ~Appended(role, r)
  PROVE  tracker \notin Removed(previous_saved_paths[role][r])
<1> DEFINE paths == previous_saved_paths[role][r]
<1>1. paths \in Seq(Steps)
  BY DEF RestartInv, TypeOK, ManagersTypeOK
<1>2. /\ \A k \in DOMAIN paths : k < Len(paths) => paths[k] < paths[k + 1]
      /\ \A k \in DOMAIN paths : paths[k] <= tracker
  BY DEF RestartInv, PathsInv
<1>3. tracker \in Int
  BY UpTypes DEF Up, Statuses
<1> HIDE DEF paths
<1>4. KeepStart(paths) \in Nat /\ Len(paths) \in Nat /\ DOMAIN paths = 1 .. Len(paths)
      /\ (KeepStart(paths) > 0 => KeepStart(paths) < Len(paths))
  BY <1>1, LastIsKept
<1>5. ASSUME NEW k \in 1 .. KeepStart(paths) PROVE paths[k] # tracker
  <2>1. k \in DOMAIN paths /\ k + 1 \in DOMAIN paths /\ k < Len(paths)
    BY <1>4, <1>5
  <2>2. paths[k] \in Int /\ paths[k + 1] \in Int
    BY <1>1, <2>1 DEF Steps
  <2> QED BY <1>2, <1>3, <2>1, <2>2
<1>6. tracker \notin Removed(paths)
  BY <1>5 DEF Removed
<1> QED BY <1>6 DEF paths

\* A tracked checkpoint whose files are not touched stays whole.
LEMMA TrackedUntouched ==
  ASSUME TrackedIsWhole, UNCHANGED <<data, tracker>>, folders \subseteq folders',
         \A role \in Roles : tracker \in Steps => shards'[role][tracker] = shards[role][tracker]
  PROVE  TrackedIsWhole'
<1> SUFFICES ASSUME tracker \in Steps
             PROVE  tracker \in folders' /\ Whole(tracker)'
  BY DEF TrackedIsWhole
<1>1. PICK n \in 1 .. MaxLaunches : \A role \in Roles : WrittenAt(role, tracker, n)
  BY DEF TrackedIsWhole, Whole
<1>2. \A role \in Roles : WrittenAt(role, tracker, n)'
  BY <1>1 DEF WrittenAt
<1> QED BY <1>2 DEF TrackedIsWhole, Whole

\* Rotation disturbs neither the tracked checkpoint nor the one being written.
LEMMA RotateStep ==
  ASSUME Setting, RestartInv, status = "saving", NEW r \in Ranks,
         RotateAndMkdir(r, global_steps), UNCHANGED trainerVars
  PROVE  RestartInv'
<1> DEFINE paths == previous_saved_paths[saving][r]
<1>1. /\ saving \in Roles /\ at[r] = "entered" /\ at \in [Ranks -> Places]
      /\ global_steps \in Steps /\ tracker \in Int
      /\ previous_saved_paths \in [Roles -> [Ranks -> Seq(Steps)]]
      /\ shards \in [Roles -> [Steps -> [Ranks -> Versions \cup {NoFile}]]]
      /\ paths \in Seq(Steps)
  <2>1. global_steps \in Steps /\ tracker \in Int
    BY UpTypes DEF Up, Statuses
  <2>2. TypeOK /\ saving # "none" /\ at[r] = "entered"
    BY DEF RotateAndMkdir, RestartInv
  <2> QED BY <2>1, <2>2 DEF TypeOK, ManagersTypeOK
<1>2. /\ folders' = folders \cup {global_steps}
      /\ at' = [at EXCEPT ![r] = "at_barrier"]
      /\ previous_saved_paths' = [previous_saved_paths EXCEPT ![saving][r] = Kept(paths)]
      /\ shards' = [shards EXCEPT ![saving] =
                      [s \in Steps |-> IF s \in Removed(paths)
                                       THEN [w \in Ranks |-> NoFile] ELSE @[s]]]
      /\ UNCHANGED <<weights, saving, status, launches, global_steps, position, to_save,
                     data, tracker>>
  BY DEF RotateAndMkdir, trainerVars
<1>3. Kept(paths) \in Seq(Steps)
  BY <1>1, KeptIsRest
<1>4. tracker \notin Removed(paths)
  <2>1. ~Appended(saving, r)
    BY <1>1 DEF Appended
  <2> QED BY <1>1, <2>1, TrackedIsNotRemoved
<1>5. /\ previous_saved_paths'[saving][r] = Kept(paths)
      /\ \A role \in Roles, q \in Ranks : (role # saving \/ q # r) =>
           previous_saved_paths'[role][q] = previous_saved_paths[role][q]
      /\ at'[r] = "at_barrier" /\ \A q \in Ranks : q # r => at'[q] = at[q]
  BY <1>1, <1>2
<1>6. /\ \A role \in Roles : role # saving => shards'[role] = shards[role]
      /\ \A role \in Roles : tracker \in Steps => shards'[role][tracker] = shards[role][tracker]
  <2> HIDE DEF paths
  <2> QED BY <1>1, <1>2, <1>4
<1>7. TypeOK'
  <2>1. shards' \in [Roles -> [Steps -> [Ranks -> Versions \cup {NoFile}]]]
    <3> HIDE DEF paths
    <3> QED BY <1>1, <1>2
  <2>2. previous_saved_paths' \in [Roles -> [Ranks -> Seq(Steps)]]
    <3> HIDE DEF paths
    <3> QED BY <1>1, <1>2, <1>3
  <2>3. at' \in [Ranks -> Places]
    BY <1>1, <1>2 DEF Places
  <2> QED BY <1>1, <1>2, <2>1, <2>2, <2>3 DEF RestartInv, TypeOK, ManagersTypeOK
<1>8. BoundInv' /\ TrackerInv' /\ PartsInv'
  BY <1>2 DEF RestartInv, BoundInv, TrackerInv, PartsInv
<1>9. TrackedIsWhole'
  <2> HIDE DEF paths
  <2> QED BY <1>2, <1>6, TrackedUntouched DEF RestartInv
<1>10. PathsInv'
  <2>1. PathsInv
    BY DEF RestartInv
  <2>2. \A role \in Roles, q \in Ranks : Appended(role, q)' <=> Appended(role, q)
    BY <1>1, <1>2, <1>5 DEF Appended
  <2>3. ASSUME NEW role \in Roles, NEW q \in Ranks, role # saving \/ q # r
        PROVE  LET now == previous_saved_paths'[role][q]
               IN  /\ \A k \in DOMAIN now : k < Len(now) => now[k] < now[k + 1]
                   /\ \A k \in DOMAIN now :
                        \/ now[k] <= IF status' = "flush" THEN global_steps' ELSE tracker'
                        \/ now[k] = global_steps' /\ Appended(role, q)'
    BY <1>2, <1>5, <2>1, <2>2, <2>3 DEF PathsInv
  <2>4. LET now == Kept(paths)
        IN  /\ \A k \in DOMAIN now : k < Len(now) => now[k] < now[k + 1]
            /\ \A k \in DOMAIN now : now[k] <= tracker
    <3>1. /\ \A k \in DOMAIN paths : k < Len(paths) => paths[k] < paths[k + 1]
          /\ \A k \in DOMAIN paths : paths[k] <= tracker
      BY <1>1, <2>1 DEF PathsInv, Appended
    <3>2. KeepStart(paths) \in Nat
      BY <1>1, LastIsKept
    <3> HIDE DEF paths
    <3>3. \A k \in DOMAIN Kept(paths) :
            /\ k \in Nat /\ (k < Len(Kept(paths)) => k + 1 \in DOMAIN Kept(paths))
      BY <1>3
    <3>4. \A k \in DOMAIN Kept(paths) :
            /\ k + KeepStart(paths) \in DOMAIN paths
            /\ Kept(paths)[k] = paths[k + KeepStart(paths)]
            /\ k < Len(Kept(paths)) => k + KeepStart(paths) < Len(paths)
      BY <1>1, KeptIsRest
    <3>5. ASSUME NEW k \in DOMAIN Kept(paths), k < Len(Kept(paths))
          PROVE  Kept(paths)[k] < Kept(paths)[k + 1]
      <4>1. k + 1 + KeepStart(paths) = (k + KeepStart(paths)) + 1
        BY <3>2, <3>3
      <4> QED BY <3>1, <3>3, <3>4, <3>5, <4>1
    <3> QED BY <3>1, <3>4, <3>5
  <2> HIDE DEF paths
  <2>5. ASSUME NEW role \in Roles, NEW q \in Ranks, role = saving /\ q = r
        PROVE  LET now == previous_saved_paths'[role][q]
               IN  /\ \A k \in DOMAIN now : k < Len(now) => now[k] < now[k + 1]
                   /\ \A k \in DOMAIN now :
                        \/ now[k] <= IF status' = "flush" THEN global_steps' ELSE tracker'
                        \/ now[k] = global_steps' /\ Appended(role, q)'
    BY <1>2, <1>5, <2>4, <2>5
  <2> QED BY <2>3, <2>5 DEF PathsInv
<1>11. SaveInv'
  <2>1. \A q \in Ranks : at[q] \notin {"written", "returned"}
    BY <1>1 DEF RestartInv, SaveInv, RotateAndMkdir
  <2>2. \A role \in Roles : Done(role)' <=> Done(role)
    BY <1>2 DEF Done
  <2> HIDE DEF paths
  <2>3. \A role \in Roles : Done(role)' =>
          global_steps' \in folders' /\ WrittenAt(role, global_steps, launches)'
    BY <1>2, <1>6, <2>2 DEF RestartInv, SaveInv, Done, WrittenAt
  <2>4. \A q \in Ranks :
          /\ at'[q] # "idle" /\ (at'[q] # "entered" => global_steps' \in folders')
          /\ at'[q] \notin {"written", "returned"}
    BY <1>1, <1>2, <1>5, <2>1 DEF RestartInv, SaveInv
  <2> QED BY <1>1, <1>2, <2>3, <2>4 DEF RestartInv, SaveInv
<1> QED BY <1>7, <1>8, <1>9, <1>10, <1>11 DEF RestartInv

\* A writer writes its file of the step, which is ahead of the tracked one.
LEMMA WriteStep ==
  ASSUME Setting, RestartInv, status = "saving", NEW r \in Ranks,
         WriteShard(r, global_steps), UNCHANGED trainerVars
  PROVE  RestartInv'
<1> DEFINE version == [run |-> launches, step |-> global_steps]
<1>1. /\ saving \in Roles /\ at[r] = "at_barrier" /\ at \in [Ranks -> Places]
      /\ \A q \in Ranks : at[q] # "entered"
      /\ global_steps \in Steps /\ tracker \in Int /\ tracker < global_steps
      /\ version \in Versions
      /\ shards \in [Roles -> [Steps -> [Ranks -> Versions \cup {NoFile}]]]
  BY UpTypes DEF WriteShard, RestartInv, TypeOK, ManagersTypeOK, TrackerInv, Up, Statuses
<1>2. /\ at' = [at EXCEPT ![r] = "written"]
      /\ UNCHANGED <<folders, previous_saved_paths, weights, saving, status, launches,
                     global_steps, position, to_save, data, tracker>>
  BY DEF WriteShard, trainerVars
<1>3. \/ r \in Writers(saving) /\ shards' = [shards EXCEPT ![saving][global_steps][r] = version]
      \/ r \notin Writers(saving) /\ shards' = shards
  <2>1. weights[saving][r] = version
    BY <1>1 DEF RestartInv, PartsInv, Up, Statuses
  <2> QED BY <2>1 DEF WriteShard, Setting
<1> HIDE DEF version
<1>4. /\ shards' \in [Roles -> [Steps -> [Ranks -> Versions \cup {NoFile}]]]
      /\ \A role \in Roles : role # saving => shards'[role] = shards[role]
      /\ \A role \in Roles : tracker \in Steps => shards'[role][tracker] = shards[role][tracker]
      /\ r \in Writers(saving) => shards'[saving][global_steps][r] = version
      /\ \A q \in Writers(saving) : q # r =>
           shards'[saving][global_steps][q] = shards[saving][global_steps][q]
  <2>1. CASE r \in Writers(saving) /\ shards' = [shards EXCEPT ![saving][global_steps][r] = version]
    BY <1>1, <2>1
  <2>2. CASE r \notin Writers(saving) /\ shards' = shards
    BY <1>1, <2>2
  <2> QED BY <1>3, <2>1, <2>2
<1>5. /\ at' \in [Ranks -> Places] /\ at'[r] = "written"
      /\ \A q \in Ranks : q # r => at'[q] = at[q]
  BY <1>1, <1>2 DEF Places
<1>6. TypeOK'
  BY <1>2, <1>4, <1>5 DEF RestartInv, TypeOK, ManagersTypeOK
<1>7. BoundInv' /\ TrackerInv' /\ PartsInv'
  BY <1>2 DEF RestartInv, BoundInv, TrackerInv, PartsInv
<1>8. TrackedIsWhole'
  BY <1>2, <1>4, TrackedUntouched DEF RestartInv
<1>9. PathsInv'
  <2>1. PathsInv
    BY DEF RestartInv
  <2>2. \A role \in Roles, q \in Ranks : Appended(role, q) => Appended(role, q)'
    BY <1>1, <1>2, <1>5 DEF Appended
  <2> QED BY <1>2, <2>1, <2>2 DEF PathsInv
<1>10. SaveInv'
  <2>1. \A role \in Roles : Done(role)' <=> Done(role)
    BY <1>2 DEF Done
  <2>2. \A role \in Roles : Done(role)' =>
          global_steps' \in folders' /\ WrittenAt(role, global_steps, launches)'
    BY <1>2, <1>4, <2>1 DEF RestartInv, SaveInv, Done, WrittenAt
  <2>3. ASSUME NEW q \in Ranks
        PROVE  /\ at'[q] # "idle" /\ at'[q] # "entered" /\ global_steps' \in folders'
               /\ (at'[q] \in {"written", "returned"} /\ q \in Writers(saving)) =>
                     shards'[saving][global_steps][q] = version
    <3>1. CASE q = r
      BY <1>1, <1>2, <1>4, <1>5, <3>1 DEF RestartInv, SaveInv
    <3>2. CASE q # r
      BY <1>1, <1>2, <1>4, <1>5, <3>2 DEF RestartInv, SaveInv, version
    <3> QED BY <3>1, <3>2
  <2> QED BY <1>1, <1>2, <2>2, <2>3 DEF RestartInv, SaveInv, version
<1> QED BY <1>6, <1>7, <1>8, <1>9, <1>10 DEF RestartInv

\* A rank remembers the new directory, behind all it remembered.
LEMMA RememberStep ==
  ASSUME Setting, RestartInv, status = "saving", NEW r \in Ranks,
         RememberPath(r, global_steps), UNCHANGED trainerVars
  PROVE  RestartInv'
<1> DEFINE paths == previous_saved_paths[saving][r]
<1>1. /\ saving \in Roles /\ at[r] = "written" /\ at \in [Ranks -> Places]
      /\ \A q \in Ranks : at[q] \in {"written", "returned"}
      /\ global_steps \in Steps /\ tracker \in Int /\ tracker < global_steps
      /\ previous_saved_paths \in [Roles -> [Ranks -> Seq(Steps)]]
      /\ paths \in Seq(Steps) /\ saving \notin to_save
  <2>1. status \in Up
    BY DEF Up, Statuses
  <2>2. /\ global_steps \in Steps /\ tracker \in Int
    BY <2>1, UpTypes
  <2>3. /\ saving # "none" /\ at[r] = "written"
        /\ \A q \in Ranks : at[q] \in {"written", "returned"}
    BY DEF RememberPath
  <2>4. saving \notin to_save /\ tracker < global_steps
    BY <2>3 DEF RestartInv, SaveInv, TrackerInv
  <2> QED BY <2>2, <2>3, <2>4 DEF RestartInv, TypeOK, ManagersTypeOK
<1>2. /\ at' = [at EXCEPT ![r] = "returned"]
      /\ previous_saved_paths' =
           [previous_saved_paths EXCEPT ![saving][r] = Append(paths, global_steps)]
      /\ UNCHANGED <<folders, shards, weights, saving, status, launches,
                     global_steps, position, to_save, data, tracker>>
  BY DEF RememberPath, trainerVars, disk
<1>3. /\ at' \in [Ranks -> Places] /\ at'[r] = "returned"
      /\ \A q \in Ranks : q # r => at'[q] = at[q]
  BY <1>1, <1>2 DEF Places
<1>4. /\ previous_saved_paths'[saving][r] = Append(paths, global_steps)
      /\ \A role \in Roles, q \in Ranks : (role # saving \/ q # r) =>
           previous_saved_paths'[role][q] = previous_saved_paths[role][q]
  BY <1>1, <1>2
<1>5. TypeOK'
  <2>1. previous_saved_paths' \in [Roles -> [Ranks -> Seq(Steps)]]
    <3>1. Append(paths, global_steps) \in Seq(Steps)
      BY <1>1
    <3> HIDE DEF paths
    <3> QED BY <1>1, <1>2, <3>1
  <2> QED BY <1>2, <1>3, <2>1 DEF RestartInv, TypeOK, ManagersTypeOK
<1>6. BoundInv' /\ TrackerInv' /\ PartsInv'
  BY <1>2 DEF RestartInv, BoundInv, TrackerInv, PartsInv
<1>7. TrackedIsWhole'
  BY <1>2, TrackedUntouched DEF RestartInv
<1>8. PathsInv'
  <2>1. PathsInv
    BY DEF RestartInv
  <2>2. \A role \in Roles, q \in Ranks : Appended(role, q) => Appended(role, q)'
    BY <1>1, <1>2, <1>3 DEF Appended
  <2>3. ASSUME NEW role \in Roles, NEW q \in Ranks, role # saving \/ q # r
        PROVE  LET now == previous_saved_paths'[role][q]
               IN  /\ \A k \in DOMAIN now : k < Len(now) => now[k] < now[k + 1]
                   /\ \A k \in DOMAIN now :
                        \/ now[k] <= IF status' = "flush" THEN global_steps' ELSE tracker'
                        \/ now[k] = global_steps' /\ Appended(role, q)'
    BY <1>2, <1>4, <2>1, <2>2, <2>3 DEF PathsInv
  <2>4. /\ \A k \in DOMAIN paths : k < Len(paths) => paths[k] < paths[k + 1]
        /\ \A k \in DOMAIN paths : paths[k] <= tracker
    BY <1>1, <2>1 DEF PathsInv, Appended
  <2>5. Appended(saving, r)'
    BY <1>1, <1>2, <1>3 DEF Appended, Committing
  <2> HIDE DEF paths
  <2>6. LET now == Append(paths, global_steps)
        IN  /\ \A k \in DOMAIN now : k < Len(now) => now[k] < now[k + 1]
            /\ \A k \in DOMAIN now : now[k] <= tracker \/ now[k] = global_steps
    <3> DEFINE now == Append(paths, global_steps)
    <3>1. /\ Len(paths) \in Nat /\ Len(now) = Len(paths) + 1
          /\ DOMAIN paths = 1 .. Len(paths) /\ DOMAIN now = 1 .. Len(paths) + 1
          /\ \A k \in 1 .. Len(paths) : now[k] = paths[k] /\ paths[k] \in Int
          /\ now[Len(paths) + 1] = global_steps /\ global_steps \in Int
      BY <1>1 DEF Steps
    <3> HIDE DEF now
    <3>2. ASSUME NEW k \in DOMAIN now, k < Len(now) PROVE now[k] < now[k + 1]
      <4>1. CASE k < Len(paths)
        BY <2>4, <3>1, <3>2, <4>1
      <4>2. CASE k = Len(paths)
        BY <1>1, <2>4, <3>1, <3>2, <4>2
      <4> QED BY <3>1, <3>2, <4>1, <4>2
    <3>3. \A k \in DOMAIN now : now[k] <= tracker \/ now[k] = global_steps
      BY <2>4, <3>1
    <3> QED BY <3>2, <3>3 DEF now
  <2>7. ASSUME NEW role \in Roles, NEW q \in Ranks, role = saving /\ q = r
        PROVE  LET now == previous_saved_paths'[role][q]
               IN  /\ \A k \in DOMAIN now : k < Len(now) => now[k] < now[k + 1]
                   /\ \A k \in DOMAIN now :
                        \/ now[k] <= IF status' = "flush" THEN global_steps' ELSE tracker'
                        \/ now[k] = global_steps' /\ Appended(role, q)'
    BY <1>2, <1>4, <2>5, <2>6, <2>7
  <2> QED BY <2>3, <2>7 DEF PathsInv
<1>9. SaveInv'
  <2>1. \A role \in Roles : Done(role)' =>
          global_steps' \in folders' /\ WrittenAt(role, global_steps, launches)'
    BY <1>2 DEF RestartInv, SaveInv, Done, WrittenAt
  <2>2. \A q \in Ranks : at'[q] \in {"written", "returned"}
    BY <1>1, <1>3
  <2> HIDE DEF paths
  <2> QED BY <1>1, <1>2, <2>1, <2>2 DEF RestartInv, SaveInv
<1> QED BY <1>5, <1>6, <1>7, <1>8, <1>9 DEF RestartInv

-----------------------------------------------------------------------------
(* The theorems.                                                           *)

\* Every step of trainer and managers keeps the invariant.
LEMMA InvNext == ASSUME Setting, RestartInv, [Next]_vars PROVE RestartInv'
<1>1. CASE Launch
  BY <1>1, LaunchStep
<1>2. CASE Crash
  BY <1>2, CrashStep
<1>3. CASE Train
  BY <1>3, TrainStep
<1>4. CASE SaveRole
  BY <1>4, SaveRoleStep
<1>5. CASE RankStep
  BY <1>5, RotateStep, WriteStep, RememberStep DEF RankStep
<1>6. CASE RoleSaved
  BY <1>6, RoleSavedStep
<1>7. CASE SaveData
  BY <1>7, SaveDataStep
<1>8. CASE OpenTracker
  BY <1>8, OpenTrackerStep
<1>9. CASE WriteTracker
  BY <1>9, WriteTrackerStep
<1>10. CASE EndStep
  BY <1>10, EndStepStep
<1>11. CASE UNCHANGED vars
  <2>1. /\ UNCHANGED <<folders, shards, previous_saved_paths, weights, saving, at>>
        /\ UNCHANGED <<status, launches, global_steps, position, to_save, data, tracker>>
    BY <1>11 DEF vars, disk, memory, trainerVars
  <2>2. TypeOK' /\ BoundInv' /\ TrackerInv' /\ PartsInv'
    BY <2>1 DEF RestartInv, TypeOK, ManagersTypeOK, BoundInv, TrackerInv, PartsInv
  <2>3. TrackedIsWhole'
    BY <2>1, TrackedUntouched DEF RestartInv
  <2>4. PathsInv'
    BY <2>1 DEF RestartInv, PathsInv, Appended
  <2>5. SaveInv'
    BY <2>1 DEF RestartInv, SaveInv, Done, WrittenAt
  <2> QED BY <2>2, <2>3, <2>4, <2>5 DEF RestartInv
<1> QED BY <1>1, <1>2, <1>3, <1>4, <1>5, <1>6, <1>7, <1>8, <1>9, <1>10, <1>11
        DEF Next, Running

(* RestartInv is an inductive invariant of training with kills and launches  *)
(* (fit, _save_checkpoint, _load_checkpoint and the managers' rotation).     *)
THEOREM RestartInductive == ASSUME Setting PROVE Spec => []RestartInv
BY InvInit, InvNext, PTL DEF Spec

(* Whatever is killed, and whenever, the checkpoint the tracker names has    *)
(* every file of every role, all written by one launch at that step.         *)
THEOREM TrackedStaysWhole == ASSUME Setting PROVE Spec => []TrackedIsWhole
<1>1. RestartInv => TrackedIsWhole
  BY DEF RestartInv
<1> QED BY <1>1, RestartInductive, PTL

(* The weights of every role and rank and the data loader are of one step,   *)
(* whatever the launch resumed from.                                         *)
THEOREM PartsStayInStep == ASSUME Setting PROVE Spec => []PartsInStep
<1>1. RestartInv => PartsInStep
  <2> SUFFICES ASSUME RestartInv, status \notin {"down", "finished"},
                      NEW role \in Roles, NEW r \in Ranks
               PROVE  weights[role][r].step = position
    BY DEF PartsInStep
  <2>1. status \in Up
    BY DEF RestartInv, TypeOK, Up
  <2>2. CASE status = "training"
    BY <2>2 DEF RestartInv, PartsInv
  <2>3. CASE status # "training"
    <3>1. position = global_steps
      BY <2>1, <2>3 DEF RestartInv, PartsInv
    <3>2. weights[role][r] = [run |-> launches, step |-> global_steps]
      BY <2>1, <2>3 DEF RestartInv, PartsInv
    <3> QED BY <3>1, <3>2
  <2> QED BY <2>2, <2>3
<1> QED BY <1>1, RestartInductive, PTL

-----------------------------------------------------------------------------
(* What is due, and the refinement of DurableTraining.                     *)

\* Before the first launch nothing is held and nothing is due.
LEMMA DueInit == Init => DownInv /\ DueInv
<1> SUFFICES ASSUME Init PROVE DownInv /\ DueInv
  OBVIOUS
<1>1. DownInv
  BY FreshTypes DEF Init, ManagersInit, DownInv
<1>2. DueInv
  BY DEF Init, DueInv, Up, Committing
<1> QED BY <1>1, <1>2

\* A launch that dies, of itself or killed, loses what it held.
LEMMA DownStep == ASSUME DownInv, [Next]_vars PROVE DownInv'
<1>1. CASE Launch
  BY <1>1, FreshTypes DEF Launch, StartFresh, Resume, LaunchFails, Restarted, DownInv
<1>2. CASE Crash
  BY <1>2, FreshTypes DEF Crash, Restarted, DownInv
<1>3. CASE Running
  BY <1>3 DEF Running, Train, SaveRole, RankStep, RoleSaved, SaveData, OpenTracker,
              WriteTracker, EndStep, trainerVars, DownInv
<1>4. CASE UNCHANGED vars
  BY <1>4 DEF vars, memory, trainerVars, DownInv
<1> QED BY <1>1, <1>2, <1>3, <1>4 DEF Next

\* A launch that goes on from a tracked step has nothing due.
LEMMA LaunchDue == ASSUME Setting, RestartInv, DueInv, Launch PROVE DueInv'
<1>1. PICK mode \in ResumeModes :
        \/ FromScratch(mode) /\ StartFresh
        \/ ~FromScratch(mode) /\ Readable /\ Resume
        \/ ~FromScratch(mode) /\ ~Readable /\ LaunchFails
  BY DEF Launch
<1>2. UNCHANGED <<data, tracker>> /\ tracker \in Int
  BY DEF Launch, RestartInv, TypeOK, Steps, NoTracker, Truncated
<1>3. \/ status' = "training" /\ global_steps' = tracker + 1
      \/ status' = "down"
  BY <1>1, ScratchMeansUntracked DEF StartFresh, Resume, LaunchFails, FirstStep
<1>4. NoneToSaveBefore(global_steps)' \/ status' = "down"
  BY <1>2, <1>3 DEF NoneToSaveBefore, Steps
<1>5. \A s \in Steps : NoneToSaveBefore(s) => NoneToSaveBefore(s)'
  BY <1>2 DEF NoneToSaveBefore
<1> QED BY <1>2, <1>3, <1>4, <1>5 DEF DueInv, Up, Committing

\* Steps of a launch that touch neither the tracker nor a data.pt, and go on
\* to save exactly what is to be saved.
LEMMA QuietDue ==
  ASSUME DueInv, UNCHANGED <<global_steps, data, tracker>>, status \in Up, status' # "flush",
         status' \in Committing => Saves(global_steps),
         status' = "validating" => tracker = global_steps \/ ~Saves(global_steps)
  PROVE  DueInv'
BY DEF DueInv, NoneToSaveBefore

\* Every step of trainer and managers keeps what is due.
LEMMA DueStep == ASSUME Setting, RestartInv, DueInv, [Next]_vars PROVE DueInv'
<1> DEFINE g == global_steps
<1>1. status \in Up => g \in Steps /\ g \in Int /\ tracker \in Int
  BY UpTypes DEF Steps
<1>2. CASE Launch
  BY <1>2, LaunchDue
<1>3. CASE Crash
  BY <1>3 DEF Crash, DueInv, NoneToSaveBefore, Up, Committing
<1>4. CASE Train
  <2>1. CASE Saves(g)
    BY <1>4, <2>1, QuietDue DEF Train, Up, Statuses, Committing
  <2>2. CASE ~Saves(g)
    BY <1>4, <2>2, QuietDue DEF Train, Up, Statuses, Committing
  <2> QED BY <2>1, <2>2
<1>5. CASE SaveRole \/ RankStep \/ RoleSaved
  <2>1. /\ status = "saving" /\ status' \in {"saving", "data"}
        /\ UNCHANGED <<global_steps, data, tracker>>
    BY <1>5 DEF SaveRole, RankStep, RoleSaved, trainerVars
  <2> QED BY <2>1, QuietDue DEF DueInv, Up, Statuses, Committing
<1>6. CASE SaveData
  <2>1. /\ status = "data" /\ status' = "tracker" /\ status \in Up
        /\ UNCHANGED <<global_steps, tracker>>
        /\ \A s \in Steps : s # g => data'[s] = data[s]
    BY <1>6 DEF SaveData, Up, Statuses, RestartInv, TypeOK
  <2>2. NoneToSaveBefore(g) /\ Saves(g)
    BY <2>1 DEF DueInv, Committing
  <2>3. \A s \in Steps : data'[s] # NoFile => NoneToSaveBefore(s)
    BY <2>1, <2>2 DEF DueInv
  <2> QED BY <2>1, <2>2, <2>3 DEF DueInv, NoneToSaveBefore
<1>7. CASE OpenTracker
  <2>1. /\ status = "tracker" /\ status \in Up /\ status' = "flush" /\ tracker' = Truncated
        /\ UNCHANGED <<global_steps, data>>
    BY <1>7 DEF OpenTracker, Up, Statuses
  <2>2. tracker < g /\ tracker # Truncated /\ Saves(g)
    BY <2>1 DEF RestartInv, TrackerInv, DueInv, Committing
  <2>3. ASSUME NEW s \in Steps, data[s] # NoFile PROVE s <= g
    <3>1. NoneToSaveBefore(s)
      BY <2>3 DEF DueInv
    <3> QED BY <1>1, <2>1, <2>2, <3>1 DEF NoneToSaveBefore, Steps
  <2> QED BY <2>1, <2>2, <2>3 DEF DueInv, NoneToSaveBefore
<1>8. CASE WriteTracker
  <2>1. /\ status = "flush" /\ status \in Up /\ status' = "validating" /\ tracker' = g
        /\ UNCHANGED <<global_steps, data>>
    BY <1>8 DEF WriteTracker, Up, Statuses
  <2>2. \A s \in Steps : data[s] # NoFile => s <= g
    BY <2>1 DEF DueInv
  <2>3. \A s \in Steps : s <= g => NoneToSaveBefore(s)'
    BY <1>1, <2>1 DEF NoneToSaveBefore, Steps
  <2>4. NoneToSaveBefore(g)'
    BY <1>1, <2>1, <2>3
  <2> QED BY <2>1, <2>2, <2>3, <2>4 DEF DueInv, Committing
<1>9. CASE EndStep
  <2>1. /\ status = "validating" /\ status \in Up /\ status' \in {"training", "finished"}
        /\ global_steps' = g + 1 /\ UNCHANGED <<data, tracker>>
    BY <1>9 DEF EndStep, Up, Statuses
  <2>2. NoneToSaveBefore(g) /\ (tracker = g \/ ~Saves(g))
    BY <2>1 DEF DueInv
  <2>3. NoneToSaveBefore(g + 1)
    BY <1>1, <2>1, <2>2 DEF NoneToSaveBefore, Steps
  <2> QED BY <2>1, <2>3 DEF DueInv, NoneToSaveBefore, Committing
<1>10. CASE UNCHANGED vars
  BY <1>10 DEF vars, trainerVars, DueInv, NoneToSaveBefore
<1> QED BY <1>2, <1>3, <1>4, <1>5, <1>6, <1>7, <1>8, <1>9, <1>10 DEF Next, Running

(* DurableInv is an inductive invariant: every save that was due is tracked, *)
(* whatever launch made it, and data.pt names no step behind it but the one  *)
(* of an interrupted save (fit, _save_checkpoint, _load_checkpoint).         *)
THEOREM DurableInductive == ASSUME Setting PROVE Spec => []DurableInv
<1>1. Init => DurableInv
  BY InvInit, DueInit DEF DurableInv
<1>2. DurableInv /\ [Next]_vars => DurableInv'
  BY InvNext, DownStep, DueStep DEF DurableInv
<1> QED BY <1>1, <1>2, PTL DEF Spec

\* One of any F numbers in a row is a multiple of F.
LEMMA OneIsAMultiple ==
  ASSUME NEW F \in Nat \ {0}, NEW a \in Nat
  PROVE  \E q \in (a + 1) .. (a + F) : q % F = 0
<1> DEFINE k == a \div F
<1>1. (a % F) \in 0 .. (F - 1) /\ a = (F * k) + (a % F) /\ k \in Nat
  OBVIOUS
<1> HIDE DEF k
<1>2. F * (k + 1) = (F * k) + F /\ F * k \in Nat
  BY <1>1
<1>3. F * (k + 1) \in (a + 1) .. (a + F)
  BY <1>1, <1>2
<1>4. (F * (k + 1)) % F = 0
  BY <1>1
<1> QED BY <1>3, <1>4

\* A launch never trains more than SaveFreq steps past the tracked one.
LEMMA LossIsBounded ==
  ASSUME RestartInv, DueInv, SaveFreq > 0, status = "training"
  PROVE  position - tracker < SaveFreq
<1>1. /\ status \in Up /\ global_steps \in Steps /\ position = global_steps - 1
      /\ tracker \in Nat /\ tracker < global_steps /\ tracker # Truncated
      /\ SaveFreq \in Nat \ {0}
  BY UpTypes, SaveFreqAssumption
  DEF RestartInv, TypeOK, TrackerInv, PartsInv, Up, Statuses, Steps, NoTracker, Truncated
<1>2. PICK q \in (tracker + 1) .. (tracker + SaveFreq) : q % SaveFreq = 0
  BY <1>1, OneIsAMultiple
<1>3. Saves(q)
  BY <1>2 DEF Saves
<1>4. ~(q < global_steps)
  BY <1>1, <1>2, <1>3 DEF DueInv, NoneToSaveBefore, Steps
<1> QED BY <1>1, <1>2, <1>4 DEF Steps

\* The parts are of one step when loader and weights are.
LEMMA PartsAsOf ==
  ASSUME NEW s, NEW w, \A role \in Roles, r \in Ranks : w[role][r].step = s
  PROVE  [p \in AllParts |-> IF p[1] = "loader" THEN s ELSE w[p[1]][p[2]].step]
           = [p \in AllParts |-> s]
<1> DEFINE part(p) == IF p[1] = "loader" THEN s ELSE w[p[1]][p[2]].step
<1>1. ASSUME NEW p \in AllParts PROVE part(p) = s
  <2>1. CASE p = <<"loader", 0>>
    BY <2>1
  <2>2. CASE p \in Roles \X Ranks
    <3>1. p[1] \in Roles /\ p[2] \in Ranks
      BY ONLY <2>2
    <3> QED BY <3>1
  <2> QED BY <2>1, <2>2 DEF AllParts
<1> HIDE DEF part
<1>2. [p \in AllParts |-> part(p)] = [p \in AllParts |-> s]
  BY <1>1, Zenon
<1> QED BY <1>2 DEF part

\* The parts of a launch that runs are as of its position.
LEMMA PartsAre ==
  ASSUME RestartInv, DownInv
  PROVE  /\ status \in Up => AsOf = [p \in AllParts |-> position]
         /\ status = "down" => AsOf = [p \in AllParts |-> 0]
         /\ status = "training" => position = global_steps - 1
         /\ status \in Up \ {"training"} => position = global_steps
<1>1. ASSUME status \in Up PROVE AsOf = [p \in AllParts |-> position]
  <2>1. \A role \in Roles, r \in Ranks : weights[role][r].step = position
    <3>1. CASE status = "training"
      BY <3>1 DEF RestartInv, PartsInv
    <3>2. CASE status # "training"
      BY <1>1, <3>2 DEF RestartInv, PartsInv
    <3> QED BY <3>1, <3>2
  <2> QED BY <2>1, PartsAsOf DEF AsOf
<1>2. status = "down" => AsOf = [p \in AllParts |-> 0]
  BY PartsAsOf DEF DownInv, AsOf
<1> QED BY <1>1, <1>2 DEF RestartInv, PartsInv

\* Behind the save of data.pt, the last one is that of the step being committed.
LEMMA LatestIsCommitted ==
  ASSUME RestartInv, DueInv, status \in {"tracker", "flush"}
  PROVE  LatestData = global_steps
<1> DEFINE g == global_steps
           Last(s) == data[s] # NoFile /\ \A q \in Steps : data[q] # NoFile => q <= s
<1>1. g \in Steps /\ data[g] = g /\ g # NoFile /\ tracker \in Int
  BY UpTypes, NoFileAssumption DEF Up, Statuses, RestartInv, SaveInv, Steps
<1>2. ASSUME NEW s \in Steps, data[s] # NoFile PROVE s <= g
  <2>1. CASE status = "flush"
    BY <1>2, <2>1 DEF DueInv
  <2>2. CASE status = "tracker"
    <3>1. tracker < g /\ tracker # Truncated /\ Saves(g) /\ NoneToSaveBefore(s)
      BY <1>2, <2>2 DEF RestartInv, TrackerInv, DueInv, Committing
    <3> QED BY <1>1, <3>1 DEF NoneToSaveBefore, Steps
  <2> QED BY <2>1, <2>2
<1>3. Last(g)
  BY <1>1, <1>2
<1>4. \A s \in Steps : Last(s) => s = g
  BY <1>1, <1>3 DEF Steps
<1>5. LatestData = CHOOSE s \in Steps : Last(s)
  BY DEF LatestData
<1> HIDE DEF Last
<1>6. (CHOOSE s \in Steps : Last(s)) \in Steps /\ Last(CHOOSE s \in Steps : Last(s))
  BY <1>1, <1>3
<1>7. (CHOOSE s \in Steps : Last(s)) = g
  BY <1>4, <1>6
<1> QED BY <1>5, <1>7

\* Steps that touch no data.pt leave the last one what it is.
LEMMA LatestUnchanged == ASSUME data' = data PROVE LatestData' = LatestData
BY DEF LatestData

\* Steps that touch neither the tracker nor, behind it, a data.pt.
LEMMA DurableUnchanged ==
  ASSUME tracker' = tracker, tracker # Truncated \/ data' = data
  PROVE  Durable' = Durable
BY LatestUnchanged DEF Durable

\* A tracked checkpoint can be read, so a launch fails only on a truncated tracker.
LEMMA OnlyTruncatedFails ==
  ASSUME Setting, RestartInv, NEW mode \in ResumeModes, ~FromScratch(mode), ~Readable
  PROVE  tracker = Truncated /\ status \in {"flush", "down"}
<1>1. ASSUME tracker \in Steps PROVE FALSE
  <2>1. PICK n \in 1 .. MaxLaunches : \A role \in Roles : WrittenAt(role, tracker, n)
    BY <1>1 DEF RestartInv, TrackedIsWhole, Whole
  <2>2. n \in Nat /\ tracker \in Nat
    BY <1>1 DEF Steps
  <2>3. \A role \in Roles : Contents[role] # "lora_only" => Writers(role) = Ranks
    BY DEF Writers
  <2>4. Loadable(tracker)
    BY <2>1, <2>2, <2>3, VersionsArePresent DEF Loadable, WrittenAt
  <2>5. tracker # Truncated
    BY <2>2 DEF Truncated
  <2> QED BY <2>4, <2>5 DEF Readable
<1>2. tracker = Truncated
  BY <1>1, ScratchMeansUntracked
<1> QED BY <1>2 DEF RestartInv, TrackerInv

\* A launch starts from the durable step, or changes nothing.
LEMMA LaunchRefines ==
  ASSUME Setting, RestartInv, DownInv, Launch
  PROVE  \/ Training!Start
         \/ UNCHANGED <<AsOf, Durable>> /\ status = "down" /\ status' = "down"
<1>1. PICK mode \in ResumeModes :
        \/ FromScratch(mode) /\ StartFresh
        \/ ~FromScratch(mode) /\ Readable /\ Resume
        \/ ~FromScratch(mode) /\ ~Readable /\ LaunchFails
  BY DEF Launch
<1>2. /\ status \in {"down", "finished"} /\ UNCHANGED <<data, tracker>>
      /\ Durable' = Durable
  BY DurableUnchanged DEF Launch
<1>3. CASE ~FromScratch(mode) /\ ~Readable /\ LaunchFails
  <2>1. status = "down" /\ status' = "down"
    BY <1>2, <1>3, OnlyTruncatedFails DEF LaunchFails
  <2>2. AsOf = [p \in AllParts |-> 0]
    BY <2>1, PartsAre
  <2>3. position' = 0 /\ \A role \in Roles, r \in Ranks : weights'[role][r].step = 0
    BY <1>3, FreshTypes DEF LaunchFails, Restarted
  <2>4. AsOf' = [p \in AllParts |-> 0]
    <3> DEFINE start == 0
    <3>1. position' = start /\ \A role \in Roles, r \in Ranks : weights'[role][r].step = start
      BY <2>3
    <3> HIDE DEF start
    <3>2. AsOf' = [p \in AllParts |-> IF p[1] = "loader" THEN start ELSE weights'[p[1]][p[2]].step]
      BY <3>1 DEF AsOf
    <3>3. AsOf' = [p \in AllParts |-> start]
      BY <3>1, <3>2, PartsAsOf
    <3> QED BY <3>3 DEF start
  <2> QED BY <1>2, <2>1, <2>2, <2>4
<1>4. CASE (FromScratch(mode) /\ StartFresh) \/ (~FromScratch(mode) /\ Readable /\ Resume)
  <2>1. /\ status' = "training" /\ tracker # Truncated /\ position' = tracker
        /\ \A role \in Roles, r \in Ranks : weights'[role][r].step = tracker
    <3>1. CASE FromScratch(mode) /\ StartFresh
      BY <3>1, ScratchMeansUntracked, FreshTypes DEF StartFresh, Restarted, Truncated
    <3>2. CASE ~FromScratch(mode) /\ Readable /\ Resume
      <4>1. tracker \in Steps
        BY <3>2, ScratchMeansUntracked DEF Readable
      <4>2. TypeOK /\ TrackedIsWhole /\ tracker # Truncated
        BY <3>2 DEF RestartInv, Readable
      <4> QED BY <3>2, <4>1, <4>2, TrackedIsLoadable DEF Resume, Restarted
    <3> QED BY <1>4, <3>1, <3>2
  <2>2. Durable = tracker
    BY <2>1 DEF Durable
  <2>3. AsOf' = [p \in AllParts |-> tracker]
    BY <2>1, PartsAsOf DEF AsOf
  <2>4. status \notin Up /\ status' \in Up
    BY <1>2, <2>1 DEF Up, Statuses
  <2> QED BY <1>2, <2>2, <2>3, <2>4 DEF Training!Start
<1> QED BY <1>1, <1>3, <1>4

\* A step of training advances all parts, and is not too far ahead.
LEMMA TrainRefines ==
  ASSUME SaveFreq > 0, RestartInv, DownInv, DueInv, Train
  PROVE  Training!Advance
<1>1. /\ status = "training" /\ status \in Up /\ status' \in Up
      /\ global_steps \in Int /\ position = global_steps - 1
      /\ tracker # Truncated /\ UNCHANGED <<data, tracker>>
  <2>1. status = "training" /\ status \in Up /\ UNCHANGED <<data, tracker>>
    BY DEF Train, Up, Statuses
  <2>2. global_steps \in Int /\ position = global_steps - 1 /\ tracker # Truncated
    BY <2>1, UpTypes DEF RestartInv, PartsInv, TrackerInv, Steps
  <2>3. status' \in {"saving", "validating"}
    BY DEF Train
  <2> QED BY <2>1, <2>2, <2>3 DEF Up, Statuses
<1>2. AsOf = [p \in AllParts |-> position] /\ Durable = tracker /\ Durable' = Durable
  BY <1>1, PartsAre, DurableUnchanged DEF Durable
<1>3. position' = position + 1 /\ \A role \in Roles, r \in Ranks : weights'[role][r].step = position + 1
  BY <1>1 DEF Train
<1>4. AsOf' = [p \in AllParts |-> position + 1]
  <2> DEFINE next == position + 1
  <2>1. position' = next /\ \A role \in Roles, r \in Ranks : weights'[role][r].step = next
    BY <1>3
  <2> HIDE DEF next
  <2>2. AsOf' = [p \in AllParts |-> IF p[1] = "loader" THEN next ELSE weights'[p[1]][p[2]].step]
    BY <2>1 DEF AsOf
  <2>3. AsOf' = [p \in AllParts |-> next]
    BY <2>1, <2>2, PartsAsOf, ZenonT(40)
  <2> QED BY <2>3 DEF next
<1>5. \A p \in AllParts : AsOf[p] - Durable < SaveFreq
  BY <1>1, <1>2, LossIsBounded
<1>6. AsOf' = [p \in AllParts |-> AsOf[p] + 1]
  BY <1>2, <1>4
<1> QED BY <1>1, <1>2, <1>5, <1>6 DEF Training!Advance

\* Opening the tracker commits the step, whose data.pt is the last one.
LEMMA OpenTrackerRefines ==
  ASSUME RestartInv, DownInv, DueInv, OpenTracker
  PROVE  Training!Commit
<1>1. /\ status = "tracker" /\ status \in Up /\ status' \in Up /\ tracker' = Truncated
      /\ UNCHANGED <<data, position, weights, global_steps>>
  BY DEF OpenTracker, Up, Statuses, memory
<1>2. tracker < global_steps /\ tracker # Truncated /\ position = global_steps
  BY <1>1 DEF RestartInv, TrackerInv, PartsInv
<1>3. Durable = tracker /\ Durable' = global_steps
  BY <1>1, <1>2, LatestIsCommitted, LatestUnchanged DEF Durable
<1>4. AsOf = [p \in AllParts |-> global_steps] /\ AsOf' = AsOf
  BY <1>1, <1>2, PartsAre DEF AsOf
<1>5. global_steps \in Int /\ tracker \in Int
  BY <1>1, UpTypes DEF Steps
<1>6. Durable' > Durable
  BY <1>2, <1>3, <1>5
<1> QED BY <1>1, <1>3, <1>4, <1>6 DEF Training!Commit, Training!AllAsOf

\* A kill loses the parts and nothing that is durable.
LEMMA CrashRefines == ASSUME Crash PROVE Training!Stop
<1>1. /\ status \in Up /\ status' \notin Up /\ UNCHANGED <<data, tracker>>
      /\ position' = 0 /\ \A role \in Roles, r \in Ranks : weights'[role][r].step = 0
  BY CrashPointsAssumption, FreshTypes DEF Crash, Restarted, Up, Statuses
<1>2. AsOf' = [p \in AllParts |-> 0] /\ Durable' = Durable
  BY <1>1, PartsAsOf, DurableUnchanged DEF AsOf
<1> QED BY <1>1, <1>2 DEF Training!Stop

\* The other steps of a launch are not seen, but the last one, which ends it.
LEMMA OthersRefine ==
  ASSUME RestartInv, DueInv, Running, ~Train, ~OpenTracker
  PROVE  \/ Training!Stop
         \/ UNCHANGED <<AsOf, Durable>> /\ status \in Up /\ status' \in Up
<1>1. status \in Up /\ UNCHANGED <<weights, position>>
  BY DEF Running, SaveRole, RankStep, RoleSaved, SaveData, WriteTracker, EndStep, memory,
         CallSave, RotateAndMkdir, WriteShard, RememberPath, trainerVars, Up, Statuses
<1>2. AsOf' = AsOf
  BY <1>1 DEF AsOf
<1>3. Durable' = Durable
  <2>1. CASE WriteTracker
    <3>1. status = "flush" /\ tracker' = global_steps /\ global_steps \in Nat
      BY <1>1, <2>1, UpTypes DEF WriteTracker, Steps
    <3>2. tracker' # Truncated
      BY <3>1 DEF Truncated
    <3>3. LatestData = global_steps
      BY <3>1, LatestIsCommitted
    <3>4. tracker = Truncated
      BY <3>1 DEF RestartInv, TrackerInv
    <3> QED BY <3>1, <3>2, <3>3, <3>4 DEF Durable
  <2>2. CASE ~WriteTracker
    <3>1. tracker' = tracker
      BY <2>2 DEF Running, SaveRole, RankStep, RoleSaved, SaveData, EndStep, trainerVars
    <3>2. tracker # Truncated \/ data' = data
      BY <2>2 DEF Running, SaveRole, RankStep, RoleSaved, SaveData, EndStep, trainerVars,
                  RestartInv, TrackerInv
    <3> QED BY <3>1, <3>2, DurableUnchanged
  <2> QED BY <2>1, <2>2
<1>4. status' \in Up \cup {"finished"}
  BY DEF Running, SaveRole, RankStep, RoleSaved, SaveData, WriteTracker, EndStep,
         trainerVars, Up, Statuses
<1>5. status' \notin Up => Training!Stop
  BY <1>1, <1>2, <1>3 DEF Training!Stop
<1> QED BY <1>1, <1>2, <1>3, <1>5

(* Killed and relaunched training implements DurableTraining, when launches  *)
(* resume, checkpoints are saved, and what is kept is more than the last one *)
(* (fit, _save_checkpoint, _load_checkpoint, find_latest_ckpt_path).         *)
THEOREM DurableTrainingImplemented ==
  ASSUME Setting, SaveFreq > 0
  PROVE  Spec => ImplementsDurableTraining
<1>1. Init => Training!TrainingInit
  <2> SUFFICES ASSUME Init PROVE Training!TrainingInit
    OBVIOUS
  <2>1. status \notin Up /\ Durable = 0
    BY DEF Init, Up, Durable, NoTracker, Truncated
  <2>2. DownInv /\ status = "down" /\ RestartInv
    BY DueInit, InvInit DEF Init
  <2>3. AsOf = [p \in AllParts |-> 0]
    BY <2>2, PartsAre
  <2> QED BY <2>1, <2>3 DEF Training!TrainingInit, Training!AllAsOf
<1>2. DurableInv /\ [Next]_vars => [Training!TrainingNext]_(Training!trainingVars)
  <2> SUFFICES ASSUME DurableInv, [Next]_vars
               PROVE  Training!TrainingNext \/ UNCHANGED Training!trainingVars
    OBVIOUS
  <2>1. RestartInv /\ DownInv /\ DueInv
    BY DEF DurableInv
  <2>2. ASSUME AsOf' = AsOf, Durable' = Durable, status' \in Up <=> status \in Up
        PROVE  UNCHANGED Training!trainingVars
    <3>1. (status \in Up)' = (status \in Up)
      BY <2>2
    <3> QED BY <2>2, <3>1 DEF Training!trainingVars
  <2>3. CASE Launch
    <3>1. status = "down" /\ status' = "down" => (status' \in Up <=> status \in Up)
      OBVIOUS
    <3> QED BY <2>1, <2>2, <2>3, <3>1, LaunchRefines DEF Training!TrainingNext
  <2>4. CASE Crash
    BY <2>4, CrashRefines DEF Training!TrainingNext
  <2>5. CASE Train
    BY <2>1, <2>5, TrainRefines DEF Training!TrainingNext
  <2>6. CASE OpenTracker
    BY <2>1, <2>6, OpenTrackerRefines DEF Training!TrainingNext
  <2>7. CASE Running /\ ~Train /\ ~OpenTracker
    BY <2>1, <2>2, <2>7, OthersRefine DEF Training!TrainingNext
  <2>8. CASE UNCHANGED vars
    <3>1. status' = status /\ tracker' = tracker /\ data' = data
          /\ position' = position /\ weights' = weights
      BY <2>8 DEF vars, memory, trainerVars
    <3>2. AsOf' = AsOf /\ Durable' = Durable
      BY <3>1, DurableUnchanged DEF AsOf
    <3> QED BY <2>2, <3>1, <3>2
  <2> QED BY <2>3, <2>4, <2>5, <2>6, <2>7, <2>8 DEF Next
<1>3. Spec => []DurableInv
  BY DurableInductive
<1> QED BY <1>1, <1>2, <1>3, PTL DEF Spec, ImplementsDurableTraining, Training!TrainingSpec

-----------------------------------------------------------------------------
(* What ranks that rotate on their own keep.                               *)

\* A list of directories has no more entries than it is long.
LEMMA FewEntries ==
  ASSUME NEW paths \in Seq(Steps)
  PROVE  IsFiniteSet(Range(paths)) /\ Cardinality(Range(paths)) <= Len(paths)
<1>1. Len(paths) \in Nat /\ DOMAIN paths = 1 .. Len(paths)
  OBVIOUS
<1>2. paths \in Surjection(1 .. Len(paths), Range(paths))
  <2>1. paths \in [1 .. Len(paths) -> Range(paths)]
    BY <1>1 DEF Range
  <2> QED BY <1>1, <2>1 DEF Surjection, Range
<1>3. Cardinality(Range(paths)) <= Len(paths)
  BY <1>1, <1>2, FS_SurjCardinalityBound DEF ExistsSurjection
<1>4. IsFiniteSet(1 .. Len(paths))
  BY <1>1, FS_Interval
<1> QED BY <1>2, <1>3, <1>4, FS_Surjection

\* The entries of a list are the removed ones and the kept ones.
LEMMA RemovedOrKept ==
  ASSUME Setting, NEW paths \in Seq(Steps)
  PROVE  /\ Range(Kept(paths)) \subseteq Range(paths)
         /\ Range(paths) \subseteq Removed(paths) \cup Range(Kept(paths))
         /\ MaxCkptToKeep > 0 => Len(Kept(paths)) <= MaxCkptToKeep - 1
<1> DEFINE n == Len(paths)
           m == KeepStart(paths)
<1>1. n \in Nat /\ m \in 0 .. n /\ DOMAIN paths = 1 .. n
  BY LastIsKept
<1>2. Kept(paths) = SubSeq(paths, m + 1, n)
  BY DEF Kept
<1>3. MaxCkptToKeep > 0 => n - m <= MaxCkptToKeep - 1
  BY <1>1 DEF KeepStart
<1>4. \A i \in m + 1 .. n : paths[i] \in Steps
  BY <1>1
<1> HIDE DEF n, m
<1>5. /\ Len(Kept(paths)) = n - m /\ DOMAIN Kept(paths) = 1 .. (n - m)
      /\ \A k \in 1 .. (n - m) : Kept(paths)[k] = paths[m + k]
  <2>1. /\ SubSeq(paths, m + 1, n) \in Seq(Steps)
        /\ Len(SubSeq(paths, m + 1, n)) = IF m + 1 <= n THEN n - (m + 1) + 1 ELSE 0
        /\ \A i \in 1 .. n - (m + 1) + 1 : SubSeq(paths, m + 1, n)[i] = paths[m + 1 + i - 1]
    BY <1>1, <1>4, SubSeqProperties
  <2> QED BY <1>1, <1>2, <2>1
<1>6. Range(Kept(paths)) \subseteq Range(paths)
  BY <1>1, <1>5 DEF Range
<1>7. ASSUME NEW k \in 1 .. n PROVE paths[k] \in Removed(paths) \cup Range(Kept(paths))
  <2>1. CASE k \in 1 .. m
    BY <2>1 DEF Removed, m
  <2>2. CASE k \in m + 1 .. n
    <3>1. k - m \in 1 .. (n - m) /\ m + (k - m) = k
      BY <1>1, <2>2
    <3> QED BY <1>5, <3>1 DEF Range
  <2> QED BY <1>1, <2>1, <2>2
<1> QED BY <1>1, <1>3, <1>5, <1>6, <1>7 DEF Range

\* In a list in the order of the steps, what is kept is not removed.
LEMMA KeptIsNotRemoved ==
  ASSUME Setting, NEW paths \in Seq(Steps),
         \A j, k \in DOMAIN paths : j < k => paths[j] < paths[k]
  PROVE  /\ Range(Kept(paths)) \cap Removed(paths) = {}
         /\ \A j, k \in DOMAIN Kept(paths) : j < k => Kept(paths)[j] < Kept(paths)[k]
<1> DEFINE m == KeepStart(paths)
<1>1. m \in 0 .. Len(paths) /\ Len(paths) \in Nat /\ DOMAIN paths = 1 .. Len(paths)
  BY LastIsKept
<1>2. \A k \in 1 .. Len(paths) : paths[k] \in Int
  BY <1>1 DEF Steps
<1>3. /\ DOMAIN Kept(paths) \subseteq Nat \ {0}
      /\ \A k \in DOMAIN Kept(paths) : k + m \in DOMAIN paths /\ Kept(paths)[k] = paths[k + m]
  BY KeptIsRest
<1>4. Removed(paths) = {paths[k] : k \in 1 .. m}
  BY DEF Removed
<1> HIDE DEF m
<1>5. ASSUME NEW k \in DOMAIN Kept(paths), NEW j \in 1 .. m PROVE Kept(paths)[k] # paths[j]
  <2>1. j < k + m /\ j \in DOMAIN paths /\ k + m \in DOMAIN paths
    BY <1>1, <1>3, <1>5
  <2> QED BY <1>1, <1>2, <1>3, <2>1
<1>6. ASSUME NEW j \in DOMAIN Kept(paths), NEW k \in DOMAIN Kept(paths), j < k
      PROVE  Kept(paths)[j] < Kept(paths)[k]
  <2>1. j + m < k + m
    BY <1>1, <1>3, <1>6
  <2> QED BY <1>3, <2>1
<1> QED BY <1>4, <1>5, <1>6 DEF Range

\* What a launch has written of a role are finitely many checkpoints.
LEMMA WrittenFinitely ==
  \A role \in Roles : OfThisLaunch(role) \subseteq Steps /\ IsFiniteSet(OfThisLaunch(role))
<1>1. IsFiniteSet(Steps)
  BY FS_Interval DEF Steps
<1> QED BY <1>1, FS_Subset DEF OfThisLaunch

\* Types of what the managers of a role hold.
LEMMA KeeperTypes ==
  ASSUME RestartInv, NEW role \in Roles
  PROVE  /\ \A r \in Ranks : previous_saved_paths[role][r] \in Seq(Steps)
         /\ \A s \in Steps, r \in Ranks : shards[role][s][r] \in Versions \cup {NoFile}
         /\ saving # "none" => saving \in Roles /\ status = "saving"
         /\ launches \in Nat
BY DEF RestartInv, TypeOK, ManagersTypeOK, SaveInv

\* A role whose managers are not called, and whose files are not touched.
LEMMA OtherRole ==
  ASSUME NEW role \in Roles, Keepers(role), saving # role, saving' # role,
         shards'[role] = shards[role],
         previous_saved_paths'[role] = previous_saved_paths[role],
         launches' = launches, status # "down"
  PROVE  Keepers(role)'
<1>1. /\ \A r \in Ranks : KeptBy(role, r)' = KeptBy(role, r) /\ ~Returned(role, r)
                         /\ ~Returned(role, r)'
      /\ OfThisLaunch(role)' = OfThisLaunch(role)
      /\ \A s \in Steps : WrittenAt(role, s, launches)' <=> WrittenAt(role, s, launches)
  BY DEF KeptBy, Returned, InSave, OfThisLaunch, WrittenAt
<1>2. KeepersAgree(role)'
  BY <1>1 DEF Keepers, KeepersAgree
<1>3. \A r \in Ranks : KeptWhole(role, r)' /\ KeptInOrder(role, r)'
  BY <1>1 DEF Keepers, KeptWhole, KeptInOrder, InSave, WrittenAt
<1>4. RestRemoved(role)'
  BY <1>1 DEF Keepers, RestRemoved, NobodyRotated
<1>5. WithinLimit(role)'
  BY <1>1 DEF Keepers, WithinLimit
<1> QED BY <1>2, <1>3, <1>4, <1>5 DEF Keepers

\* New managers of a launch remember nothing; it has written nothing if it is new.
LEMMA NewKeepers ==
  ASSUME RestartInv, NEW role \in Roles, Keepers(role), NEW loaded, Restarted(loaded),
         \/ launches' = launches /\ status' = "down"
         \/ launches' = launches + 1
  PROVE  Keepers(role)'
<1>1. /\ shards' = shards /\ saving' = "none"
      /\ \A r \in Ranks : previous_saved_paths'[role][r] = <<>>
  BY DEF Restarted, disk, NoPaths
<1>2. saving' # role
  BY <1>1
<1>3. \A r \in Ranks : Range(previous_saved_paths'[role][r]) = {}
  BY <1>1 DEF Range
<1>4. \A r \in Ranks : KeptBy(role, r)' = <<>> /\ ~Returned(role, r)'
  BY <1>1, <1>2 DEF KeptBy, Returned, InSave
<1>5. KeepersAgree(role)'
  BY <1>4 DEF KeepersAgree
<1>6. \A r \in Ranks : KeptWhole(role, r)' /\ KeptInOrder(role, r)'
  <2>1. \A r \in Ranks : KeptWhole(role, r)'
    BY <1>4 DEF KeptWhole, Range
  <2>2. \A r \in Ranks : KeptInOrder(role, r)'
    BY <1>1, <1>2 DEF KeptInOrder, InSave
  <2> QED BY <2>1, <2>2
<1>7. launches' = launches + 1 => OfThisLaunch(role)' = {}
  <2>1. \A s \in Steps, r \in Ranks :
          shards[role][s][r] # NoFile => shards[role][s][r].run <= launches
                                        /\ shards[role][s][r].run \in Int
    BY KeeperTypes DEF Keepers, WithinLimit, Versions
  <2> QED BY <1>1, <2>1, KeeperTypes DEF OfThisLaunch
<1>8. RestRemoved(role)'
  BY <1>7 DEF RestRemoved
<1>9. WithinLimit(role)'
  <2>1. \A s \in Steps, r \in Ranks :
          shards'[role][s][r] # NoFile => shards'[role][s][r].run <= launches'
    <3>1. \A s \in Steps, r \in Ranks :
            shards[role][s][r] # NoFile => shards[role][s][r].run <= launches
                                          /\ shards[role][s][r].run \in Int
      BY KeeperTypes DEF Keepers, WithinLimit, Versions
    <3> QED BY <1>1, <3>1, KeeperTypes
  <2>2. MaxCkptToKeep > 0 => Cardinality(OfThisLaunch(role)') <= MaxCkptToKeep
    <3>1. CASE launches' = launches
      BY <1>1, <3>1 DEF Keepers, WithinLimit, OfThisLaunch
    <3>2. CASE launches' = launches + 1
      BY <1>7, <3>2, FS_EmptySet
    <3> QED BY <3>1, <3>2
  <2> QED BY <2>1, <2>2 DEF WithinLimit
<1> QED BY <1>5, <1>6, <1>8, <1>9 DEF Keepers

\* When the managers are called, each is about to keep the same.
LEMMA CallKeeps ==
  ASSUME Setting, RestartInv, NEW role \in Roles, Keepers(role), status = "saving",
         CallSave(role), launches' = launches, status' = "saving"
  PROVE  Keepers(role)'
<1>1. /\ saving = "none" /\ saving # role /\ saving' = role /\ \A r \in Ranks : at'[r] = "entered"
      /\ UNCHANGED <<shards, previous_saved_paths>>
  <2>1. role # "none"
    OBVIOUS
  <2> QED BY <2>1 DEF CallSave, disk
<1>2. \A r \in Ranks : /\ KeptBy(role, r) = previous_saved_paths[role][r]
                       /\ KeptBy(role, r)' = Kept(previous_saved_paths[role][r])
                       /\ ~Returned(role, r) /\ ~Returned(role, r)'
  BY <1>1 DEF KeptBy, Returned, InSave
<1>3. KeepersAgree(role)'
  BY <1>2 DEF Keepers, KeepersAgree
<1>4. ASSUME NEW r \in Ranks PROVE KeptWhole(role, r)' /\ KeptInOrder(role, r)'
  <2>1. Range(Kept(previous_saved_paths[role][r])) \subseteq Range(previous_saved_paths[role][r])
    <3>1. previous_saved_paths[role][r] \in Seq(Steps)
      BY KeeperTypes
    <3> QED BY <3>1, RemovedOrKept
  <2>2. KeptWhole(role, r)'
    BY <1>1, <1>2, <2>1 DEF Keepers, KeptWhole, WrittenAt
  <2>3. KeptInOrder(role, r)'
    BY <1>1 DEF Keepers, KeptInOrder, InSave
  <2> QED BY <2>2, <2>3
<1>5. OfThisLaunch(role)' = OfThisLaunch(role)
  BY <1>1 DEF OfThisLaunch
<1>6. RestRemoved(role)'
  BY <1>1, <1>5 DEF Keepers, RestRemoved, NobodyRotated
<1>7. WithinLimit(role)'
  BY <1>1, <1>5 DEF Keepers, WithinLimit
<1> QED BY <1>3, <1>4, <1>6, <1>7 DEF Keepers

\* When the call has returned from every rank, all remember the new directory.
LEMMA ReturnKeeps ==
  ASSUME RestartInv, Keepers(saving), RoleSaved, NEW role \in Roles, role = saving
  PROVE  Keepers(role)'
<1>1. /\ saving = role /\ saving' # role /\ status = "saving"
      /\ \A r \in Ranks : at[r] = "returned"
      /\ UNCHANGED <<shards, previous_saved_paths, launches, global_steps>>
  BY DEF RoleSaved, SaveReturns, disk
<1>2. Keepers(role)
  BY <1>1
<1>3. \A r \in Ranks : /\ KeptBy(role, r) = previous_saved_paths[role][r]
                       /\ KeptBy(role, r)' = previous_saved_paths[role][r]
                       /\ Returned(role, r) /\ ~Returned(role, r)'
  BY <1>1 DEF KeptBy, Returned, InSave
<1>4. KeepersAgree(role)'
  BY <1>2, <1>3 DEF Keepers, KeepersAgree
<1>5. \A r \in Ranks : KeptWhole(role, r)' /\ KeptInOrder(role, r)'
  <2>1. \A r \in Ranks : KeptWhole(role, r)'
    BY <1>1, <1>2, <1>3 DEF Keepers, KeptWhole, WrittenAt
  <2>2. \A r \in Ranks : KeptInOrder(role, r)'
    BY <1>1, <1>2 DEF Keepers, KeptInOrder, InSave
  <2> QED BY <2>1, <2>2
<1>6. OfThisLaunch(role)' = OfThisLaunch(role)
  BY <1>1 DEF OfThisLaunch
<1>7. RestRemoved(role)'
  <2>1. ~NobodyRotated(role)
    BY <1>1, WritersAreRanks DEF NobodyRotated
  <2>2. \A r \in Ranks : OfThisLaunch(role) \subseteq Range(previous_saved_paths[role][r])
    BY <1>1, <1>2, <1>3, <2>1 DEF Keepers, RestRemoved, KeptWhole
  <2>3. NobodyRotated(role)'
    BY <1>1 DEF NobodyRotated
  <2> QED BY <1>1, <1>6, <2>2, <2>3 DEF RestRemoved
<1>8. WithinLimit(role)'
  BY <1>1, <1>2, <1>6 DEF Keepers, WithinLimit
<1> QED BY <1>4, <1>5, <1>7, <1>8 DEF Keepers

\* A rank that rotates removes nothing that any rank keeps.
LEMMA RotateKeeps ==
  ASSUME Setting, RestartInv, status = "saving", NEW role \in Roles, role = saving, Keepers(role),
         NEW r \in Ranks, RotateAndMkdir(r, global_steps), UNCHANGED trainerVars
  PROVE  Keepers(role)'
<1> DEFINE paths == previous_saved_paths[role][r]
<1>1. /\ saving = role /\ at[r] = "entered" /\ at \in [Ranks -> Places] /\ paths \in Seq(Steps)
      /\ previous_saved_paths \in [Roles -> [Ranks -> Seq(Steps)]]
      /\ shards \in [Roles -> [Steps -> [Ranks -> Versions \cup {NoFile}]]]
  BY DEF RotateAndMkdir, RestartInv, TypeOK, ManagersTypeOK
<1>2. /\ at' = [at EXCEPT ![r] = "at_barrier"] /\ saving' = role
      /\ previous_saved_paths' = [previous_saved_paths EXCEPT ![role][r] = Kept(paths)]
      /\ shards' = [shards EXCEPT ![role] =
                      [s \in Steps |-> IF s \in Removed(paths)
                                       THEN [w \in Ranks |-> NoFile] ELSE @[s]]]
      /\ UNCHANGED <<status, launches, global_steps>>
  BY DEF RotateAndMkdir, trainerVars
<1>3. /\ previous_saved_paths'[role][r] = Kept(paths)
      /\ \A q \in Ranks : q # r =>
           previous_saved_paths'[role][q] = previous_saved_paths[role][q]
      /\ at'[r] = "at_barrier" /\ \A q \in Ranks : q # r => at'[q] = at[q]
  <2> HIDE DEF paths
  <2> QED BY <1>1, <1>2
<1>4. \A s \in Steps : shards'[role][s] = IF s \in Removed(paths) THEN [w \in Ranks |-> NoFile]
                                         ELSE shards[role][s]
  <2> HIDE DEF paths
  <2> QED BY <1>1, <1>2
<1>5. /\ \A q \in Ranks : at[q] \notin {"written", "returned"}
      /\ \A q \in Ranks : ~Returned(role, q) /\ ~Returned(role, q)'
  BY <1>1, <1>2, <1>3 DEF RestartInv, SaveInv, Returned, InSave
<1>6. \A q \in Ranks : KeptBy(role, q)' = KeptBy(role, q)
  <2>1. KeptBy(role, r)' = Kept(paths) /\ KeptBy(role, r) = Kept(paths)
    BY <1>1, <1>2, <1>3 DEF KeptBy, InSave
  <2>2. \A q \in Ranks : q # r => KeptBy(role, q)' = KeptBy(role, q)
    <3> HIDE DEF paths
    <3> QED BY <1>1, <1>2, <1>3 DEF KeptBy, InSave
  <2> QED BY <2>1, <2>2
<1>7. \A q \in Ranks : KeptBy(role, q) = Kept(paths)
  <2>1. KeptBy(role, r) = Kept(paths)
    BY <1>1 DEF KeptBy, InSave
  <2> QED BY <1>5, <2>1 DEF Keepers, KeepersAgree
<1>8. \A j, k \in DOMAIN paths : j < k => paths[j] < paths[k]
  BY DEF Keepers, KeptInOrder
<1> HIDE DEF paths
<1>9. /\ Range(Kept(paths)) \cap Removed(paths) = {} /\ Range(Kept(paths)) \subseteq Range(paths)
      /\ Range(paths) \subseteq Removed(paths) \cup Range(Kept(paths))
      /\ Range(paths) \subseteq Steps
      /\ \A j, k \in DOMAIN Kept(paths) : j < k => Kept(paths)[j] < Kept(paths)[k]
      /\ MaxCkptToKeep > 0 => Len(Kept(paths)) <= MaxCkptToKeep - 1
  <2>1. Range(paths) \subseteq Steps
    BY <1>1 DEF Range
  <2>2. /\ Range(Kept(paths)) \cap Removed(paths) = {}
        /\ \A j, k \in DOMAIN Kept(paths) : j < k => Kept(paths)[j] < Kept(paths)[k]
    BY <1>1, <1>8, KeptIsNotRemoved
  <2> QED BY <1>1, <2>1, <2>2, RemovedOrKept
<1>10. KeepersAgree(role)'
  BY <1>5, <1>6 DEF Keepers, KeepersAgree
<1>11. ASSUME NEW q \in Ranks PROVE KeptWhole(role, q)' /\ KeptInOrder(role, q)'
  <2>1. \A step \in Range(Kept(paths)) : WrittenAt(role, step, launches)
    BY <1>7 DEF Keepers, KeptWhole
  <2>2. \A step \in Range(Kept(paths)) : WrittenAt(role, step, launches)'
    BY <1>2, <1>4, <1>9, <2>1 DEF WrittenAt
  <2>3. KeptWhole(role, q)'
    BY <1>2, <1>5, <1>6, <1>7, <2>2 DEF KeptWhole, WrittenAt
  <2>4. KeptInOrder(role, q)'
    <3>1. CASE q = r
      BY <1>1, <1>2, <1>3, <1>9, <3>1 DEF KeptInOrder, InSave
    <3>2. CASE q # r
      BY <1>1, <1>2, <1>3, <3>2 DEF Keepers, KeptInOrder, InSave
    <3> QED BY <3>1, <3>2
  <2> QED BY <2>3, <2>4
<1>12. OfThisLaunch(role)' \subseteq OfThisLaunch(role) \ Removed(paths)
  BY <1>2, <1>4 DEF OfThisLaunch
<1>13. RestRemoved(role)'
  <2>1. ~NobodyRotated(role)'
    BY <1>2, <1>3 DEF NobodyRotated
  <2>2. OfThisLaunch(role) \subseteq Range(paths) \/
        OfThisLaunch(role) \subseteq Range(Kept(paths)) \cup {global_steps}
    <3>1. paths = previous_saved_paths[role][r]
      BY DEF paths
    <3> QED BY <1>7, <3>1 DEF Keepers, RestRemoved
  <2>3. OfThisLaunch(role)' \subseteq Range(Kept(paths)) \cup {global_steps}
    BY <1>9, <1>12, <2>2
  <2> QED BY <1>2, <1>6, <1>7, <2>1, <2>3 DEF RestRemoved
<1>14. WithinLimit(role)'
  <2>1. OfThisLaunch(role)' \subseteq OfThisLaunch(role)
    BY <1>12
  <2>2. Cardinality(OfThisLaunch(role)') <= Cardinality(OfThisLaunch(role))
        /\ Cardinality(OfThisLaunch(role)) \in Nat /\ Cardinality(OfThisLaunch(role)') \in Nat
    BY <2>1, WrittenFinitely, FS_Subset, FS_CardinalityType
  <2>3. \A s \in Steps, q \in Ranks :
          shards'[role][s][q] # NoFile => shards'[role][s][q].run <= launches'
    BY <1>2, <1>4 DEF Keepers, WithinLimit
  <2>4. MaxCkptToKeep > 0 => Cardinality(OfThisLaunch(role)) <= MaxCkptToKeep
    BY DEF Keepers, WithinLimit
  <2>5. MaxCkptToKeep > 0 => Cardinality(OfThisLaunch(role)') <= MaxCkptToKeep
    BY <2>2, <2>4
  <2> QED BY <2>3, <2>5 DEF WithinLimit
<1> QED BY <1>10, <1>11, <1>13, <1>14 DEF Keepers

\* The new files are those of one more directory, and there is room for it.
LEMMA WriteKeeps ==
  ASSUME Setting, RestartInv, status = "saving", NEW role \in Roles, role = saving, Keepers(role),
         NEW r \in Ranks, WriteShard(r, global_steps), UNCHANGED trainerVars
  PROVE  Keepers(role)'
<1> DEFINE version == [run |-> launches, step |-> global_steps]
<1>1. /\ saving = role /\ at[r] = "at_barrier" /\ at \in [Ranks -> Places]
      /\ \A q \in Ranks : at[q] # "entered"
      /\ version \in Versions /\ global_steps \in Steps /\ launches \in Nat
      /\ shards \in [Roles -> [Steps -> [Ranks -> Versions \cup {NoFile}]]]
  BY UpTypes DEF WriteShard, RestartInv, TypeOK, ManagersTypeOK, Up, Statuses
<1>2. /\ at' = [at EXCEPT ![r] = "written"] /\ saving' = role
      /\ UNCHANGED <<previous_saved_paths, status, launches, global_steps>>
  BY DEF WriteShard, trainerVars
<1>3. \/ r \in Writers(role) /\ shards' = [shards EXCEPT ![role][global_steps][r] = version]
      \/ r \notin Writers(role) /\ shards' = shards
  <2>1. weights[role][r] = version
    BY DEF RestartInv, PartsInv, Up, Statuses
  <2> QED BY <2>1 DEF WriteShard, Setting
<1>4. version.run = launches /\ version.step = global_steps
  OBVIOUS
<1> HIDE DEF version
<1>5. \A s \in Steps, q \in Ranks :
        \/ shards'[role][s][q] = shards[role][s][q]
        \/ s = global_steps /\ q = r /\ shards'[role][s][q] = version
  <2>1. CASE r \in Writers(role) /\ shards' = [shards EXCEPT ![role][global_steps][r] = version]
    BY <1>1, <2>1
  <2>2. CASE r \notin Writers(role) /\ shards' = shards
    BY <2>2
  <2> QED BY <1>3, <2>1, <2>2
<1>6. /\ at'[r] = "written" /\ \A q \in Ranks : q # r => at'[q] = at[q]
      /\ \A q \in Ranks : at'[q] # "entered"
  BY <1>1, <1>2
<1>7. \A q \in Ranks : /\ KeptBy(role, q) = previous_saved_paths[role][q]
                       /\ KeptBy(role, q)' = previous_saved_paths[role][q]
                       /\ Returned(role, q)' <=> Returned(role, q)
  <2>1. \A q \in Ranks : /\ KeptBy(role, q) = previous_saved_paths[role][q]
                         /\ KeptBy(role, q)' = previous_saved_paths[role][q]
    BY <1>1, <1>2, <1>6 DEF KeptBy, InSave
  <2>2. \A q \in Ranks : Returned(role, q)' <=> Returned(role, q)
    BY <1>1, <1>2, <1>6 DEF Returned, InSave
  <2> QED BY <2>1, <2>2
<1>8. KeepersAgree(role)'
  <2>1. KeepersAgree(role)
    BY DEF Keepers
  <2> SUFFICES ASSUME NEW p \in Ranks, NEW q \in Ranks
               PROVE  /\ (Returned(role, p)' <=> Returned(role, q)') =>
                           KeptBy(role, p)' = KeptBy(role, q)'
                      /\ Returned(role, p)' /\ ~Returned(role, q)' =>
                           KeptBy(role, p)' = Append(KeptBy(role, q)', global_steps)
    BY <1>2 DEF KeepersAgree
  <2>2. /\ (Returned(role, p) <=> Returned(role, q)) => KeptBy(role, p) = KeptBy(role, q)
        /\ Returned(role, p) /\ ~Returned(role, q) =>
             KeptBy(role, p) = Append(KeptBy(role, q), global_steps)
    BY <2>1 DEF KeepersAgree
  <2>3. KeptBy(role, p)' = KeptBy(role, p) /\ KeptBy(role, q)' = KeptBy(role, q)
    BY <1>7
  <2> QED BY <1>7, <2>2, <2>3
<1>9. ASSUME NEW q \in Ranks PROVE KeptWhole(role, q)' /\ KeptInOrder(role, q)'
  <2>1. \A s \in Steps : WrittenAt(role, s, launches) => WrittenAt(role, s, launches)'
    BY <1>2, <1>5, WritersAreRanks DEF WrittenAt, version
  <2>2. Range(previous_saved_paths[role][q]) \subseteq Steps
    BY KeeperTypes DEF Range
  <2>3. KeptWhole(role, q)'
    BY <1>2, <1>7, <2>1, <2>2 DEF Keepers, KeptWhole, WrittenAt
  <2>4. KeptInOrder(role, q)'
    BY <1>1, <1>2, <1>6 DEF Keepers, KeptInOrder, InSave
  <2> QED BY <2>3, <2>4
<1>10. OfThisLaunch(role)' \subseteq OfThisLaunch(role) \cup {global_steps}
  BY <1>2, <1>5 DEF OfThisLaunch
<1>11. ~NobodyRotated(role) /\ ~NobodyRotated(role)'
  BY <1>1, <1>2, <1>6 DEF NobodyRotated
<1>12. \A q \in Ranks :
         OfThisLaunch(role) \subseteq Range(previous_saved_paths[role][q]) \cup {global_steps}
  BY <1>7, <1>11 DEF Keepers, RestRemoved
<1>13. RestRemoved(role)'
  BY <1>2, <1>7, <1>10, <1>11, <1>12 DEF RestRemoved
<1>14. WithinLimit(role)'
  <2>1. \A s \in Steps, q \in Ranks :
          shards'[role][s][q] # NoFile => shards'[role][s][q].run <= launches'
    BY <1>1, <1>2, <1>4, <1>5 DEF Keepers, WithinLimit
  <2>2. ASSUME MaxCkptToKeep > 0 PROVE Cardinality(OfThisLaunch(role)') <= MaxCkptToKeep
    <3> DEFINE paths == previous_saved_paths[role][r]
               room  == Range(paths) \cup {global_steps}
    <3>1. paths \in Seq(Steps) /\ Len(paths) \in Nat
      BY KeeperTypes
    <3>2. Len(paths) <= MaxCkptToKeep - 1
      BY <1>1, <2>2 DEF Keepers, KeptInOrder, InSave
    <3>3. OfThisLaunch(role)' \subseteq room
      BY <1>10, <1>12
    <3> HIDE DEF paths
    <3>4. /\ IsFiniteSet(Range(paths)) /\ Cardinality(Range(paths)) <= Len(paths)
          /\ Cardinality(Range(paths)) \in Nat
      BY <3>1, FewEntries, FS_CardinalityType
    <3>5. /\ IsFiniteSet(room) /\ Cardinality(room) <= Cardinality(Range(paths)) + 1
          /\ Cardinality(room) \in Nat
      BY <3>4, FS_AddElement, FS_CardinalityType, SMTT(30)
    <3> HIDE DEF room
    <3>6. Cardinality(OfThisLaunch(role)') <= Cardinality(room)
          /\ Cardinality(OfThisLaunch(role)') \in Nat
      BY <3>3, <3>5, FS_Subset, FS_CardinalityType
    <3> QED BY <3>1, <3>2, <3>4, <3>5, <3>6
  <2> QED BY <2>1, <2>2 DEF WithinLimit
<1> QED BY <1>8, <1>9, <1>13, <1>14 DEF Keepers

\* A rank remembers the new directory, which every writer has written by then.
LEMMA RememberKeeps ==
  ASSUME Setting, RestartInv, status = "saving", NEW role \in Roles, role = saving, Keepers(role),
         NEW r \in Ranks, RememberPath(r, global_steps), UNCHANGED trainerVars
  PROVE  Keepers(role)'
<1> DEFINE paths == previous_saved_paths[role][r]
           g     == global_steps
<1>1. /\ saving = role /\ at[r] = "written" /\ at \in [Ranks -> Places]
      /\ \A q \in Ranks : at[q] \in {"written", "returned"}
      /\ g \in Steps /\ paths \in Seq(Steps) /\ tracker < g /\ tracker \in Int
      /\ previous_saved_paths \in [Roles -> [Ranks -> Seq(Steps)]]
  <2>1. status \in Up
    BY DEF Up, Statuses
  <2>2. g \in Steps /\ tracker \in Int
    BY <2>1, UpTypes
  <2>3. saving = role /\ at[r] = "written" /\ \A q \in Ranks : at[q] \in {"written", "returned"}
    BY DEF RememberPath
  <2>4. tracker < g
    BY DEF RestartInv, TrackerInv
  <2>5. /\ previous_saved_paths \in [Roles -> [Ranks -> Seq(Steps)]] /\ at \in [Ranks -> Places]
        /\ paths \in Seq(Steps)
    BY DEF RestartInv, TypeOK, ManagersTypeOK
  <2> HIDE DEF paths
  <2> QED BY <2>2, <2>3, <2>4, <2>5
<1>2. /\ at' = [at EXCEPT ![r] = "returned"] /\ saving' = role
      /\ previous_saved_paths' = [previous_saved_paths EXCEPT ![role][r] = Append(paths, g)]
      /\ UNCHANGED <<shards, status, launches, global_steps>>
  BY DEF RememberPath, trainerVars, disk
<1>3. /\ previous_saved_paths'[role][r] = Append(paths, g)
      /\ \A q \in Ranks : q # r =>
           previous_saved_paths'[role][q] = previous_saved_paths[role][q]
      /\ at'[r] = "returned" /\ \A q \in Ranks : q # r => at'[q] = at[q]
      /\ \A q \in Ranks : at'[q] \in {"written", "returned"}
  <2> HIDE DEF paths
  <2> QED BY <1>1, <1>2
<1>4. \A q \in Ranks : /\ KeptBy(role, q) = previous_saved_paths[role][q]
                       /\ KeptBy(role, q)' = previous_saved_paths'[role][q]
  BY <1>1, <1>2, <1>3 DEF KeptBy, InSave
<1>5. /\ ~Returned(role, r) /\ Returned(role, r)'
      /\ \A q \in Ranks : q # r => (Returned(role, q)' <=> Returned(role, q))
  BY <1>1, <1>2, <1>3 DEF Returned, InSave
<1>6. /\ \A j, k \in DOMAIN paths : j < k => paths[j] < paths[k]
      /\ \A k \in DOMAIN paths : paths[k] < g /\ paths[k] \in Int
      /\ MaxCkptToKeep > 0 => Len(paths) <= MaxCkptToKeep - 1
  <2>1. ~Appended(role, r)
    BY <1>1 DEF Appended
  <2>2. \A k \in DOMAIN paths : paths[k] <= tracker
    BY <2>1 DEF RestartInv, PathsInv
  <2>3. \A k \in DOMAIN paths : paths[k] \in Int
    BY <1>1 DEF Steps
  <2>4. g \in Int
    BY <1>1 DEF Steps
  <2> QED BY <1>1, <2>2, <2>3, <2>4 DEF Keepers, KeptInOrder, InSave
<1> HIDE DEF paths
<1>7. /\ Len(Append(paths, g)) = Len(paths) + 1 /\ Len(paths) \in Nat
      /\ DOMAIN paths = 1 .. Len(paths) /\ DOMAIN Append(paths, g) = 1 .. Len(paths) + 1
      /\ \A k \in 1 .. Len(paths) : Append(paths, g)[k] = paths[k]
      /\ Append(paths, g)[Len(paths) + 1] = g
  BY <1>1
<1>8. Range(Append(paths, g)) = Range(paths) \cup {g}
  <2>1. \A k \in 1 .. Len(paths) + 1 : k \in 1 .. Len(paths) \/ k = Len(paths) + 1
    BY <1>7
  <2> QED BY <1>7, <2>1 DEF Range
<1>9. paths = previous_saved_paths[role][r]
  BY DEF paths
<1>10. KeepersAgree(role)'
  <2>1. ASSUME NEW q \in Ranks, q # r, ~Returned(role, q)
        PROVE  previous_saved_paths[role][q] = paths
    BY <1>4, <1>5, <1>9, <2>1 DEF Keepers, KeepersAgree
  <2>2. ASSUME NEW q \in Ranks, q # r, Returned(role, q)
        PROVE  previous_saved_paths[role][q] = Append(paths, g)
    BY <1>4, <1>5, <1>9, <2>2 DEF Keepers, KeepersAgree
  <2>3. \A q \in Ranks : KeptBy(role, q)' = IF Returned(role, q)' THEN Append(paths, g) ELSE paths
    BY <1>3, <1>4, <1>5, <2>1, <2>2
  <2> HIDE DEF g
  <2> QED BY <1>2, <2>3 DEF KeepersAgree, g
<1>11. ASSUME NEW q \in Ranks PROVE KeptWhole(role, q)' /\ KeptInOrder(role, q)'
  <2>1. WrittenAt(role, g, launches)
    BY <1>1, WritersAreRanks DEF RestartInv, SaveInv, WrittenAt
  <2>2. \A s : WrittenAt(role, s, launches)' <=> WrittenAt(role, s, launches)
    BY <1>2 DEF WrittenAt
  <2>3. CASE q = r
    <3>1. \A s \in Range(paths) : WrittenAt(role, s, launches)
      BY <1>4, <1>9 DEF Keepers, KeptWhole
    <3>2. KeptWhole(role, q)'
      <4>1. KeptBy(role, q)' = Append(paths, g) /\ previous_saved_paths'[role][q] = Append(paths, g)
        BY <1>3, <1>4, <2>3
      <4>2. \A s \in Range(Append(paths, g)) : WrittenAt(role, s, launches)'
        BY <1>8, <2>1, <2>2, <3>1
      <4>3. global_steps' \in Range(Append(paths, g))
        BY <1>2, <1>8
      <4> QED BY <1>2, <4>1, <4>2, <4>3 DEF KeptWhole, WrittenAt
    <3>3. \A j, k \in 1 .. Len(paths) + 1 :
            j < k => Append(paths, g)[j] < Append(paths, g)[k]
      <4> SUFFICES ASSUME NEW j \in 1 .. Len(paths) + 1, NEW k \in 1 .. Len(paths) + 1, j < k
                   PROVE  Append(paths, g)[j] < Append(paths, g)[k]
        OBVIOUS
      <4>1. j \in 1 .. Len(paths)
        BY <1>7
      <4>2. CASE k \in 1 .. Len(paths)
        BY <1>6, <1>7, <4>1, <4>2
      <4>3. CASE k = Len(paths) + 1
        BY <1>6, <1>7, <4>1, <4>3
      <4> QED BY <1>7, <4>2, <4>3
    <3>4. KeptInOrder(role, q)'
      <4>1. previous_saved_paths'[role][q] = Append(paths, g)
        BY <1>3, <2>3
      <4>2. ~InSave(role, q, {"at_barrier", "written"})'
        BY <1>3, <2>3 DEF InSave
      <4>3. MaxCkptToKeep > 0 => Len(Append(paths, g)) <= MaxCkptToKeep
        BY <1>6, <1>7
      <4> QED BY <1>7, <3>3, <4>1, <4>2, <4>3 DEF KeptInOrder
    <3> QED BY <3>2, <3>4
  <2>4. CASE q # r
    <3>1. KeptWhole(role, q)'
      BY <1>2, <1>3, <1>4, <1>5, <2>2, <2>4 DEF Keepers, KeptWhole, WrittenAt
    <3>2. KeptInOrder(role, q)'
      BY <1>1, <1>2, <1>3, <2>4 DEF Keepers, KeptInOrder, InSave
    <3> QED BY <3>1, <3>2
  <2> QED BY <2>3, <2>4
<1>12. OfThisLaunch(role)' = OfThisLaunch(role)
  BY <1>2 DEF OfThisLaunch
<1>13. RestRemoved(role)'
  <2>1. ~NobodyRotated(role) /\ ~NobodyRotated(role)'
    BY <1>1, <1>2, <1>3 DEF NobodyRotated
  <2>2. \A q \in Ranks :
          OfThisLaunch(role) \subseteq Range(previous_saved_paths[role][q]) \cup {g}
    BY <1>4, <2>1 DEF Keepers, RestRemoved
  <2>3. \A q \in Ranks : Range(previous_saved_paths[role][q]) \cup {g}
                           \subseteq Range(KeptBy(role, q)') \cup {g}
    <3> SUFFICES ASSUME NEW q \in Ranks
                 PROVE  Range(previous_saved_paths[role][q]) \subseteq Range(KeptBy(role, q)') \cup {g}
      OBVIOUS
    <3>1. CASE q = r
      BY <1>3, <1>4, <1>8, <1>9, <3>1
    <3>2. CASE q # r
      BY <1>3, <1>4, <3>2
    <3> QED BY <3>1, <3>2
  <2>4. \A q \in Ranks : OfThisLaunch(role)' \subseteq Range(KeptBy(role, q)') \cup {g}
    BY <1>12, <2>2, <2>3
  <2> QED BY <1>2, <2>1, <2>4 DEF RestRemoved
<1>14. WithinLimit(role)'
  BY <1>2, <1>12 DEF Keepers, WithinLimit
<1> QED BY <1>10, <1>11, <1>13, <1>14 DEF Keepers

\* Before the first launch nothing is remembered and nothing is written.
LEMMA KeptInit == Init => \A role \in Roles : Keepers(role)
<1> SUFFICES ASSUME Init, NEW role \in Roles PROVE Keepers(role)
  OBVIOUS
<1>1. /\ saving # role /\ status = "down"
      /\ \A r \in Ranks : previous_saved_paths[role][r] = <<>>
      /\ \A s \in Steps, r \in Ranks : shards[role][s][r] = NoFile
  BY DEF Init, ManagersInit, NoPaths
<1>2. \A r \in Ranks : KeptBy(role, r) = <<>> /\ ~Returned(role, r)
  BY <1>1 DEF KeptBy, Returned, InSave
<1>3. KeepersAgree(role) /\ RestRemoved(role)
  BY <1>1, <1>2 DEF KeepersAgree, RestRemoved
<1>4. \A r \in Ranks : KeptWhole(role, r)
  BY <1>2 DEF KeptWhole, Range
<1>5. \A r \in Ranks : KeptInOrder(role, r)
  BY <1>1 DEF KeptInOrder, InSave
<1>6. OfThisLaunch(role) = {}
  BY <1>1 DEF OfThisLaunch
<1>7. WithinLimit(role)
  BY <1>1, <1>6, FS_EmptySet DEF WithinLimit
<1> QED BY <1>3, <1>4, <1>5, <1>7 DEF Keepers

\* Every step of trainer and managers keeps what is to be kept.
LEMMA KeptNext ==
  ASSUME Setting, RestartInv, \A role \in Roles : Keepers(role), [Next]_vars
  PROVE  (\A role \in Roles : Keepers(role))'
<1> SUFFICES ASSUME NEW role \in Roles PROVE Keepers(role)'
  OBVIOUS
<1>1. Keepers(role) /\ role # "none" /\ (saving # "none" => status = "saving")
  BY KeeperTypes
<1>2. CASE Launch
  <2>1. \E loaded : Restarted(loaded) /\ launches' = launches + 1
    BY <1>2 DEF Launch, StartFresh, Resume, LaunchFails
  <2> QED BY <1>1, <2>1, NewKeepers
<1>3. CASE Crash
  BY <1>1, <1>3, NewKeepers DEF Crash
<1>4. CASE Train \/ SaveData \/ OpenTracker \/ WriteTracker \/ EndStep
  <2>1. /\ status # "down" /\ saving # role /\ saving' # role
        /\ UNCHANGED <<shards, previous_saved_paths, launches>>
    BY <1>1, <1>4 DEF Train, SaveData, OpenTracker, WriteTracker, EndStep, disk, memory
  <2> QED BY <1>1, <2>1, OtherRole
<1>5. CASE SaveRole
  <2>1. /\ status = "saving" /\ status' = "saving" /\ launches' = launches
        /\ CallSave(NextRole)
    BY <1>5 DEF SaveRole
  <2>2. CASE role = NextRole
    BY <1>1, <2>1, <2>2, CallKeeps
  <2>3. CASE role # NextRole
    <3>1. /\ saving # role /\ saving' # role
          /\ UNCHANGED <<shards, previous_saved_paths>>
      BY <1>1, <2>1, <2>3 DEF CallSave, disk
    <3> QED BY <1>1, <2>1, <3>1, OtherRole
  <2> QED BY <2>2, <2>3
<1>6. CASE RankStep
  <2>1. status = "saving" /\ UNCHANGED trainerVars
    BY <1>6 DEF RankStep
  <2>2. PICK r \in Ranks : \/ RotateAndMkdir(r, global_steps)
                           \/ WriteShard(r, global_steps)
                           \/ RememberPath(r, global_steps)
    BY <1>6 DEF RankStep
  <2>3. CASE role = saving
    BY <1>1, <2>1, <2>2, <2>3, RotateKeeps, WriteKeeps, RememberKeeps
  <2>4. CASE role # saving
    <3>1. saving' = saving /\ launches' = launches
      BY <2>1, <2>2 DEF RotateAndMkdir, WriteShard, RememberPath, trainerVars
    <3>2. shards'[role] = shards[role] /\ previous_saved_paths'[role] = previous_saved_paths[role]
      <4>1. /\ shards \in [Roles -> [Steps -> [Ranks -> Versions \cup {NoFile}]]]
            /\ previous_saved_paths \in [Roles -> [Ranks -> Seq(Steps)]]
        BY DEF RestartInv, TypeOK, ManagersTypeOK
      <4>2. CASE RotateAndMkdir(r, global_steps)
        BY <2>4, <4>1, <4>2 DEF RotateAndMkdir
      <4>3. CASE WriteShard(r, global_steps)
        BY <2>4, <4>1, <4>3 DEF WriteShard
      <4>4. CASE RememberPath(r, global_steps)
        BY <2>4, <4>1, <4>4 DEF RememberPath, disk
      <4> QED BY <2>2, <4>2, <4>3, <4>4
    <3> QED BY <1>1, <2>1, <2>4, <3>1, <3>2, OtherRole
  <2> QED BY <2>3, <2>4
<1>7. CASE RoleSaved
  <2>1. CASE role = saving
    BY <1>1, <1>7, <2>1, ReturnKeeps
  <2>2. CASE role # saving
    <3>1. /\ status = "saving" /\ saving' = "none"
          /\ UNCHANGED <<shards, previous_saved_paths, launches>>
      BY <1>7 DEF RoleSaved, disk
    <3> QED BY <1>1, <2>2, <3>1, OtherRole
  <2> QED BY <2>1, <2>2
<1>8. CASE UNCHANGED vars
  <2>1. UNCHANGED <<shards, previous_saved_paths, saving, at, status, launches, global_steps>>
    BY <1>8 DEF vars, disk, memory, trainerVars
  <2> QED
    BY <1>1, <2>1
    DEF Keepers, KeepersAgree, KeptWhole, KeptInOrder, RestRemoved, WithinLimit, KeptBy,
        Returned, InSave, NobodyRotated, OfThisLaunch, WrittenAt
<1> QED BY <1>2, <1>3, <1>4, <1>5, <1>6, <1>7, <1>8 DEF Next, Running

(* KeptInv is an inductive invariant: ranks that rotate on their own, each   *)
(* between the same barriers, keep the same directories, and all of them are *)
(* whole (FSDPCheckpointManager.save_checkpoint and its rotation).           *)
THEOREM KeptInductive == ASSUME Setting PROVE Spec => []KeptInv
<1>1. Init => KeptInv
  BY InvInit, KeptInit DEF KeptInv
<1>2. KeptInv /\ [Next]_vars => KeptInv'
  BY InvNext, KeptNext DEF KeptInv
<1> QED BY <1>1, <1>2, PTL DEF Spec

(* The directories the managers remember are whole, in order, and the same   *)
(* on every rank, and at no moment of a save are there more than             *)
(* max_ckpt_to_keep of this launch.                                          *)
THEOREM KeptStayIntact == ASSUME Setting PROVE Spec => []KeptPathsIntact
<1>1. KeptInv => KeptPathsIntact
  <2> SUFFICES ASSUME KeptInv PROVE KeptPathsIntact
    OBVIOUS
  <2>1. RestartInv /\ \A role \in Roles : Keepers(role)
    BY DEF KeptInv
  <2>2. ASSUME NEW role \in Roles, NEW r \in Ranks, ~(saving = role /\ at[r] = "entered"),
               NEW k \in DOMAIN previous_saved_paths[role][r]
        PROVE  WrittenAt(role, previous_saved_paths[role][r][k], launches)
    <3>1. KeptBy(role, r) = previous_saved_paths[role][r]
      BY <2>2 DEF KeptBy, InSave
    <3>2. previous_saved_paths[role][r][k] \in Range(KeptBy(role, r))
      BY <3>1 DEF Range
    <3> QED BY <2>1, <3>2 DEF Keepers, KeptWhole
  <2>3. ASSUME NEW role \in Roles, NEW r \in Ranks,
               NEW k \in DOMAIN previous_saved_paths[role][r],
               k < Len(previous_saved_paths[role][r])
        PROVE  previous_saved_paths[role][r][k] < previous_saved_paths[role][r][k + 1]
    BY <2>1, <2>3 DEF RestartInv, PathsInv
  <2>4. ASSUME NEW role \in Roles, NEW r \in Ranks, saving # role, NEW q \in Ranks
        PROVE  previous_saved_paths[role][q] = previous_saved_paths[role][r]
    <3>1. /\ KeptBy(role, r) = previous_saved_paths[role][r] /\ ~Returned(role, r)
          /\ KeptBy(role, q) = previous_saved_paths[role][q] /\ ~Returned(role, q)
      BY <2>4 DEF KeptBy, Returned, InSave
    <3> QED BY <2>1, <3>1 DEF Keepers, KeepersAgree
  <2>5. RememberedAreWhole
    BY <2>2, <2>3, <2>4 DEF RememberedAreWhole
  <2>6. MaxCkptToKeep > 0 =>
          \A role \in Roles : Cardinality(OfThisLaunch(role)) <= MaxCkptToKeep
    BY <2>1 DEF Keepers, WithinLimit
  <2> QED BY <2>5, <2>6 DEF KeptPathsIntact
<1> QED BY <1>1, KeptInductive, PTL

=============================================================================
