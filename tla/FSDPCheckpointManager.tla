------------------------ MODULE FSDPCheckpointManager -------------------------
(***************************************************************************)
(* The checkpoint managers of the worker ranks (FSDPCheckpointManager):    *)
(* one per role and rank, all of a role called together by the trainer.    *)
(*                                                                         *)
(* A checkpoint of a role is a directory global_step_<s>/<role> with the   *)
(* shards the ranks write into it: one per rank, or, when of this role     *)
(* only the LoRA adapter is kept, the one file rank 0 writes and every     *)
(* rank reads.  The files outlive a crash, everything else does not.       *)
(*                                                                         *)
(* A version names weights: the launch that computed them and the global   *)
(* step they are the result of.                                            *)
(***************************************************************************)
EXTENDS Integers, Sequences

CONSTANTS
  Roles,            \* the roles checkpointed: "actor", and "critic" if there is one
  WorldSize,        \* ranks of a role
  Contents,         \* checkpoint.contents per role: "lora_only" or "full"
  MaxCkptToKeep,    \* max_actor_ckpt_to_keep, max_critic_ckpt_to_keep; 0 for null
  AdapterMayFail,   \* whether the write of an adapter may fail (a full disk, say)
  LastStep,         \* bound: no global step beyond it is reached
  NoFile

Ranks    == 0 .. (WorldSize - 1)
Steps    == 1 .. LastStep
Versions == [run : Nat, step : Nat]
Base     == [run |-> 0, step |-> 0]   \* the weights training starts from

ASSUME WorldSizeAssumption == WorldSize \in Nat \ {0}
ASSUME RolesAssumption     == Roles # {} /\ Roles \subseteq {"actor", "critic"}
ASSUME ContentsAssumption  == Contents \in [Roles -> {"lora_only", "full"}]
ASSUME KeepAssumption      == MaxCkptToKeep \in Nat
ASSUME FailAssumption      == AdapterMayFail \in BOOLEAN
ASSUME LastStepAssumption  == LastStep \in Nat \ {0}
ASSUME NoFileAssumption    == NoFile \notin Versions /\ NoFile \notin Nat

(* Who writes a file of a checkpoint, and whose file a rank reads.           *)
Writers(role)   == IF Contents[role] = "lora_only" THEN {0} ELSE Ranks
Source(role, r) == IF Contents[role] = "lora_only" THEN 0 ELSE r

VARIABLES
  folders,               \* the steps whose directory global_step_<s> exists
  shards,                \* the files in the directories
  previous_saved_paths,  \* per role and rank: the steps whose directories it keeps
  weights,               \* per role and rank
  saving,                \* the role being saved, "none" between two calls
  at                     \* where a rank is in save_checkpoint

disk   == <<folders, shards>>
memory == <<previous_saved_paths, weights, saving, at>>

Places == {"idle", "entered", "at_barrier", "written", "returned"}

-----------------------------------------------------------------------------
(* Mutant: no directory is kept but the new one. *)
KeepStart_All(paths) == IF MaxCkptToKeep > 0 THEN Len(paths) ELSE 0

(* Mutant: rotation counts the directories before the new one. *)
KeepStart_TooLate(paths) ==
  IF MaxCkptToKeep > 0 /\ Len(paths) > MaxCkptToKeep
  THEN Len(paths) - MaxCkptToKeep ELSE 0

(* How many of the oldest directories make room for the new one.             *)
KeepStart(paths) ==
  IF MaxCkptToKeep > 0 /\ Len(paths) >= MaxCkptToKeep
  THEN Len(paths) - MaxCkptToKeep + 1 ELSE 0

Removed(paths) == {paths[k] : k \in 1 .. KeepStart(paths)}

(* Mutant: the newest of the removed directories is still remembered. *)
Kept_OneMore(paths) ==
  IF KeepStart(paths) = 0 THEN paths ELSE SubSeq(paths, KeepStart(paths), Len(paths))

Kept(paths) == SubSeq(paths, KeepStart(paths) + 1, Len(paths))

(* The trainer calls save_checkpoint of all ranks of a role. *)
CallSave(role) ==
  /\ saving = "none"
  /\ saving' = role
  /\ at' = [r \in Ranks |-> "entered"]
  /\ UNCHANGED <<disk, previous_saved_paths, weights>>

(* A rank removes the directories it will not keep and makes the new one.    *)
(* All ranks remove the same ones, whichever comes first.                    *)
RotateAndMkdir(r, step) ==
  /\ saving # "none" /\ at[r] = "entered"
  /\ LET paths == previous_saved_paths[saving][r]
     IN  /\ shards' = [shards EXCEPT ![saving] =
                         [s \in Steps |-> IF s \in Removed(paths)
                                          THEN [w \in Ranks |-> NoFile] ELSE @[s]]]
         /\ previous_saved_paths' = [previous_saved_paths EXCEPT ![saving][r] = Kept(paths)]
  /\ folders' = folders \cup {step}
  /\ at' = [at EXCEPT ![r] = "at_barrier"]
  /\ UNCHANGED <<weights, saving>>

(* Behind the first barrier, a writer writes its file.  An adapter that      *)
(* cannot be extracted or saved is reported and passed over.                 *)
WriteShard(r, step) ==
  /\ saving # "none" /\ at[r] = "at_barrier"
  /\ \A q \in Ranks : at[q] # "entered"
  /\ \/ /\ r \in Writers(saving)
        /\ shards' = [shards EXCEPT ![saving][step][r] = weights[saving][r]]
     \/ /\ \/ r \notin Writers(saving)
           \/ Contents[saving] = "lora_only" /\ AdapterMayFail
        /\ UNCHANGED shards
  /\ at' = [at EXCEPT ![r] = "written"]
  /\ UNCHANGED <<folders, previous_saved_paths, weights, saving>>

(* Behind the second barrier, the rank remembers the directory.              *)
RememberPath(r, step) ==
  /\ saving # "none" /\ at[r] = "written"
  /\ \A q \in Ranks : at[q] \in {"written", "returned"}
  /\ previous_saved_paths' =
       [previous_saved_paths EXCEPT ![saving][r] = Append(@, step)]
  /\ at' = [at EXCEPT ![r] = "returned"]
  /\ UNCHANGED <<disk, weights, saving>>

(* The call has returned from every rank. *)
SaveReturns == saving # "none" /\ \A r \in Ranks : at[r] = "returned"

-----------------------------------------------------------------------------
(* load_checkpoint.  A missing adapter is skipped, a missing shard raises.   *)

Loadable(step) ==
  \A role \in Roles : Contents[role] = "lora_only"
                     \/ \A r \in Ranks : shards[role][step][r] # NoFile

(* Mutant: the adapter is looked for in another directory than it is saved in.*)
LoadedWeights_Elsewhere(step) ==
  [role \in Roles |-> [r \in Ranks |-> Base]]

LoadedWeights(step) ==
  [role \in Roles |-> [r \in Ranks |->
     LET file == shards[role][step][Source(role, r)]
     IN  IF file = NoFile THEN Base ELSE file]]

FreshWeights == [role \in Roles |-> [r \in Ranks |-> Base]]

NoPaths == [role \in Roles |-> [r \in Ranks |-> <<>>]]

(* New managers, as a launch of the trainer makes them. *)
Restarted(loaded) ==
  /\ weights' = loaded
  /\ previous_saved_paths' = NoPaths
  /\ saving' = "none"
  /\ at' = [r \in Ranks |-> "idle"]
  /\ UNCHANGED disk

ManagersInit ==
  /\ folders = {}
  /\ shards = [role \in Roles |-> [s \in Steps |-> [r \in Ranks |-> NoFile]]]
  /\ previous_saved_paths = NoPaths
  /\ weights = FreshWeights
  /\ saving = "none"
  /\ at = [r \in Ranks |-> "idle"]

ManagersTypeOK ==
  /\ folders \subseteq Steps
  /\ shards \in [Roles -> [Steps -> [Ranks -> Versions \cup {NoFile}]]]
  /\ previous_saved_paths \in [Roles -> [Ranks -> Seq(Steps)]]
  /\ weights \in [Roles -> [Ranks -> Versions]]
  /\ saving \in Roles \cup {"none"}
  /\ at \in [Ranks -> Places]

=============================================================================
