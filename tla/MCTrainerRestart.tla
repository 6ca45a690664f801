--------------------------- MODULE MCTrainerRestart ---------------------------
(***************************************************************************)
(* Instances of the checkpointing trainer for TLC.                         *)
(***************************************************************************)
EXTENDS TrainerRestartProperties

ActorAndCritic == {"actor", "critic"}

AutoOnly == {"auto"}

(* The actor keeps its adapter, the critic all of its shards. *)
AdapterAndShards == [role \in ActorAndCritic |-> IF role = "actor" THEN "lora_only" ELSE "full"]

Anywhere == Statuses \ {"down", "finished"}

=============================================================================
