--------------------------- MODULE DurableTraining ----------------------------
(***************************************************************************)
(* What a training that is killed and relaunched promises.                 *)
(*                                                                         *)
(* The state of a training has many parts: the weights of every role on    *)
(* every rank, and the data loader.  All of them are always as of one and  *)
(* the same step.  Some step is durable; a launch starts from it, trains   *)
(* on, and makes later steps durable before it is too far ahead of it.     *)
(***************************************************************************)
EXTENDS Integers

CONSTANTS
  Parts,    \* the parts of the state
  MaxLoss   \* a kill loses at most that many steps

VARIABLES
  up,       \* a launch is running
  as_of,    \* per part: the step it is the result of
  durable   \* the step a launch starts from

trainingVars == <<up, as_of, durable>>

AllAsOf(step) == as_of = [p \in Parts |-> step]

TrainingInit == up = FALSE /\ AllAsOf(0) /\ durable = 0

Start ==
  /\ ~up /\ up' = TRUE
  /\ as_of' = [p \in Parts |-> durable]
  /\ UNCHANGED durable

(* No step is trained while MaxLoss steps could be lost. *)
Advance ==
  /\ up
  /\ \A p \in Parts : as_of[p] - durable < MaxLoss
  /\ as_of' = [p \in Parts |-> as_of[p] + 1]
  /\ UNCHANGED <<up, durable>>

Commit ==
  /\ up
  /\ durable' > durable /\ AllAsOf(durable')
  /\ UNCHANGED <<up, as_of>>

(* A launch ends, or is killed and its state lost. *)
Stop ==
  /\ up /\ up' = FALSE
  /\ as_of' = as_of \/ as_of' = [p \in Parts |-> 0]
  /\ UNCHANGED durable

TrainingNext == Start \/ Advance \/ Commit \/ Stop

TrainingSpec == TrainingInit /\ [][TrainingNext]_trainingVars

=============================================================================
