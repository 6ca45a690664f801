-------------------------- MODULE SelectiveThinking --------------------------
(***************************************************************************)
(* The vocabulary of selective deep thinking: how the text of a response   *)
(* is read, the state kept for one trajectory, and the prompts built from  *)
(* it (selective_thinking.py).                                             *)
(*                                                                         *)
(* A response is abstracted to the way its readers classify it:            *)
(*   "command"     one admissible command                                  *)
(*   "foreign"     no command, or one that is not admissible               *)
(*   "deep_think"  a call of the deep_think tool                           *)
(*   "leaked"      a <think> block with a deep_think line in it, followed  *)
(*                 by one admissible command                               *)
(*   "noop"        what the rollout loop puts in the place of a call       *)
(***************************************************************************)
EXTENDS Integers

Responses   == {"command", "foreign", "deep_think", "leaked"}
Actions     == Responses \cup {"noop"}
GateOutputs == {"true", "false", "unparseable"}
Memos       == {"memo", "blank"}

(* extract_action_text drops a <think> block before it looks for the action. *)
ExtractActionText(text) == IF text = "leaked" THEN "command" ELSE text

IsDeepThinkCall(action) == action = "deep_think"

(* bool(extract_gate_decision(out)): an output that does not parse is None.  *)
GateDecision(out) == out = "true"

-----------------------------------------------------------------------------
(* TrajectoryDTState.  memo_step = 0 stands for None.                        *)

DTState(maxStep) ==
  [latest_memo    : Memos,
   memo_step      : 0 .. maxStep,
   dt_count       : Nat,
   just_called_dt : BOOLEAN,
   last_action    : {"none"} \cup Actions]

NewDTState ==
  [latest_memo |-> "blank", memo_step |-> 0, dt_count |-> 0,
   just_called_dt |-> FALSE, last_action |-> "none"]

(* Mutant: the call does not start the cooldown. *)
RecordDeepThink_NoCooldown(state, memo, step) ==
  [state EXCEPT !.dt_count = @ + 1, !.latest_memo = memo, !.memo_step = step]

(* Mutant: the memo of the first call is never replaced. *)
RecordDeepThink_KeepsFirst(state, memo, step) ==
  [state EXCEPT !.dt_count = @ + 1, !.just_called_dt = TRUE,
                !.latest_memo = memo,
                !.memo_step = IF @ = 0 THEN step ELSE @]

RecordDeepThink(state, memo, step) ==
  [latest_memo |-> memo, memo_step |-> step, dt_count |-> state.dt_count + 1,
   just_called_dt |-> TRUE, last_action |-> state.last_action]

(* Mutant: a real action does not end the cooldown. *)
ConsumeDTBlock_Kept(state) == state

ConsumeDTBlock(state) == [state EXCEPT !.just_called_dt = FALSE]

-----------------------------------------------------------------------------
(* Prompts.  A prompt is what it tells the model: the step it calls the      *)
(* current one, how many past steps it shows, the step of the memo it shows  *)
(* (0 when it shows none), and the guidance at its end.                      *)

Guidances == {"base", "dt_avail", "dt_used"}

Prompts(maxStep) ==
  [current_step : 1 .. maxStep, history : 0 .. maxStep,
   memo : 0 .. maxStep, guidance : Guidances]

RenderMemoBlock(state) ==
  IF state.latest_memo = "blank" THEN 0 ELSE state.memo_step

BuildDTActionUser(init, current_step, history, state, suppress_dt_guidance) ==
  [current_step |-> current_step,
   history      |-> history,
   memo         |-> IF init THEN 0 ELSE RenderMemoBlock(state),
   guidance     |-> CASE suppress_dt_guidance -> "base"
                      [] ~suppress_dt_guidance /\ ~state.just_called_dt -> "dt_avail"
                      [] OTHER -> "dt_used"]

=============================================================================
