--------------------- MODULE SelectiveRolloutProperties ----------------------
(***************************************************************************)
(* What a selective-thinking rollout must guarantee, and what the          *)
(* comments and docstrings of the code say it does.                        *)
(***************************************************************************)
EXTENDS SelectiveRollout

(* Types of the loop's variables. *)
TypeOK ==
  /\ ManagerTypeOK
  /\ phase \in Phases
  /\ rollout \in 0 .. Rollouts
  /\ env_step \in 0 .. MaxSteps
  /\ is_done \in [Envs -> BOOLEAN]
  /\ gate_decisions \in [Envs -> BOOLEAN]
  /\ system \in [Envs -> Systems]
  /\ text_actions \in [Envs -> Actions]
  /\ is_dt_step \in [Envs -> BOOLEAN]
  /\ total_batch_list \in [Envs -> Seq(Rows)]
  /\ total_infos \in [Envs -> Seq(Infos)]
  /\ episode_rewards \in [Envs -> Nat]
  /\ episode_lengths \in [Envs -> Nat]
  /\ tool_callings \in [Envs -> Nat]
  /\ total_output_tokens \in [Envs -> Nat]
  /\ action_output_tokens \in [Envs -> Nat]
  /\ success \in [Envs -> BOOLEAN]
  /\ gen_batch_output \in [Envs -> Reports]

-----------------------------------------------------------------------------
(* Auxiliary notions.                                                        *)

(* No turn is under way: the counters speak of whole turns. *)
BetweenTurns == phase \in {FirstPhase, "evaluate", "gather", "idle"}

EnvRow(row)     == ~row.is_gate_step
ActiveTurn(row) == EnvRow(row) /\ row.active_masks
RealTurn(row)   == ActiveTurn(row) /\ ~row.is_dt_step
GateStep(row)   == row.is_gate_step
Call(row)       == row.is_dt_step \/ row.gate_decision
Rewarding(row)  == ActiveTurn(row) /\ row.rewards = 1

Count(rows, Test(_)) == Cardinality({k \in DOMAIN rows : Test(rows[k])})

EnvRows(rows)     == Count(rows, EnvRow)
ActiveTurns(rows) == Count(rows, ActiveTurn)
RealTurns(rows)   == Count(rows, RealTurn)
GateSteps(rows)   == Count(rows, GateStep)
Calls(rows)       == Count(rows, Call)
Rewardings(rows)  == Count(rows, Rewarding)

(* The turn, counted from 1, of the last deep_think call; 0 if there is none. *)
LastCallTurn(rows) ==
  LET calls == {k \in DOMAIN rows : Call(rows[k])}
      last  == CHOOSE k \in calls : \A l \in calls : l <= k
  IN  IF calls = {} THEN 0 ELSE EnvRows(SubSeq(rows, 1, last - 1)) + 1

-----------------------------------------------------------------------------
(* Safety.                                                                   *)

(* The cooldown, as the trainer sees it (TrajectoryDTState.just_called_dt,   *)
(* "two consecutive DT calls are forbidden"): no two consecutive rows of a   *)
(* trajectory are calls, and only a trajectory that is still running calls.  *)
Spaced(rows) ==
  \A k \in 1 .. Len(rows) :
    rows[k].is_dt_step =>
      /\ rows[k].active_masks
      /\ k < Len(rows) => ~rows[k + 1].is_dt_step

CallsAreSpaced == \A i \in Envs : Spaced(total_batch_list[i])

(* The counters stamped on every row for the reward (episode length, calls,  *)
(* rewards, total and action tokens) count exactly what the rows of the      *)
(* trajectory record: a call is no step, a finished game earns nothing, and  *)
(* total minus action tokens is the price of gates and deliberation.         *)
CountersMatchRows ==
  BetweenTurns =>
    \A i \in Envs :
      LET rows == total_batch_list[i]
      IN  /\ episode_lengths[i] = RealTurns(rows)
          /\ episode_rewards[i] = Rewardings(rows)
          /\ tool_callings[i] = Calls(rows)
          /\ tool_callings[i] = dt_states[i].dt_count
          /\ action_output_tokens[i] = ActiveTurns(rows)
          /\ total_output_tokens[i] =
               action_output_tokens[i] + GateSteps(rows) + 2 * tool_callings[i]

(* _process_batch pairs rows and infos by counting: the k-th turn row of a   *)
(* trajectory and its k-th info are of the same env step, also with gate     *)
(* rows in between and after the game has ended.                             *)
RowsMatchInfos ==
  BetweenTurns =>
    \A i \in Envs :
      LET rows == total_batch_list[i]
      IN  /\ EnvRows(rows) = env_step /\ Len(total_infos[i]) = env_step
          /\ \A k \in DOMAIN rows :
               LET info == total_infos[i][EnvRows(SubSeq(rows, 1, k))]
               IN  EnvRow(rows[k]) =>
                     /\ rows[k].is_action_valid = info.is_action_valid
                     /\ RealTurn(rows[k]) => (rows[k].rewards = 1 <=> info.won)

(* What the batch handed over says of a trajectory: it is a success exactly  *)
(* when it was rewarded and when its game is won, and it has a row.          *)
ReportsAgree ==
  phase = "idle" /\ rollout > 0 =>
    \A i \in Envs :
      LET out == gen_batch_output[i]
      IN  /\ out.won <=> out.episode_rewards = 1
          /\ out.won <=> games[i].standing = "won"
          /\ out.rows # {}

(* The success rate reported for a trajectory (success_evaluator) agrees     *)
(* with the reward it is trained on and with how its game stands: the two    *)
(* are computed from different lists, whose entries must have been paired    *)
(* rightly all along.                                                        *)
VerdictMatchesReward == RowsMatchInfos /\ ReportsAgree

(* The row of a deep_think call neither earns a reward nor ends its          *)
(* trajectory nor counts as an invalid action, whatever the game said to     *)
(* the noop: only a real action ends a trajectory.                           *)
CallRowsAreNeutral ==
  \A i \in Envs :
    LET rows == total_batch_list[i]
    IN  \A k \in DOMAIN rows :
          rows[k].is_dt_step =>
            /\ rows[k].is_action_valid /\ rows[k].rewards = 0
            /\ is_done[i] => \E l \in (k + 1) .. Len(rows) : RealTurn(rows[l])

TurnPhases == {"gate", "deliberate", "compose", "generate", "intercept", "step"}

(* One of the last n rows is a call that was intercepted. *)
CalledWithin(rows, n) ==
  \E k \in 1 .. Len(rows) : k > Len(rows) - n /\ rows[k].is_dt_step

(* What the gate rows of the last turn say. *)
GateOpened(rows) == Len(rows) > 0 /\ rows[Len(rows)].gate_decision

(* What steers a generation follows from the calls of this rollout alone, in *)
(* every turn: a state of the previous rollout, with which reset first       *)
(* builds the prompts, steers none.  The system prompt tells of a call in    *)
(* the turn before (or of the gate of this turn).  The guidance at the end   *)
(* of the user prompt, built before the cooldown ends (rollout_loop.py:851), *)
(* tells of a call in the two turns before.                                  *)
SteeredByOwnCalls ==
  \A i \in Envs :
    LET rows == total_batch_list[i]
    IN  /\ phase \in TurnPhases =>
             obs[i].guidance =
               CASE thinking_mode = "selective_gate" -> "base"
                 [] thinking_mode = "dt_action" /\ CalledWithin(rows, 2) -> "dt_used"
                 [] OTHER -> "dt_avail"
        /\ phase = "generate" =>
             system[i] =
               CASE thinking_mode = "selective_gate" /\ GateOpened(rows) -> "post_dt"
                 [] thinking_mode = "selective_gate" /\ ~GateOpened(rows) -> "no_dt"
                 [] thinking_mode = "dt_action" /\ CalledWithin(rows, 1) -> "dt_used"
                 [] OTHER -> "dt_avail"

(* Step numbers in prompts, in memos and in the loop are three counters;     *)
(* between turns they agree, and the memo shown is the one of the last       *)
(* call (unless it is blank or the template has no place for it).            *)
PromptsTellTheTruth ==
  BetweenTurns =>
    \A i \in Envs :
      LET called == LastCallTurn(total_batch_list[i])
      IN  /\ obs[i].current_step = env_step + 1
          /\ obs[i].history = IF env_step < HistoryLength THEN env_step ELSE HistoryLength
          /\ dt_states[i].memo_step = called
          /\ obs[i].memo = IF dt_states[i].latest_memo = "blank" \/ HistoryLength = 0
                           THEN 0 ELSE called

(* A trajectory that is over stays as it is while the rest of the batch      *)
(* plays on: its counters and state do not change and it gains no active row.*)
FinishedIsFrozen ==
  [][\A i \in Envs :
       is_done[i] /\ is_done'[i] =>
         /\ episode_rewards'[i] = episode_rewards[i]
         /\ episode_lengths'[i] = episode_lengths[i]
         /\ tool_callings'[i] = tool_callings[i]
         /\ total_output_tokens'[i] = total_output_tokens[i]
         /\ dt_states'[i] = dt_states[i]
         /\ ActiveTurns(total_batch_list'[i]) = ActiveTurns(total_batch_list[i])
         /\ GateSteps(total_batch_list'[i]) = GateSteps(total_batch_list[i])]_vars

(* The loop implements the protocol the trainer relies on.  A state that is  *)
(* about to be replaced is not one of the rollout that was begun.            *)
Protocol ==
  INSTANCE EpisodeProtocol WITH
    Trajectories <- Envs,
    Budget       <- MaxSteps,
    open         <- phase # "idle",
    calls        <- tool_callings,
    acts         <- episode_lengths,
    cooling      <- [i \in Envs |-> phase # "renew" /\ dt_states[i].just_called_dt],
    over         <- is_done,
    won          <- [i \in Envs |-> episode_rewards[i] > 0],
    report       <- [i \in Envs |-> [calls |-> gen_batch_output[i].tool_callings,
                                     acts  |-> gen_batch_output[i].episode_lengths,
                                     won   |-> gen_batch_output[i].won]]

(* Every behaviour of the loop is one of the protocol: calls are separated   *)
(* by real actions in both modes, nothing happens after the end, and the     *)
(* report counts what happened.                                              *)
ImplementsProtocol == Protocol!ProtocolSpec

-----------------------------------------------------------------------------
(* Liveness.                                                                 *)

(* A rollout that was started returns a batch: calls of the tool use up      *)
(* turns like actions do, so no trajectory can deliberate for ever.          *)
RolloutEnds == (phase # "idle") ~> (phase = "idle")

-----------------------------------------------------------------------------
(* What comments and docstrings say, and the code does not do.               *)

(* env_manager.py:265: "performs an extra DT generation, then the action     *)
(* generation uses the resulting memo as guidance".                          *)
FreshMemoGuides ==
  phase = "generate" =>
    \A i \in Envs :
      system[i] = "post_dt" /\ dt_states[i].latest_memo # "blank" => obs[i].memo = env_step + 1

-----------------------------------------------------------------------------
(* The inductive invariant behind the safety properties.                     *)

PhaseInv ==
  /\ phase \in {"gate", "deliberate"} => thinking_mode = "selective_gate"
  /\ phase = "intercept" => thinking_mode = "dt_action"
  /\ phase \in TurnPhases => env_step < MaxSteps
  /\ phase \in {"evaluate", "gather"} =>
       /\ env_step > 0
       /\ env_step = MaxSteps \/ \A i \in Envs : is_done[i]

(* What is new already while the environments are reset. *)
RenewalInv ==
  /\ phase \in Renewing =>
       /\ env_step = 0
       /\ \A i \in Envs : /\ total_batch_list[i] = <<>> /\ tool_callings[i] = 0
                          /\ games[i].standing = "playing"
  /\ phase \in {"rebuild", "begin"} => \A i \in Envs : dt_states[i] = NewDTState
  /\ phase = "begin" => \A i \in Envs : obs[i] = BuildTextObs(TRUE, <<>>, NewDTState)

(* Histories, games, rows and infos advance in lock step with the loop. *)
LockStepInv ==
  \A i \in Envs :
    /\ Len(memory[i]) = env_step
    /\ games[i].steps <= env_step
    /\ InfoIndex(total_batch_list[i], Len(total_batch_list[i])) = Len(total_infos[i])
    /\ env_step = 0 => ~is_done[i]
    /\ env_step > 0 => \E k \in 1 .. Len(total_batch_list[i]) : Judged(total_batch_list[i][k])

(* just_called_dt is set while the last row of the trajectory is a call. *)
CooldownInv ==
  \A i \in Envs :
    LET rows == total_batch_list[i]
        last == Len(rows)
    IN  /\ phase # "renew" => dt_states[i].dt_count = tool_callings[i]
        /\ last > 0 /\ rows[last].is_dt_step => dt_states[i].just_called_dt /\ Active(i)
        /\ phase = "intercept" => ~is_dt_step[i]
        /\ phase = "step" /\ is_dt_step[i] =>
             /\ Active(i) /\ dt_states[i].just_called_dt /\ text_actions[i] = "noop"
             /\ last > 0 => ~rows[last].is_dt_step
        /\ thinking_mode = "selective_gate" => ~is_dt_step[i]
        /\ phase = "deliberate" /\ gate_decisions[i] => ~dt_states[i].just_called_dt

(* Every turn of a running trajectory was an action or a call. *)
BudgetInv ==
  \A i \in Envs :
    /\ episode_lengths[i] <= env_step
    /\ Active(i) =>
         CASE thinking_mode = "selective_gate" -> episode_lengths[i] = env_step
           [] thinking_mode = "dt_action" /\ (phase # "step" \/ ~is_dt_step[i]) ->
                episode_lengths[i] + tool_callings[i] = env_step
           [] OTHER -> episode_lengths[i] + tool_callings[i] = env_step + 1

(* What makes the safety properties inductive: the phases a mode goes        *)
(* through, the steps of a reset, the lock step of games, rows and infos, the meaning of the       *)
(* cooldown flag, and the turns used up.                                     *)
IInv ==
  /\ TypeOK
  /\ CallsAreSpaced
  /\ PhaseInv
  /\ RenewalInv
  /\ LockStepInv
  /\ CooldownInv
  /\ BudgetInv

-----------------------------------------------------------------------------
(* What counters, infos and prompts say in the middle of a turn.             *)

(* The gate has recorded a call that is still to be made. *)
RowAhead(i) == phase = "deliberate" /\ gate_decisions[i]

(* A call was intercepted, and its row is still to be recorded. *)
CallAhead(i) == phase = "step" /\ is_dt_step[i]

(* An action was generated, and its row is still to be recorded. *)
ActionAhead(i) == phase \in {"intercept", "step"} /\ Active(i)

(* The counters are the counts of the rows, up to the row under way. *)
LedgerInv ==
  \A i \in Envs :
    LET rows == total_batch_list[i]
    IN  /\ RowAhead(i) => Active(i)
        /\ episode_lengths[i] = RealTurns(rows)
        /\ episode_rewards[i] = Rewardings(rows)
        /\ tool_callings[i] + (IF RowAhead(i) THEN 1 ELSE 0) =
             Calls(rows) + (IF CallAhead(i) THEN 1 ELSE 0)
        /\ action_output_tokens[i] =
             ActiveTurns(rows) + (IF ActionAhead(i) THEN 1 ELSE 0)
        /\ total_output_tokens[i] =
             action_output_tokens[i] + GateSteps(rows) + 2 * tool_callings[i]

(* There is one info per turn, and it says what the row of the turn says. *)
PairingInv ==
  \A i \in Envs :
    LET rows == total_batch_list[i]
    IN  /\ Len(total_infos[i]) = env_step
        /\ \A k \in 1 .. Len(rows) :
             LET info == total_infos[i][InfoIndex(rows, k)]
             IN  IsTurn(rows[k]) =>
                   /\ rows[k].is_action_valid = info.is_action_valid
                   /\ RealTurn(rows[k]) => (rows[k].rewards = 1 <=> info.won)

(* The memo kept is the one of the last call, up to the call under way; the  *)
(* prompts were built from it when the turn ended.                           *)
PromptInv ==
  \A i \in Envs :
    LET called == LastCallTurn(total_batch_list[i])
    IN  /\ CallAhead(i) => dt_states[i].memo_step = env_step + 1
        /\ RowAhead(i) => called = env_step + 1
        /\ ~CallAhead(i) /\ ~RowAhead(i) /\ phase # "renew" =>
             dt_states[i].memo_step = called
        /\ BetweenTurns =>
             /\ obs[i].current_step = env_step + 1
             /\ obs[i].history = IF env_step < HistoryLength THEN env_step ELSE HistoryLength
             /\ obs[i].memo = IF dt_states[i].latest_memo = "blank" \/ HistoryLength = 0
                              THEN 0 ELSE dt_states[i].memo_step

(* The cooldown flag is set only by the last call, and the gate of a turn    *)
(* tells its decision in the last row.                                       *)
SteeringInv ==
  \A i \in Envs :
    LET rows == total_batch_list[i]
    IN  /\ thinking_mode = "dt_action" /\ dt_states[i].just_called_dt /\ phase # "renew" =>
             CalledWithin(rows, 1) \/ CallAhead(i)
        /\ phase = "gate" => ~GateOpened(rows)
        /\ phase \in {"deliberate", "compose"} /\ thinking_mode = "selective_gate" =>
             (gate_decisions[i] /\ Active(i) <=> GateOpened(rows))

(* The inductive invariant behind counters, pairing and prompts. *)
BooksInv ==
  /\ IInv
  /\ LedgerInv
  /\ PairingInv
  /\ PromptInv
  /\ CallRowsAreNeutral
  /\ SteeringInv
  /\ SteeredByOwnCalls

(* The info of the last judged row, the reward and the game tell the same. *)
VerdictInv ==
  \A i \in Envs :
    LET rows == total_batch_list[i]
    IN  /\ episode_rewards[i] \in {0, 1}
        /\ Active(i) => episode_rewards[i] = 0
        /\ phase \in TurnPhases /\ Active(i) => games[i].standing = "playing"
        /\ ~Active(i) => games[i].standing # "playing"
        /\ games[i].standing = "won" <=> episode_rewards[i] = 1
        /\ \A k \in 1 .. Len(rows) :
             Judged(rows[k]) /\ (\A l \in (k + 1) .. Len(rows) : ~Judged(rows[l])) =>
               (total_infos[i][InfoIndex(rows, k)].won <=> episode_rewards[i] = 1)
        /\ phase = "gather" => (success[i] <=> episode_rewards[i] = 1)

(* With games that do not stop before the loop does (EnvLimit >= MaxSteps),  *)
(* reward and verdict agree as well.                                         *)
FullInv == BooksInv /\ VerdictInv /\ ReportsAgree

=============================================================================
