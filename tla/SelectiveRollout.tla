-------------------------- MODULE SelectiveRollout ---------------------------
(***************************************************************************)
(* The rollout loop of the selective-thinking modes                        *)
(* (TrajectoryCollector.selective_thinking_multi_turn_loop), from the      *)
(* reset of the games to the batch handed to the trainer.                  *)
(*                                                                         *)
(* The loop is one thread that moves the whole batch from phase to phase;  *)
(* one action below is one phase.  What is nondeterministic is what the    *)
(* model generates and how the games answer.                               *)
(*                                                                         *)
(*   reset:            Reset -> Renew -> Rebuild -> Begin                  *)
(*   dt_action:        Compose -> Generate -> Intercept -> StepEnvs        *)
(*   selective_gate:   Gate -> Deliberate -> Compose -> Generate ->        *)
(*                     StepEnvs                                            *)
(*                                                                         *)
(* One generation counts as one token: what the properties compare is      *)
(* which generations are charged to which counter.                         *)
(***************************************************************************)
EXTENDS AlfWorldManager, FiniteSets

CONSTANTS
  ResponseChoices,  \* the responses explored, in each mode
  GateChoices,      \* the gate outputs explored
  MemoChoices,      \* the memos explored, in each mode
  Rollouts          \* bound: how many times the loop is called

ASSUME ChoicesAssumption ==
  /\ GateChoices \subseteq GateOutputs
  /\ \A mode \in ThinkingModes :
       ResponseChoices[mode] \subseteq Responses /\ MemoChoices[mode] \subseteq Memos
ASSUME RolloutsAssumption == Rollouts \in Nat

VARIABLES
  phase,                  \* where the loop is
  rollout,                \* calls of the loop so far
  env_step,
  is_done,
  gate_decisions,
  system,                 \* system prompts of the action generation
  text_actions,           \* the responses; inplace_actions once intercepted
  is_dt_step,             \* is_dt_step_arr
  total_batch_list,
  total_infos,
  episode_rewards,
  episode_lengths,
  tool_callings,
  total_output_tokens,
  action_output_tokens,
  success,                \* what success_evaluator returned
  gen_batch_output        \* what gather_rollout_data returned, per trajectory

ledgers == <<episode_rewards, episode_lengths, tool_callings,
             total_output_tokens, action_output_tokens>>

loopLocals == <<gate_decisions, system, text_actions, is_dt_step>>

vars == <<managerVars, phase, rollout, env_step, is_done, loopLocals,
          total_batch_list, total_infos, ledgers, success, gen_batch_output>>

Renewing == {"renew", "rebuild", "begin"}

Phases == Renewing \cup
          {"idle", "gate", "deliberate", "compose", "generate", "intercept",
           "step", "evaluate", "gather"}

Systems == {"dt_avail", "dt_used", "post_dt", "no_dt"}

Rows == [is_gate_step : BOOLEAN, gate_decision : BOOLEAN, is_dt_step : BOOLEAN,
         is_action_valid : BOOLEAN, rewards : {0, 1}, active_masks : BOOLEAN]

Infos == [won : BOOLEAN, is_action_valid : BOOLEAN]

Reports == [rows : SUBSET Nat, episode_rewards : Nat, episode_lengths : Nat,
            tool_callings : Nat, total_output_tokens : Nat,
            action_output_tokens : Nat, won : BOOLEAN]

AllEnvs(v) == [i \in Envs |-> v]

EmptyReport ==
  [rows |-> {}, episode_rewards |-> 0, episode_lengths |-> 0,
   tool_callings |-> 0, total_output_tokens |-> 0, action_output_tokens |-> 0,
   won |-> FALSE]

Active(i) == ~is_done[i]

(* Each of the trajectories in S is charged n tokens. *)
Charge(tokens, S, n) ==
  [i \in Envs |-> IF i \in S THEN tokens[i] + n ELSE tokens[i]]

FirstPhase == IF thinking_mode = "selective_gate" THEN "gate" ELSE "compose"

(* Mutant: the loop runs one step past its range, where no phase serves it. *)
AfterStep_OffByOne(done, steps) ==
  IF (\A i \in Envs : done[i]) \/ steps > MaxSteps THEN "evaluate" ELSE FirstPhase

(* Where a turn ends: the break, or the end of range(max_steps). *)
AfterStep(done, steps) ==
  IF (\A i \in Envs : done[i]) \/ steps >= MaxSteps THEN "evaluate" ELSE FirstPhase

-----------------------------------------------------------------------------
Init ==
  /\ ManagerInit
  /\ phase = "idle" /\ rollout = 0 /\ env_step = 0
  /\ is_done = AllEnvs(FALSE)
  /\ gate_decisions = AllEnvs(TRUE)
  /\ system = AllEnvs("no_dt")
  /\ text_actions = AllEnvs("noop")
  /\ is_dt_step = AllEnvs(FALSE)
  /\ total_batch_list = AllEnvs(<<>>) /\ total_infos = AllEnvs(<<>>)
  /\ episode_rewards = AllEnvs(0) /\ episode_lengths = AllEnvs(0)
  /\ tool_callings = AllEnvs(0)
  /\ total_output_tokens = AllEnvs(0) /\ action_output_tokens = AllEnvs(0)
  /\ success = AllEnvs(FALSE)
  /\ gen_batch_output = AllEnvs(EmptyReport)

(* The loop is called: envs.reset starts.  The locals of the call are new;   *)
(* nothing reads them before the first turn.                                 *)
Reset ==
  /\ phase = "idle" /\ rollout < Rollouts
  /\ ResetGames
  /\ phase' = "renew" /\ rollout' = rollout + 1 /\ env_step' = 0
  /\ is_done' = AllEnvs(FALSE)
  /\ gate_decisions' = AllEnvs(TRUE)
  /\ is_dt_step' = AllEnvs(FALSE)
  /\ total_batch_list' = AllEnvs(<<>>) /\ total_infos' = AllEnvs(<<>>)
  /\ episode_rewards' = AllEnvs(0) /\ episode_lengths' = AllEnvs(0)
  /\ tool_callings' = AllEnvs(0)
  /\ total_output_tokens' = AllEnvs(0) /\ action_output_tokens' = AllEnvs(0)
  /\ success' = AllEnvs(FALSE)
  /\ gen_batch_output' = AllEnvs(EmptyReport)
  /\ UNCHANGED <<system, text_actions>>

loopVars == <<rollout, env_step, is_done, loopLocals, total_batch_list,
              total_infos, ledgers, success, gen_batch_output>>

(* envs.reset goes on: new states, and prompts built from them. *)
Renew   == phase = "renew" /\ RenewStates /\ phase' = "rebuild" /\ UNCHANGED loopVars
Rebuild == phase = "rebuild" /\ RebuildPrompts /\ phase' = "begin" /\ UNCHANGED loopVars

(* envs.reset_dt_states, and the first turn. *)
Begin == phase = "begin" /\ RenewStates /\ phase' = FirstPhase /\ UNCHANGED loopVars

-----------------------------------------------------------------------------
(* selective_gate, phase 1: the gate generation of the active trajectories.  *)

GateOpens(out, state) == GateDecision(out) /\ ~state.just_called_dt

(* Mutant: the gate row is not flagged as one. *)
GateRow_Unflagged(decision) ==
  [is_gate_step |-> FALSE, gate_decision |-> decision, is_dt_step |-> FALSE,
   is_action_valid |-> TRUE, rewards |-> 0, active_masks |-> TRUE]

GateRow(decision) ==
  [is_gate_step |-> TRUE, gate_decision |-> decision, is_dt_step |-> FALSE,
   is_action_valid |-> TRUE, rewards |-> 0, active_masks |-> TRUE]

Gate ==
  /\ phase = "gate"
  /\ \E outs \in [Envs -> GateChoices] :
       /\ gate_decisions' = [i \in Envs |-> Active(i) /\ GateOpens(outs[i], dt_states[i])]
       /\ total_batch_list' =
            [i \in Envs |-> IF Active(i)
                            THEN Append(total_batch_list[i], GateRow(gate_decisions'[i]))
                            ELSE total_batch_list[i]]
  /\ total_output_tokens' = Charge(total_output_tokens, {i \in Envs : Active(i)}, 1)
  /\ phase' = "deliberate"
  /\ UNCHANGED <<managerVars, rollout, env_step, is_done, system, text_actions,
                 is_dt_step, total_infos, episode_rewards, episode_lengths,
                 tool_callings, action_output_tokens, success, gen_batch_output>>

(* The two deep_think generations of the trajectories in S: reasoning and    *)
(* memo are charged, the state and the call counter are updated.  obs is     *)
(* not rebuilt.                                                              *)
DeepThink(S) ==
  /\ \E memos \in [S -> MemoChoices[thinking_mode]] :
       dt_states' = [i \in Envs |-> IF i \in S
                                    THEN RecordDeepThink(dt_states[i], memos[i], env_step + 1)
                                    ELSE dt_states[i]]
  /\ total_output_tokens' = Charge(total_output_tokens, S, 2)
  /\ tool_callings' = Charge(tool_callings, S, 1)

(* selective_gate, phase 1.5: the trajectories whose gate opened deliberate. *)
Deliberate ==
  /\ phase = "deliberate"
  /\ DeepThink({i \in Envs : Active(i) /\ gate_decisions[i]})
  /\ phase' = "compose"
  /\ UNCHANGED <<thinking_mode, memory, games, obs, rollout, env_step, is_done, loopLocals,
                 total_batch_list, total_infos, episode_rewards, episode_lengths,
                 action_output_tokens, success, gen_batch_output>>

-----------------------------------------------------------------------------
(* The system prompts of the action generation. *)

OuterSystem(i) ==
  CASE thinking_mode = "dt_action" /\ dt_states[i].just_called_dt       -> "dt_used"
    [] thinking_mode = "dt_action" /\ ~dt_states[i].just_called_dt      -> "dt_avail"
    [] thinking_mode = "selective_gate" /\ gate_decisions[i] /\ Active(i) -> "post_dt"
    [] OTHER                                                           -> "no_dt"

Compose ==
  /\ phase = "compose" /\ env_step < MaxSteps
  /\ system' = [i \in Envs |-> OuterSystem(i)]
  /\ phase' = "generate"
  /\ UNCHANGED <<managerVars, rollout, env_step, is_done, gate_decisions,
                 text_actions, is_dt_step, total_batch_list, total_infos,
                 ledgers, success, gen_batch_output>>

(* Mutant: the tokens of finished trajectories are charged as well. *)
Charged_All == Envs

(* The trajectories the action generation is charged to. *)
Charged == {i \in Envs : Active(i)}

(* The action generation, for the whole batch, finished trajectories too. *)
Generate ==
  /\ phase = "generate"
  /\ text_actions' \in [Envs -> ResponseChoices[thinking_mode]]
  /\ total_output_tokens'  = Charge(total_output_tokens, Charged, 1)
  /\ action_output_tokens' = Charge(action_output_tokens, Charged, 1)
  /\ is_dt_step' = AllEnvs(FALSE)
  /\ phase' = IF thinking_mode = "dt_action" THEN "intercept" ELSE "step"
  /\ UNCHANGED <<managerVars, rollout, env_step, is_done, gate_decisions, system,
                 total_batch_list, total_infos, episode_rewards, episode_lengths,
                 tool_callings, success, gen_batch_output>>

(* Mutant: a call during the cooldown is accepted. *)
CallsDeepThink_InCooldown(i) ==
  Active(i) /\ IsDeepThinkCall(ExtractActionText(text_actions[i]))

CallsDeepThink(i) ==
  /\ Active(i) /\ ~dt_states[i].just_called_dt
  /\ IsDeepThinkCall(ExtractActionText(text_actions[i]))

(* dt_action: the calls are taken out of the responses and served. *)
Intercept ==
  /\ phase = "intercept"
  /\ LET called == {i \in Envs : CallsDeepThink(i)}
     IN  /\ is_dt_step' = [i \in Envs |-> i \in called]
         /\ DeepThink(called)
         /\ text_actions' = [i \in Envs |-> IF i \in called THEN "noop" ELSE text_actions[i]]
  /\ phase' = "step"
  /\ UNCHANGED <<thinking_mode, memory, games, obs, rollout, env_step, is_done, gate_decisions,
                 system, total_batch_list, total_infos, episode_rewards,
                 episode_lengths, action_output_tokens, success, gen_batch_output>>

-----------------------------------------------------------------------------
(* The turn itself: the games are stepped, the answers to the rows of a call *)
(* are overridden, the rows are recorded, the counters and cooldowns updated.*)

(* Mutant: the end of a game is taken from the row of a call too. *)
Outcome_NotOverridden(i, answer) ==
  [rewards |-> ComputeReward(answer), done |-> answer.done,
   is_action_valid |-> is_dt_step[i] \/ ProjectedValid(text_actions[i])]

(* Mutant: the row of a call keeps the verdict on the noop. *)
Outcome_Invalid(i, answer) ==
  [rewards |-> IF is_dt_step[i] THEN 0 ELSE ComputeReward(answer),
   done    |-> answer.done /\ ~is_dt_step[i],
   is_action_valid |-> ProjectedValid(text_actions[i])]

Outcome(i, answer) ==
  [rewards |-> IF is_dt_step[i] THEN 0 ELSE ComputeReward(answer),
   done    |-> answer.done /\ ~is_dt_step[i],
   is_action_valid |-> is_dt_step[i] \/ ProjectedValid(text_actions[i])]

TurnRow(i, outcome) ==
  [is_gate_step |-> FALSE, gate_decision |-> FALSE, is_dt_step |-> is_dt_step[i],
   is_action_valid |-> outcome.is_action_valid, rewards |-> outcome.rewards,
   active_masks |-> Active(i)]

(* The trajectories whose reward is added: episode_rewards[active_masks]. *)
Rewarded(i) == Active(i)

(* Mutant: the turn of a call counts as a step of the episode. *)
RealAction_CountsCalls(i) == Active(i)

RealAction(i) == Active(i) /\ ~is_dt_step[i]

StepEnvs ==
  /\ phase = "step"
  /\ \E answers \in [Envs -> Answers] :
       LET outcome == [i \in Envs |-> Outcome(i, answers[i])]
       IN  /\ ManagerStep(text_actions, answers)
           /\ episode_rewards' = [i \in Envs |-> episode_rewards[i] +
                                    IF Rewarded(i) THEN outcome[i].rewards ELSE 0]
           /\ total_batch_list' = [i \in Envs |->
                                     Append(total_batch_list[i], TurnRow(i, outcome[i]))]
           /\ total_infos' = [i \in Envs |->
                                Append(total_infos[i],
                                       [won |-> answers[i].won,
                                        is_action_valid |-> outcome[i].is_action_valid])]
           /\ is_done' = [i \in Envs |-> is_done[i] \/ outcome[i].done]
  /\ episode_lengths' = Charge(episode_lengths, {i \in Envs : RealAction(i)}, 1)
  /\ dt_states' = [i \in Envs |-> IF RealAction(i) THEN ConsumeDTBlock(dt_states[i])
                                  ELSE dt_states[i]]
  /\ env_step' = env_step + 1
  /\ phase' = AfterStep(is_done', env_step')
  /\ UNCHANGED <<rollout, loopLocals, tool_callings, total_output_tokens,
                 action_output_tokens, success, gen_batch_output>>

-----------------------------------------------------------------------------
(* success_evaluator with _process_batch: the verdict of a trajectory is the *)
(* info of its last active turn; gate rows have no info and are skipped.     *)

IsTurn(row) == ~row.is_gate_step

(* Mutant: the infos are indexed by the position of the row itself. *)
InfoIndex_Misaligned(rows, k) ==
  LET turns == Cardinality({l \in 1 .. Len(rows) : IsTurn(rows[l])})
  IN  IF k <= turns THEN k ELSE turns

(* batch_to_info: the info of the row at position k. *)
InfoIndex(rows, k) == Cardinality({l \in 1 .. k : IsTurn(rows[l])})

Judged(row) == row.active_masks /\ IsTurn(row)

LastJudged(rows) ==
  CHOOSE k \in 1 .. Len(rows) :
    /\ Judged(rows[k])
    /\ \A l \in (k + 1) .. Len(rows) : ~Judged(rows[l])

Evaluate ==
  /\ phase = "evaluate"
  /\ success' = [i \in Envs |->
       LET rows == total_batch_list[i]
       IN  total_infos[i][InfoIndex(rows, LastJudged(rows))].won]
  /\ phase' = "gather"
  /\ UNCHANGED <<managerVars, rollout, env_step, is_done, loopLocals,
                 total_batch_list, total_infos, ledgers, gen_batch_output>>

(* gather_rollout_data keeps the active rows (here, their positions) and     *)
(* stamps them with the counters of their trajectory.                        *)
Gathered(row) == row.active_masks

Gather ==
  /\ phase = "gather"
  /\ gen_batch_output' = [i \in Envs |->
       [rows                 |-> {k \in DOMAIN total_batch_list[i] :
                                     Gathered(total_batch_list[i][k])},
        episode_rewards      |-> episode_rewards[i],
        episode_lengths      |-> episode_lengths[i],
        tool_callings        |-> tool_callings[i],
        total_output_tokens  |-> total_output_tokens[i],
        action_output_tokens |-> action_output_tokens[i],
        won                  |-> success[i]]]
  /\ phase' = "idle"
  /\ UNCHANGED <<managerVars, rollout, env_step, is_done, loopLocals,
                 total_batch_list, total_infos, ledgers, success>>

-----------------------------------------------------------------------------
Next ==
  \/ Reset \/ Renew \/ Rebuild \/ Begin
  \/ Gate \/ Deliberate \/ Compose \/ Generate \/ Intercept
  \/ StepEnvs \/ Evaluate \/ Gather

Spec == Init /\ [][Next]_vars

(* Generations and games always answer, so the loop is never stuck in a      *)
(* phase; whether the trainer calls it again is up to the trainer.           *)
Fairness == WF_vars(Next /\ phase # "idle")

FairSpec == Spec /\ Fairness

=============================================================================
