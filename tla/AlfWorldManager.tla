--------------------------- MODULE AlfWorldManager ---------------------------
(***************************************************************************)
(* The environment manager of the selective-thinking modes                 *)
(* (AlfWorldSelectiveThinkingEnvironmentManager): it owns the state of the *)
(* trajectories, the history of commands and the prompts, and drives a     *)
(* batch of games in lock step (AlfworldEnvs).                             *)
(*                                                                         *)
(* The games themselves are external.  A game in play answers a command    *)
(* with continue or with won, and ends unwon at its step limit; what a     *)
(* game that is over answers is not fixed by anything in the repository.   *)
(***************************************************************************)
EXTENDS SelectiveThinking, Sequences

CONSTANTS
  BatchSize,      \* number of games played in lock step
  ThinkingModes,  \* the modes explored, of config.env.thinking_mode
  HistoryLength,  \* config.env.history_length
  MaxSteps,       \* config.env.max_steps: turns of one rollout
  EnvLimit        \* the games' own step limit (max_nb_steps_per_episode)

ASSUME BatchSizeAssumption     == BatchSize \in Nat \ {0}
ASSUME ThinkingModesAssumption == ThinkingModes \subseteq {"dt_action", "selective_gate"}
ASSUME HistoryLengthAssumption == HistoryLength \in Nat
ASSUME MaxStepsAssumption      == MaxSteps \in Nat \ {0}
ASSUME EnvLimitAssumption      == EnvLimit \in Nat \ {0}

VARIABLES
  thinking_mode,
  dt_states,  \* self._dt_states
  memory,     \* self.memory: the commands executed in each game
  games,      \* the games: steps played and how they stand
  obs         \* the prompts reset and step return

managerVars == <<thinking_mode, dt_states, memory, games, obs>>

Envs == 1 .. BatchSize

-----------------------------------------------------------------------------
(* alfworld_projection, for one response: the command the game is given, and *)
(* whether it counts as valid.  It looks at the first `action:` line, inside *)
(* a <think> block or not.                                                   *)

ProjectedCommand(text) == IF text = "leaked" THEN "deep_think" ELSE text

ProjectedValid(text) == text \in {"command", "deep_think", "leaked"}

-----------------------------------------------------------------------------
(* The games.                                                                *)

Standings == {"playing", "won", "lost"}
Answers   == [won : BOOLEAN, done : BOOLEAN]
NewGame   == [steps |-> 0, standing |-> "playing"]

GameAnswers(game, command) ==
  LET atLimit == game.steps + 1 >= EnvLimit
  IN  IF game.standing # "playing"
      THEN {a \in Answers : a.done}
      ELSE {[won |-> FALSE, done |-> atLimit]}
             \cup {a \in Answers : a.won /\ a.done /\ command = "command"}

GamePlayed(game, answer) ==
  IF game.standing # "playing" THEN game
  ELSE [steps    |-> game.steps + 1,
        standing |-> CASE answer.won                 -> "won"
                       [] ~answer.won /\ answer.done -> "lost"
                       [] OTHER                      -> "playing"]

(* compute_reward for a text game. *)
ComputeReward(answer) == IF answer.won THEN 1 ELSE 0

-----------------------------------------------------------------------------
(* build_text_obs, for one game.                                             *)

BuildTextObs(init, history, state) ==
  BuildDTActionUser(
    init \/ HistoryLength = 0,
    IF init THEN 1 ELSE Len(history) + 1,
    IF init THEN 0 ELSE IF Len(history) < HistoryLength THEN Len(history) ELSE HistoryLength,
    state,
    thinking_mode = "selective_gate")

FreshDTStates == [i \in Envs |-> NewDTState]

FreshMemory == [i \in Envs |-> <<>>]

FirstPrompts == [i \in Envs |-> BuildTextObs(TRUE, <<>>, dt_states[i])]

(* reset takes three steps.  The one it inherits resets games and history,   *)
(* and builds the first prompts with the states as they still are.           *)
ResetGames ==
  /\ games'  = [i \in Envs |-> NewGame]
  /\ memory' = FreshMemory
  /\ obs'    = FirstPrompts
  /\ UNCHANGED <<thinking_mode, dt_states>>

(* The states are replaced, in reset and once more by reset_dt_states.       *)
RenewStates ==
  /\ dt_states' = FreshDTStates
  /\ UNCHANGED <<thinking_mode, memory, games, obs>>

(* Mutant: the prompts are not built again. *)
RebuiltPrompts_Dropped == obs

RebuiltPrompts == FirstPrompts

RebuildPrompts ==
  /\ obs' = RebuiltPrompts
  /\ UNCHANGED <<thinking_mode, dt_states, memory, games>>

(* step: every game of the batch gets a command, the finished ones too; the  *)
(* next prompts are built from the states as they are now.                   *)
ManagerStep(texts, answers) ==
  /\ UNCHANGED thinking_mode
  /\ \A i \in Envs : answers[i] \in GameAnswers(games[i], ProjectedCommand(texts[i]))
  /\ games'  = [i \in Envs |-> GamePlayed(games[i], answers[i])]
  /\ memory' = [i \in Envs |-> Append(memory[i], ProjectedCommand(texts[i]))]
  /\ obs'    = [i \in Envs |-> BuildTextObs(FALSE, memory'[i], dt_states[i])]

(* A manager that has not been reset yet.                                    *)
ManagerInit ==
  /\ thinking_mode \in ThinkingModes
  /\ games     = [i \in Envs |-> NewGame]
  /\ memory    = [i \in Envs |-> <<>>]
  /\ dt_states = [i \in Envs |-> NewDTState]
  /\ obs       = [i \in Envs |-> BuildTextObs(TRUE, <<>>, NewDTState)]

ManagerTypeOK ==
  /\ thinking_mode \in ThinkingModes
  /\ dt_states \in [Envs -> DTState(MaxSteps)]
  /\ memory \in [Envs -> Seq(Actions)]
  /\ games \in [Envs -> [steps : 0 .. MaxSteps, standing : Standings]]
  /\ obs \in [Envs -> Prompts(MaxSteps + 1)]

=============================================================================
