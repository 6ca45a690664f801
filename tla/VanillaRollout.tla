---------------------------- MODULE VanillaRollout ----------------------------
(***************************************************************************)
(* One call of the plain rollout loop (vanilla_multi_turn_loop): a batch   *)
(* of games is reset and played in lock step until all are over or the     *)
(* turns are used up, then the environment manager judges the episodes.    *)
(*                                                                         *)
(* The games are external: one in play continues, is won or hits its limit;*)
(* one that is over is stepped on, and whether it then says won is not     *)
(* fixed by anything in the repository.                                    *)
(***************************************************************************)
EXTENDS Integers, Sequences, SequencesExt

CONSTANTS
  GroupSize,   \* env.rollout.n
  MaxSteps,    \* env.max_steps
  EnvLimit,    \* the games' own step limit
  Tasks        \* the kinds of tasks a game file may name

ASSUME GroupSizeAssumption == GroupSize \in Nat \ {0}
ASSUME MaxStepsAssumption  == MaxSteps \in Nat \ {0}
ASSUME EnvLimitAssumption  == EnvLimit \in Nat \ {0}
ASSUME TasksAssumption     == Tasks # {}

VARIABLES
  phase,             \* where the loop is
  calls,             \* calls of the loop so far, what makes uids unique
  gamefile,          \* per env: the task of the game it was reset to
  is_done,
  total_batch_list,  \* per env: its rows
  total_infos,       \* per env: the infos of its turns
  episode_rewards,
  episode_lengths,
  success            \* what success_evaluator returned: a list per key

vanillaVars == <<phase, calls, gamefile, is_done, total_batch_list, total_infos,
                 episode_rewards, episode_lengths, success>>

Answers == [won : BOOLEAN, done : BOOLEAN]

GameAnswers(i) ==
  LET atLimit == Len(total_infos[i]) + 1 >= EnvLimit
  IN  IF is_done[i] THEN {a \in Answers : a.done}
      ELSE {[won |-> FALSE, done |-> atLimit], [won |-> TRUE, done |-> TRUE]}

(* Mutant: the rows of a group are taken to be a stride apart. *)
UidOf_Strided(call, i) == <<call, i % GroupSize>>

(* The rows of a group of GroupSize consecutive envs share a uid.            *)
UidOf(call, i) == <<call, (i - 1) \div GroupSize>>

TrajUidOf(call, i) == <<call, i>>

Batch == DOMAIN is_done

(* The training games of a group are made with one seed, so they are reset   *)
(* to the same file; each game of a validation batch has its own.            *)
SameInGroup(files) ==
  \A i, k \in DOMAIN files : (i - 1) \div GroupSize = (k - 1) \div GroupSize => files[i] = files[k]

VanillaInit ==
  /\ phase = "idle" /\ calls = 0
  /\ gamefile = <<>> /\ is_done = <<>>
  /\ total_batch_list = <<>> /\ total_infos = <<>>
  /\ episode_rewards = <<>> /\ episode_lengths = <<>>
  /\ success = <<>>

VanillaReset(batch_size, grouped) ==
  /\ phase = "idle"
  /\ gamefile' \in [1 .. batch_size -> Tasks]
  /\ grouped => SameInGroup(gamefile')
  /\ calls' = calls + 1
  /\ is_done' = [i \in 1 .. batch_size |-> FALSE]
  /\ total_batch_list' = [i \in 1 .. batch_size |-> <<>>]
  /\ total_infos' = total_batch_list'
  /\ episode_rewards' = [i \in 1 .. batch_size |-> 0]
  /\ episode_lengths' = episode_rewards'
  /\ success' = <<>>
  /\ phase' = "turn"

Earned(i, answer) == IF ~is_done[i] /\ answer.won THEN 1 ELSE 0

Row(i, answer) ==
  [uid |-> UidOf(calls, i), traj_uid |-> TrajUidOf(calls, i),
   rewards |-> IF answer.won THEN 1 ELSE 0, active_masks |-> ~is_done[i]]

VanillaTurn ==
  /\ phase = "turn"
  /\ \E answers \in [Batch -> Answers] :
       /\ \A i \in Batch : answers[i] \in GameAnswers(i)
       /\ episode_rewards' = [i \in Batch |-> episode_rewards[i] + Earned(i, answers[i])]
       /\ total_batch_list' =
            [i \in Batch |-> Append(total_batch_list[i], Row(i, answers[i]))]
       /\ total_infos' = [i \in Batch |->
            Append(total_infos[i], [won |-> answers[i].won, gamefile |-> gamefile[i]])]
       /\ is_done' = [i \in Batch |-> is_done[i] \/ answers[i].done]
  /\ episode_lengths' = [i \in Batch |-> episode_lengths[i] + IF is_done[i] THEN 0 ELSE 1]
  /\ phase' = IF (\A i \in Batch : is_done'[i]) \/ Len(total_infos'[1]) >= MaxSteps
              THEN "evaluate" ELSE "turn"
  /\ UNCHANGED <<calls, gamefile, success>>

(* Mutant: the info of the last turn is taken, also of a game long over. *)
LastInfo_OfAll(i) == Last(total_infos[i])

(* _process_batch: the info of the last active row.                          *)
LastInfo(i) ==
  total_infos[i][SelectLastInSeq(total_batch_list[i], LAMBDA row : row.active_masks)]

(* success_evaluator: per key, the verdicts in the order of the batch; a     *)
(* task that no game of the batch has is no key.                             *)
Verdicts(envs) == [k \in DOMAIN envs |-> LastInfo(envs[k]).won]

EnvsOfTask(task) ==
  SelectSeq([i \in Batch |-> i], LAMBDA i : LastInfo(i).gamefile = task)

TasksSeen == {LastInfo(i).gamefile : i \in Batch}

VanillaEvaluate ==
  /\ phase = "evaluate"
  /\ success' = [key \in {"success_rate"} \cup TasksSeen |->
                   IF key = "success_rate" THEN Verdicts([i \in Batch |-> i])
                   ELSE Verdicts(EnvsOfTask(key))]
  /\ phase' = "done"
  /\ UNCHANGED <<calls, gamefile, is_done, total_batch_list, total_infos,
                 episode_rewards, episode_lengths>>

(* The caller takes what the loop returned.                                  *)
VanillaReturns ==
  /\ phase = "done" /\ phase' = "idle"
  /\ gamefile' = <<>> /\ is_done' = <<>>
  /\ total_batch_list' = <<>> /\ total_infos' = <<>>
  /\ episode_rewards' = <<>> /\ episode_lengths' = <<>> /\ success' = <<>>
  /\ UNCHANGED calls

=============================================================================
