--------------------------- MODULE EpisodeProtocol ---------------------------
(***************************************************************************)
(* What a selective-thinking rollout promises to the trainer, without      *)
(* saying how: every trajectory is a run of real actions, between any two  *)
(* calls of the deep_think tool there is a real action, nothing happens to *)
(* a trajectory that is over, and the report handed over at the end counts *)
(* exactly the actions and the calls that happened.                        *)
(***************************************************************************)
EXTENDS Integers

CONSTANTS
  Trajectories,   \* the trajectories of one rollout
  Budget          \* turns a trajectory may take

VARIABLES
  open,      \* a rollout is under way
  calls,     \* deep_think calls made
  acts,      \* real actions taken
  cooling,   \* a call was made since the last real action
  over,      \* the game has ended
  won,       \* the game has ended with success
  report     \* what the trainer was given last

protocolVars == <<open, calls, acts, cooling, over, won, report>>

All(v) == [t \in Trajectories |-> v]

NoReport == All([calls |-> 0, acts |-> 0, won |-> FALSE])

ProtocolInit ==
  /\ open = FALSE
  /\ calls = All(0) /\ acts = All(0)
  /\ cooling = All(FALSE) /\ over = All(FALSE) /\ won = All(FALSE)
  /\ report = NoReport

Begin ==
  /\ ~open
  /\ open' = TRUE
  /\ calls' = All(0) /\ acts' = All(0)
  /\ cooling' = All(FALSE) /\ over' = All(FALSE) /\ won' = All(FALSE)
  /\ report' = NoReport

(* Some of the trajectories that are neither over nor cooling call the tool. *)
Deliberate(S) ==
  /\ open
  /\ \A t \in S : ~over[t] /\ ~cooling[t]
  /\ calls'   = [t \in Trajectories |-> IF t \in S THEN calls[t] + 1 ELSE calls[t]]
  /\ cooling' = [t \in Trajectories |-> cooling[t] \/ t \in S]
  /\ UNCHANGED <<open, acts, over, won, report>>

(* Some of the trajectories that are not over act; some of the games end,    *)
(* some of those with success.                                               *)
Act(A, E, W) ==
  /\ open
  /\ W \subseteq E /\ E \subseteq A
  /\ \A t \in A : ~over[t] /\ acts[t] < Budget
  /\ acts'    = [t \in Trajectories |-> IF t \in A THEN acts[t] + 1 ELSE acts[t]]
  /\ cooling' = [t \in Trajectories |-> cooling[t] /\ t \notin A]
  /\ over'    = [t \in Trajectories |-> over[t] \/ t \in E]
  /\ won'     = [t \in Trajectories |-> won[t] \/ t \in W]
  /\ UNCHANGED <<open, calls, report>>

(* Every trajectory is over or has used its budget: the report is made.      *)
Deliver ==
  /\ open
  /\ \A t \in Trajectories : over[t] \/ acts[t] + calls[t] >= Budget
  /\ open' = FALSE
  /\ report' = [t \in Trajectories |->
                  [calls |-> calls[t], acts |-> acts[t], won |-> won[t]]]
  /\ UNCHANGED <<calls, acts, cooling, over, won>>

ProtocolNext ==
  \/ Begin
  \/ \E S \in SUBSET Trajectories : Deliberate(S)
  \/ \E A \in SUBSET Trajectories : \E E \in SUBSET A : \E W \in SUBSET E : Act(A, E, W)
  \/ Deliver

ProtocolSpec == ProtocolInit /\ [][ProtocolNext]_protocolVars

=============================================================================
