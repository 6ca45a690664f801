----------------------- MODULE RewardShapingProperties ------------------------
(***************************************************************************)
(* What must hold of the shaped rewards although rows are duplicated and   *)
(* reordered between the rollout and the penalties.                        *)
(***************************************************************************)
EXTENDS RewardShaping

IsOf(t) == {i \in DOMAIN batch : batch[i].traj_uid = t}

(* The turns the trajectories of the rollout took.                           *)
Turns == {turn \in Ids \X (1 .. MaxLength) : turn[2] <= episodes[turn[1]].length}

(* Whatever was duplicated and wherever balancing moved it, every row of the *)
(* rollout is still in the batch, none is there more than twice, and the     *)
(* ranks share the rows equally.                                             *)
NothingLost ==
  stage \in {"balance", "token", "quality", "done"} =>
    /\ Len(batch) % SizeDivisor = 0
    /\ Len(batch) - Cardinality(Turns) < SizeDivisor
    /\ \A turn \in Turns :
         Cardinality({i \in IsOf(turn[1]) : batch[i].turn = turn[2]}) \in {1, 2}

(* The reward to go of a row (GiGPO) is that of its turn in its trajectory,  *)
(* although it was computed from the order of the batch.                     *)
ReturnsAreOfTheTurn ==
  stage \in {"balance", "token", "quality", "done"} =>
    \A i \in DOMAIN batch :
      batch[i].step_rewards = IF episodes[batch[i].traj_uid].won THEN 1 ELSE 0

(* Each won trajectory pays for its tokens exactly once if the penalty is on,*)
(* a lost one never, with however many copies of its rows in whatever order: *)
(* one row has the whole penalty and the others none.                        *)
TokensPaidOnce ==
  stage \in {"quality", "done"} =>
    \A t \in Ids :
      LET due == IF episodes[t].won /\ CoefPositive(won_buffer) THEN TokensOf(episodes[t]) ELSE 0
      IN  \E i \in IsOf(t) : \A j \in IsOf(t) :
            batch[j].token_penalty = IF j = i THEN due ELSE 0

(* Each won trajectory pays exactly once for calling more than one call more *)
(* or less often than the reference, a lost one never.                       *)
DeviationPaidOnce ==
  stage = "done" =>
    \A t \in Ids :
      LET apart == Max({episodes[t].calls * WindowSize - Reference(won_dt_buffer),
                        Reference(won_dt_buffer) - episodes[t].calls * WindowSize})
          due   == IF episodes[t].won /\ apart > WindowSize THEN apart - WindowSize ELSE 0
      IN  \E i \in IsOf(t) : \A j \in IsOf(t) :
            batch[j].dt_penalty = IF j = i THEN due ELSE 0

(* Both penalties, of the batch that is trained on. *)
PenaltiesPaidOnce == TokensPaidOnce /\ DeviationPaidOnce

(* The window has gained the entries of new, and lost those it has no room   *)
(* for, the oldest ones.                                                     *)
Slid(buffer, new, next) ==
  LET all == buffer \o new
  IN  /\ Len(next) = Min({WindowSize, Len(all)})
      /\ \A i \in DOMAIN next : next[i] = all[Len(all) - Len(next) + i]

(* The windows see trajectories, not rows: in every step the success window  *)
(* gains each verdict of the rollout once, and the reference window the call *)
(* counts of the won episodes once, in some order.                           *)
WindowsSeeEpisodes ==
  [][ /\ stage = "token" =>
           \E order \in SetToSeqs(Ids) :
             Slid(won_buffer, [k \in DOMAIN order |-> IF episodes[order[k]].won THEN 1 ELSE 0],
                  won_buffer')
      /\ stage = "quality" =>
           \E order \in SetToSeqs({t \in Ids : episodes[t].won}) :
             Slid(won_dt_buffer, [k \in DOMAIN order |-> episodes[order[k]].calls],
                  won_dt_buffer') ]_vars

=============================================================================
