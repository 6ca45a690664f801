----------------------- MODULE GroupAdvantagesProperties -----------------------
(* What the estimators promise of the advantages of a batch.               *)
EXTENDS GroupAdvantages, Folds

Done == stage = "done"

\* build_step_group: the rows of a step group are of one prompt and resemble
\* the one that founded it, rows of the same prompt and observation are in the
\* same group wherever they stand in the batch, and the founders of a prompt's
\* groups do not resemble an earlier one.  Without similarity two rows are
\* in one group if and only if they are of the same prompt and observation.
StepGroupsAreOfOneState ==
  Done /\ adv_estimator \in {"gigpo", "gigpo_similarity"} =>
    LET groups == Clusters(batch, adv_estimator)
        Same(i, k) == batch[i].uid = batch[k].uid /\ batch[i].anchor_obs = batch[k].anchor_obs
    IN  /\ \A i \in DOMAIN batch : Cardinality({c \in DOMAIN groups : i \in groups[c].locs}) = 1
        /\ \A c \in DOMAIN groups : \A i \in DOMAIN batch :
             LET rep == groups[c].rep
             IN  /\ Same(rep, i) => i \in groups[c].locs
                 /\ i \in groups[c].locs =>
                      /\ batch[i].uid = batch[rep].uid
                      /\ <<batch[i].anchor_obs, batch[rep].anchor_obs>> \in SimilarPairs
                      /\ adv_estimator = "gigpo" => Same(rep, i)
        /\ \A i, k \in DOMAIN batch : \A c \in DOMAIN groups :
             Same(i, k) /\ i \in groups[c].locs => k \in groups[c].locs
        /\ \A c, d \in DOMAIN groups :
             c < d /\ batch[groups[c].rep].uid = batch[groups[d].rep].uid =>
               <<batch[groups[d].rep].anchor_obs, batch[groups[c].rep].anchor_obs>>
                 \notin SimilarPairs \/ adv_estimator = "gigpo"

Less(x, y) == x[1] * y[2] < y[1] * x[2]
Equal(x, y) == x[1] * y[2] = y[1] * x[2]

SumsToNothing(those) == MapThenFoldSet(Plus, <<0, 1>>, LAMBDA i : advantages[i],
                                       LAMBDA set : CHOOSE i \in set : TRUE, those)[1] = 0

Raised(k, i) == Less(advantages[k], advantages[i])

Below(k, i) ==
  batch[k].reward <= batch[i].reward /\ batch[k].step_reward <= batch[i].step_reward

\* The return of a row is the mean of its step group.
Expected(i) ==
  FromMean(StepScores(batch), i, StepGroup(batch, adv_estimator, i))[1] = 0

\* An advantage is relative to its prompt.  The advantages of a prompt with
\* several rows add up to nothing, and among them higher rewards have higher
\* ones; so a prompt whose rewards are all the same, which dynamic sampling
\* drops, would teach nothing.  GiGPO compares rewards among the rows of a
\* prompt and returns within a step group: there a row has a higher advantage
\* than one that has neither a higher reward nor a higher return, unless it is
\* equal in both, and among rows whose return is as expected in their step
\* group, those alone in it for one, the rewards alone decide.  Pass@k
\* gives an advantage to one row of a prompt at most, a best one.
Relative ==
  \A i \in DOMAIN batch :
    LET group == OfPrompt(batch, i)
    IN  IF adv_estimator = "grpo_passk"
        THEN /\ Cardinality({k \in group : advantages[k][1] # 0}) <= 1
             /\ advantages[i][1] # 0 => \A k \in group : batch[k].reward <= batch[i].reward
        ELSE Cardinality(group) > 1 =>
               /\ SumsToNothing(group)
               /\ \A k \in group :
                    adv_estimator \in {"grpo", "rloo"} \/ (Expected(k) /\ Expected(i)) =>
                      (Raised(k, i) <=> batch[k].reward < batch[i].reward)
               /\ adv_estimator \notin {"grpo", "rloo"} =>
                    \A k \in StepGroup(batch, adv_estimator, i) :
                      Below(k, i) => (Raised(k, i) <=> ~Below(i, k))

\* Where the balancing puts the rows changes no row's advantage, but for the
\* groups of similar observations.
Everywhere ==
  \A rank \in EqualShares(Len(batch)) :
    LET places == Reordered([i \in DOMAIN batch |-> i], rank)
        moved  == [k \in DOMAIN batch |-> batch[places[k]]]
    IN  \A k \in DOMAIN batch :
          Equal(AdvantageOf(moved, adv_estimator, k), advantages[places[k]])

AdvantagesAreRelative == Done => Relative /\ (adv_estimator # "gigpo_similarity" => Everywhere)
=============================================================================
