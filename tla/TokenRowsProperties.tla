------------------------ MODULE TokenRowsProperties ------------------------
(* What must hold of the rows a training step ends with.                   *)
EXTENDS TokenRows

\* The context of a token: what stood before it, with positions from 0.
Numbered(tokens) == [k \in DOMAIN tokens |-> <<tokens[k], k - 1>>]

\* What the engine had before it when it chose token j of the answer of row i.
SeenByEngine(i, j) ==
  Numbered(generated[i].shown \o SubSeq(generated[i].answer, 1, j - 1))

\* The mask covers the answer, no more and no less, and it is what is counted.
MaskIsTheAnswer ==
  progress \notin {"prompts", "failed", "generate"} =>
    \A i \in Rows :
      LET n == Len(generated[i].answer)
      IN  /\ ResponseMask(batch[i]) = Repeated(1, n) \o Repeated(0, ResponseLength - n)
          /\ token_counts[i] = n

\* Every token of an answer has its own log probability, given exactly what the
\* engine was shown when it chose it, whatever was cut, padded, packed, sliced,
\* gathered and unpacked in between.
LogProbsAreOfTheirTokens ==
  progress \in {"penalty", "done"} =>
    \A i \in Rows : \A j \in DOMAIN generated[i].answer :
      old_log_probs[i][j] =
        [of |-> generated[i].answer[j], context |-> SeenByEngine(i, j)]

\* Reward and penalty of a row meet on the last token of its answer, which the
\* mask lets count, and on no other.
ScoredWhereTheyEnd ==
  progress = "done" =>
    \A i \in Rows : \A j \in 1..ResponseLength :
      token_level_scores[i][j] =
        IF j = Len(generated[i].answer) THEN {<<"reward", i>>, <<"invalid", i>>} ELSE {}

\* What the engine generated is what is counted, rewarded and trained on, token
\* by token (preprocess_single_sample, generate_sequences, the reward manager
\* and _forward_micro_batch each find the tokens of a row in their own way).
RowsTrainAsGenerated ==
  MaskIsTheAnswer /\ LogProbsAreOfTheirTokens /\ ScoredWhereTheyEnd
=============================================================================
