----------------------------- MODULE TokenRows -----------------------------
(***************************************************************************)
(* The tokens of a batch from its prompts to the numbers it is trained     *)
(* with: prompts are cut or padded on the left, answers are padded on the  *)
(* right and masked, ranks share rows for tensor and for sequence          *)
(* parallelism, rows are packed into one sequence without padding, rolled, *)
(* sliced, gathered and unpacked again, and rewards are put on one token.  *)
(*                                                                         *)
(* A token is told apart by its row and its place, so that a number that   *)
(* belongs to another token shows.  A log probability is the token that    *)
(* it is of and the context the model saw: tokens with their positions.    *)
(* The model and the engine are external.  Images are left out.            *)
(***************************************************************************)
EXTENDS Integers, DataProto

CONSTANTS
  BatchSize,        \* rows
  WorldSize,        \* ranks
  PromptLengths,    \* lengths a prompt may have, before it is cut
  MaxPromptLength,
  ResponseLength,
  MicroBatchSize,   \* rows of a micro-batch
  Settings           \* the settings explored

GroupSizes == {n \in 1..WorldSize : WorldSize % n = 0}

\* The trainer refuses sequence parallelism without the removal of padding.
ASSUME RowsAssumption ==
  /\ {BatchSize, WorldSize, MaxPromptLength, ResponseLength, MicroBatchSize} \subseteq Nat \ {0}
  /\ BatchSize % WorldSize = 0
  /\ PromptLengths \subseteq Nat \ {0}
  /\ Settings \subseteq [truncation: {"left", "right", "middle", "error"},
                        tp: GroupSizes, sp: GroupSizes,
                        use_remove_padding: BOOLEAN]
  /\ \A c \in Settings : c.sp > 1 => c.use_remove_padding

VARIABLES
  setting,
  progress,
  prompts,        \* what the tokenizer makes of the prompt of a row
  batch,          \* the rows, as sequences of tokens, masks and positions
  generated,      \* the answers of the engine
  token_counts,   \* tokens of the answers, as the rollout counts them
  token_level_scores,
  old_log_probs

rows_vars == <<setting, progress, prompts, batch, generated, token_counts,
               token_level_scores, old_log_probs>>

Rows == 1..BatchSize

Repeated(x, n) == [k \in 1..n |-> x]

\* Of a sequence of numbers.
Total(s) == FoldLeft(+, 0, s)

Pad == <<"pad", 0, 0>>   \* pad_token_id
Zero == <<"zero", 0, 0>> \* the token of id 0

PromptOf(i, n) == [k \in 1..n |-> <<"prompt", i, k>>]

-----------------------------------------------------------------------------
(* Preprocessing of a prompt.  It is tokenised and cut in two places.      *)

\* postprocess_data, for a prompt that is too long.
Truncated(ids) ==
  LET left_half  == MaxPromptLength \div 2
      right_half == MaxPromptLength - left_half
      n          == Len(ids)
  IN  CASE setting.truncation = "left"   -> SubSeq(ids, n - MaxPromptLength + 1, n)
        [] setting.truncation = "right"  -> SubSeq(ids, 1, MaxPromptLength)
        [] setting.truncation = "middle" ->
             SubSeq(ids, 1, left_half) \o SubSeq(ids, n - right_half + 1, n)

(* Mutant: the engine gets the beginning of the prompt. *)
RawPromptIds_Beginning(ids) ==
  IF Len(ids) > MaxPromptLength THEN SubSeq(ids, 1, MaxPromptLength) ELSE ids

\* What the engine is shown.
RawPromptIds(ids) == IF Len(ids) > MaxPromptLength THEN Truncated(ids) ELSE ids

\* postprocess_data: ids and mask of the width of all prompts.
PostprocessData(ids) ==
  LET kept == IF Len(ids) > MaxPromptLength THEN Truncated(ids) ELSE ids
      gap  == MaxPromptLength - Len(kept)
  IN  [input_ids      |-> Repeated(Pad, gap) \o kept,
       attention_mask |-> Repeated(0, gap) \o Repeated(1, Len(kept))]

\* compute_position_id_with_mask
PositionIds(mask) ==
  [k \in DOMAIN mask |->
     LET before == Total(SubSeq(mask, 1, k)) - 1 IN IF before < 0 THEN 0 ELSE before]

PreprocessedRow(i, ids) ==
  LET padded == PostprocessData(ids)
  IN  [index          |-> i,
       input_ids      |-> padded.input_ids,
       attention_mask |-> padded.attention_mask,
       position_ids   |-> PositionIds(padded.attention_mask),
       raw_prompt_ids |-> RawPromptIds(ids)]

Preprocess ==
  /\ progress = "prompts"
  /\ \E lengths \in [Rows -> PromptLengths] :
       LET ids == [i \in Rows |-> PromptOf(i, lengths[i])]
       IN  /\ prompts' = ids
           /\ IF setting.truncation = "error" /\ \E i \in Rows : lengths[i] > MaxPromptLength
              THEN /\ progress' = "failed"   \* postprocess_data raises
                   /\ UNCHANGED batch
              ELSE /\ progress' = "generate"
                   /\ batch' = [i \in Rows |-> PreprocessedRow(i, ids[i])]
  /\ UNCHANGED <<setting, generated, token_counts, token_level_scores, old_log_probs>>

-----------------------------------------------------------------------------
(* Ranks.  The rows are dealt out in chunks; the ranks of a group, which   *)
(* follow each other, share theirs, all work on all of them, and each      *)
(* hands back its own chunk of the result.                                 *)

GroupOf(rank, size) == [j \in 1..size |-> ((rank - 1) \div size) * size + j]

\* all_gather_data_proto
AllGather(shards, rank, size) ==
  Concat([j \in 1..size |-> shards[GroupOf(rank, size)[j]]])

\* preprocess_data of the sharding managers: the rows every rank works on.
Shared(rows, size) ==
  LET shards == Chunk(rows, WorldSize)
  IN  [rank \in 1..WorldSize |-> AllGather(shards, rank, size)]

\* postprocess_data: every rank hands back the part that is its own.
HandedBack(results, size) ==
  Concat([rank \in 1..WorldSize |-> Chunk(results[rank], size)[((rank - 1) % size) + 1]])

-----------------------------------------------------------------------------
(* Generation.                                                             *)

\* Answers end in an end-of-sequence token, or at the limit without one.
AnswerShapes == (1..ResponseLength) \X {TRUE} \cup {<<ResponseLength, FALSE>>}

AnswerOf(i, shape) ==
  [k \in 1..shape[1] |-> <<IF k = shape[1] /\ shape[2] THEN "eos" ELSE "answer", i, k>>]

\* pad_2d_list_to_length
PaddedResponse(answer) == answer \o Repeated(Pad, ResponseLength - Len(answer))

(* Mutant: without the end itself. *)
GetResponseMask_UpToEos(response) ==
  [k \in DOMAIN response |-> IF \E l \in 1..k : response[l][1] = "eos" THEN 0 ELSE 1]

\* get_response_mask
GetResponseMask(response) ==
  [k \in DOMAIN response |-> IF \E l \in 1..(k - 1) : response[l][1] = "eos" THEN 0 ELSE 1]

\* The row that a prompt and its answer become.
Packed(row, answer) ==
  LET response == PaddedResponse(answer)
  IN  [prompts        |-> row.input_ids,
       responses      |-> response,
       input_ids      |-> row.input_ids \o response,
       attention_mask |-> row.attention_mask \o GetResponseMask(response),
       position_ids   |-> row.position_ids
                            \o [k \in 1..ResponseLength |-> Last(row.position_ids) + k]]

ResponseMask(row) ==
  SubSeq(row.attention_mask, Len(row.attention_mask) - Len(row.responses) + 1,
         Len(row.attention_mask))

\* Every rank of a tensor parallel group generates all answers of the group.
GenerateSequences ==
  /\ progress = "generate"
  /\ \E shapes \in [Rows -> AnswerShapes] :
       LET answers    == [i \in Rows |-> AnswerOf(i, shapes[i])]
           shared     == Shared(batch, setting.tp)
           packed     == HandedBack([rank \in 1..WorldSize |->
                           [k \in DOMAIN shared[rank] |->
                              Packed(shared[rank][k], answers[shared[rank][k].index])]],
                           setting.tp)
       IN  /\ generated' = [i \in Rows |-> [shown  |-> batch[i].raw_prompt_ids,
                                            answer |-> answers[i]]]
           /\ batch' = packed
           /\ token_counts' = [i \in Rows |-> Total(ResponseMask(packed[i]))]
  /\ progress' = "reward"
  /\ UNCHANGED <<setting, prompts, token_level_scores, old_log_probs>>

-----------------------------------------------------------------------------
(* Rewards.  The score of a row is the set of the terms put on each token. *)

(* Mutant: where the tensor ends. *)
ValidEnd_Padded(row) == ResponseLength

\* valid_response_length - 1, an index of the response counted from 0;
\* the index -1 is that of the last token.
ValidEnd(row) ==
  LET valid == Total(ResponseMask(row))
  IN  IF valid = 0 THEN ResponseLength ELSE valid

WithTerm(scores, term) ==
  [i \in Rows |-> [scores[i] EXCEPT ![ValidEnd(batch[i])] = @ \cup {<<term, i>>}]]

\* EpisodeRewardManager
ComputeReward ==
  /\ progress = "reward"
  /\ token_level_scores' = WithTerm([i \in Rows |-> Repeated({}, ResponseLength)], "reward")
  /\ progress' = "log_prob"
  /\ UNCHANGED <<setting, prompts, batch, generated, token_counts, old_log_probs>>

\* apply_invalid_action_penalty
InvalidActionPenalty ==
  /\ progress = "penalty"
  /\ token_level_scores' = WithTerm(token_level_scores, "invalid")
  /\ progress' = "done"
  /\ UNCHANGED <<setting, prompts, batch, generated, token_counts, old_log_probs>>

-----------------------------------------------------------------------------
(* Log probabilities.                                                      *)

NoLogProb == [of |-> Zero, context |-> <<>>]

\* The columns among the first n that are not masked, in order.
Unmasked(mask, n) ==
  LET seen == {c \in 1..n : mask[c] = 1}
  IN  [k \in 1..Cardinality(seen) |->
         CHOOSE c \in seen : Cardinality({d \in seen : d <= c}) = k]

\* unpad_input: where the tokens of a batch that are not masked stand.
Indices(rows) ==
  Concat([i \in DOMAIN rows |->
            LET seen == Unmasked(rows[i].attention_mask, Len(rows[i].input_ids))
            IN  [k \in DOMAIN seen |-> <<i, seen[k]>>]])

\* torch.roll by -1: under every token the one that follows it.
Rolled(ids) == Append(Tail(ids), Head(ids))

\* ulysses_pad: ids are padded with zeros, positions start anew.
UlyssesPadSize(ids) == (setting.sp - (Len(ids) % setting.sp)) % setting.sp
PaddedIds(ids) == ids \o Repeated(Zero, UlyssesPadSize(ids))
PaddedPositions(positions) ==
  positions \o [k \in 1..UlyssesPadSize(positions) |-> k - 1]

\* Attention over a packed sequence: a new one begins at every position 0.
PackedContext(ids, positions, q) ==
  LET start == CHOOSE s \in 1..q :
                 /\ positions[s] = 0 \/ s = 1
                 /\ \A t \in (s + 1)..q : positions[t] # 0
  IN  [k \in 1..(q - start + 1) |-> <<ids[start + k - 1], positions[start + k - 1]>>]

(* Mutant: slices are rolled, not the sequence. *)
Labels_RolledSlices(ids) ==
  Concat([s \in 1..setting.sp |-> Rolled(Chunk(PaddedIds(ids), setting.sp)[s])])

\* The labels, padded and sliced, of all the ranks of the group.
Labels(ids) == PaddedIds(Rolled(ids))

\* use_remove_padding.  Each rank of the group runs its slice of the packed
\* sequence; attention brings the slices and their positions together.
PackedLogProbs(rows) ==
  LET indices   == Indices(rows)
      ids       == [k \in DOMAIN indices |-> rows[indices[k][1]].input_ids[indices[k][2]]]
      positions == [k \in DOMAIN indices |-> rows[indices[k][1]].position_ids[indices[k][2]]]
      Slices(s) == Chunk(s, setting.sp)
      all_ids   == Concat(Slices(PaddedIds(ids)))
      all_pos   == Concat(Slices(PaddedPositions(positions)))
      Slice(rank) ==
        LET labels == Slices(Labels(ids))[rank] IN
        [k \in DOMAIN labels |->
           [of |-> labels[k],
            context |-> PackedContext(all_ids, all_pos, (rank - 1) * Len(labels) + k)]]
      log_probs == Unpad(Concat([rank \in 1..setting.sp |-> Slice(rank)]), UlyssesPadSize(ids))
  IN  [i \in DOMAIN rows |-> [c \in 1..(MaxPromptLength + ResponseLength) |->
         IF Contains(indices, <<i, c>>)
         THEN log_probs[CHOOSE k \in DOMAIN indices : indices[k] = <<i, c>>]
         ELSE NoLogProb]]   \* pad_input

\* Without use_remove_padding the mask hides the padding; the label of a
\* column is the token of the response that is one column further on.
PaddedLogProbs(rows) ==
  [i \in DOMAIN rows |-> [c \in 1..(MaxPromptLength + ResponseLength) |->
     LET seen == Unmasked(rows[i].attention_mask, c)
     IN  IF c \in MaxPromptLength..(MaxPromptLength + ResponseLength - 1)
         THEN [of      |-> rows[i].responses[c - MaxPromptLength + 1],
               context |-> [k \in DOMAIN seen |-> <<rows[i].input_ids[seen[k]],
                                                   rows[i].position_ids[seen[k]]>>]]
         ELSE NoLogProb]]

\* _forward_micro_batch: the columns one before those of the response.
ForwardMicroBatch(rows) ==
  LET full == IF setting.use_remove_padding THEN PackedLogProbs(rows) ELSE PaddedLogProbs(rows)
  IN  [i \in DOMAIN rows |->
         SubSeq(full[i], MaxPromptLength, MaxPromptLength + ResponseLength - 1)]

\* compute_log_prob of the actor, on the rows a rank has, in micro-batches of a
\* fixed size (those by tokens are in WorkerGroupCalls).
LogProbsOf(rows) ==
  LET micro_batches == SplitBySize(rows, MicroBatchSize)
  IN  Concat([b \in DOMAIN micro_batches |-> ForwardMicroBatch(micro_batches[b])])

\* compute_log_prob of the worker, which shares rows in the groups of sequence
\* parallelism.
ComputeLogProb ==
  /\ progress = "log_prob"
  /\ LET shared == Shared(batch, setting.sp)
     IN  old_log_probs' = HandedBack([rank \in 1..WorldSize |-> LogProbsOf(shared[rank])],
                                     setting.sp)
  /\ progress' = "penalty"
  /\ UNCHANGED <<setting, prompts, batch, generated, token_counts, token_level_scores>>

-----------------------------------------------------------------------------
RowsInit ==
  /\ setting \in Settings
  /\ progress = "prompts"
  /\ prompts = <<>> /\ batch = <<>> /\ generated = <<>> /\ token_counts = <<>>
  /\ token_level_scores = <<>> /\ old_log_probs = <<>>

RowsNext ==
  \/ Preprocess \/ GenerateSequences \/ ComputeReward
  \/ ComputeLogProb \/ InvalidActionPenalty

RowsSpec == RowsInit /\ [][RowsNext]_rows_vars
=============================================================================
