----------------------------- MODULE DataProto -----------------------------
(***************************************************************************)
(* The row operations of verl/protocol.py that move a batch between the    *)
(* controller and the data parallel workers.  A batch is the sequence of   *)
(* its rows; the tensors and the numpy columns of a row move together.     *)
(***************************************************************************)
EXTENDS Naturals, SequencesExt

PadSize(rows, divisor) ==
  IF Len(rows) % divisor = 0 THEN 0 ELSE divisor - (Len(rows) % divisor)

\* pad_dataproto_to_divisor: the padding repeats the batch from its start.
PadToDivisor(rows, divisor) ==
  rows \o [i \in 1..PadSize(rows, divisor) |-> rows[((i - 1) % Len(rows)) + 1]]

Unpad(rows, padSize) == SubSeq(rows, 1, Len(rows) - padSize)

\* chunk, for a length that the number of chunks divides (asserted there).
Chunk(rows, chunks) ==
  LET size == Len(rows) \div chunks
  IN  [c \in 1..chunks |-> SubSeq(rows, (c - 1) * size + 1, c * size)]

\* TensorDict.split: chunks of one size, the last one may be shorter.
SplitBySize(rows, size) ==
  [c \in 1..((Len(rows) + size - 1) \div size) |->
     SubSeq(rows, (c - 1) * size + 1,
            IF c * size < Len(rows) THEN c * size ELSE Len(rows))]

Concat(batches) == FlattenSeq(batches)

Reorder(rows, indices) == [i \in DOMAIN indices |-> rows[indices[i]]]
=============================================================================
