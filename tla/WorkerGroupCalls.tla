-------------------------- MODULE WorkerGroupCalls --------------------------
(***************************************************************************)
(* One call of the controller on the data parallel workers, from the batch *)
(* it starts with to the columns it gets back:                             *)
(*                                                                         *)
(*   "generate"  the rollout pads the prompts of the environments that     *)
(*               take part, has them answered and drops the padding;       *)
(*   "log_prob"  the trainer reorders the batch so that the ranks get      *)
(*               similar numbers of tokens (if so configured) and every    *)
(*               rank recomputes the log probabilities of its share in     *)
(*               micro-batches, of a fixed size or by tokens;              *)
(*   "update"    every rank trains the actor, one optimizer step for every *)
(*               mini-batch of its share, whose gradients it accumulates   *)
(*               over micro-batches.                                       *)
(*                                                                         *)
(* A pass of a sharded model gathers its parameters from all ranks: no     *)
(* rank finishes its i-th pass before all have begun theirs.               *)
(***************************************************************************)
EXTENDS SeqlenBalancing, FiniteSets

CONSTANTS WorldSize, MaxRows, MaxLen, MicroBatchSize, MiniBatchSize, PpoEpochs, MaxTokenLen

ASSUME WorkerGroupAssumption ==
  /\ {WorldSize, MaxRows, MaxLen, MicroBatchSize, MiniBatchSize, PpoEpochs, MaxTokenLen}
       \subseteq Nat \ {0}
  /\ MiniBatchSize % MicroBatchSize = 0   \* asserted by ActorRolloutRefWorker
  /\ MaxTokenLen >= MaxLen   \* asserted by rearrange_micro_batches

VARIABLES
  call,    \* what is called, and the configuration it depends on
  lens,    \* tokens of every row
  rows,    \* the controller's batch: its rows in order
  heap,    \* the differencing states of the controller (0) and of every rank
  pc,      \* where the controller is
  rank,    \* what every worker does
  output   \* the rows that the entries of the returned columns belong to

vars == <<call, lens, rows, heap, pc, rank, output>>

Ranks == 1..WorldSize

Calls == [kind : {"generate"}, balance : {FALSE}, dynamic : {FALSE}]
           \cup [kind : {"log_prob"}, balance : BOOLEAN, dynamic : BOOLEAN]
           \cup [kind : {"update"}, balance : {FALSE}, dynamic : BOOLEAN]

\* left holds the batches the rank still has to go through: its whole share,
\* or the mini-batches of all epochs; grads the micro-batches whose gradients
\* are accumulated, and what their mean losses are multiplied by.
IdleRank == [at |-> "idle", left |-> << >>, count |-> 0, micro |-> << >>,
             begun |-> 0, done |-> 0, log_probs |-> << >>, grads |-> << >>,
             finite |-> TRUE, steps |-> 0]

\* adjust_batch has made the trainer's batch divisible, see adjusted there.
Init ==
  /\ call \in Calls
  /\ \E n \in 1..MaxRows :
       /\ call.kind # "generate" => n % (MicroBatchSize * WorldSize) = 0
       /\ lens \in [1..n -> 1..MaxLen]
       /\ rows = [i \in 1..n |-> i]
  /\ heap = [p \in 0..WorldSize |-> {}]
  /\ pc = "start"
  /\ rank = [r \in Ranks |-> IdleRank]
  /\ output = << >>

-----------------------------------------------------------------------------
(* The controller.                                                         *)

BeginBalance ==
  /\ pc = "start"
  /\ call.balance
  /\ heap' = [heap EXCEPT ![0] = InitialStates(lens, WorldSize, TRUE)]
  /\ pc' = "balance"
  /\ UNCHANGED <<call, lens, rows, rank, output>>

\* batch.reorder with the partitions one after the other
EndBalance ==
  /\ pc = "balance"
  /\ \E state \in heap[0] :
       /\ heap[0] = {state}
       /\ rows' = Reorder(rows, Concat(Partitions(state)))
  /\ pc' = "ready"
  /\ UNCHANGED <<call, lens, heap, rank, output>>

\* What the call sends: a rollout pads its prompts, the trainer's batch fits.
Sent == IF call.kind = "generate" THEN PadToDivisor(rows, WorldSize) ELSE rows

\* update_policy goes through the mini-batches of its share in every epoch.
Batches(share) ==
  IF call.kind = "update"
  THEN Concat([epoch \in 1..PpoEpochs |-> SplitBySize(share, MiniBatchSize)])
  ELSE <<share>>

DispatchCall ==
  /\ pc = (IF call.balance THEN "ready" ELSE "start")
  /\ pc' = "calling"
  /\ rank' = [r \in Ranks |-> [IdleRank EXCEPT !.at = "called",
                                               !.left = Batches(Chunk(Sent, WorldSize)[r])]]
  /\ UNCHANGED <<call, lens, rows, heap, output>>

\* Results are concatenated by rank, whichever rank was first.
Collect ==
  /\ pc = "calling"
  /\ \A r \in Ranks : rank[r].at = "returned"
  /\ output' = Unpad(Concat([r \in Ranks |-> rank[r].log_probs]),
                     IF call.kind = "generate" THEN PadSize(rows, WorldSize) ELSE 0)
  /\ pc' = "done"
  /\ UNCHANGED <<call, lens, rows, heap, rank>>

-----------------------------------------------------------------------------
(* The workers.                                                            *)

Batch(r) == Head(rank[r].left)

Generate(r) ==
  /\ rank[r].at = "called"
  /\ call.kind = "generate"
  /\ rank' = [rank EXCEPT ![r].at = "returned", ![r].log_probs = @ \o Batch(r)]
  /\ UNCHANGED <<call, lens, rows, heap, pc, output>>

BatchLens(r) == Reorder(lens, Batch(r))

\* The gradients are zeroed when a mini-batch has been split.
StartPasses(r, micro) ==
  [rank EXCEPT ![r].at = "forward", ![r].micro = micro, ![r].grads = << >>]

SplitByRows(r) ==
  /\ rank[r].at = "called"
  /\ call.kind # "generate"
  /\ ~call.dynamic
  /\ rank' = StartPasses(r, SplitBySize([i \in DOMAIN Batch(r) |-> i], MicroBatchSize))
  /\ UNCHANGED <<call, lens, rows, heap, pc, output>>

\* rearrange_micro_batches, up to the all_reduce
CountMicroBatches(r) ==
  LET byTokens == CeilDiv(Tokens(Batch(r), lens), MaxTokenLen)
      all      == Len(Batch(r))
  IN  /\ rank[r].at = "called"
      /\ call.kind # "generate"
      /\ call.dynamic
      /\ rank' = [rank EXCEPT ![r].at = "counted",
                              ![r].count = IF byTokens < all THEN byTokens ELSE all]
      /\ UNCHANGED <<call, lens, rows, heap, pc, output>>

AllReduce_OwnCount ==
  /\ \A r \in Ranks : rank[r].at = "counted"
  /\ rank' = [r \in Ranks |-> [rank[r] EXCEPT !.at = "agreed"]]
  /\ UNCHANGED <<call, lens, rows, heap, pc, output>>

\* all_reduce(MAX): all ranks continue with the largest number.
AllReduce ==
  /\ \A r \in Ranks : rank[r].at = "counted"
  /\ \E most \in {rank[r].count : r \in Ranks} :
       /\ \A r \in Ranks : rank[r].count <= most
       /\ rank' = [r \in Ranks |-> [rank[r] EXCEPT !.at = "agreed", !.count = most]]
  /\ UNCHANGED <<call, lens, rows, heap, pc, output>>

BeginSplit(r) ==
  /\ rank[r].at = "agreed"
  /\ heap' = [heap EXCEPT ![r] = InitialStates(BatchLens(r), rank[r].count, FALSE)]
  /\ rank' = [rank EXCEPT ![r].at = "split"]
  /\ UNCHANGED <<call, lens, rows, pc, output>>

EndSplit(r) ==
  /\ rank[r].at = "split"
  /\ \E state \in heap[r] :
       /\ heap[r] = {state}
       /\ rank' = StartPasses(r, Partitions(state))
  /\ UNCHANGED <<call, lens, rows, heap, pc, output>>

\* The loop of karmarkar_karp, of the controller or of a rank.
LensOf(p) == IF p = 0 THEN lens ELSE BatchLens(p)

MergeStep(p) ==
  /\ \E s \in heap[p] : \E t \in heap[p] \ {s} :
       /\ IsNextPopped(s, heap[p], LensOf(p))
       /\ IsNextPopped(t, heap[p] \ {s}, LensOf(p))
       /\ heap' = [heap EXCEPT ![p] = (@ \ {s, t}) \cup {MergeStates(s, t, LensOf(p))}]
  /\ UNCHANGED <<call, lens, rows, pc, rank, output>>

BeginPass(r) ==
  /\ rank[r].at = "forward"
  /\ rank[r].begun = rank[r].done
  /\ rank[r].begun < Len(rank[r].micro)
  /\ rank' = [rank EXCEPT ![r].begun = @ + 1]
  /\ UNCHANGED <<call, lens, rows, heap, pc, output>>

AllBegan(r) ==
  /\ rank[r].at = "forward"
  /\ rank[r].begun > rank[r].done
  /\ \A s \in Ranks : rank[s].begun >= rank[r].begun

MicroRows(r) == Reorder(Batch(r), rank[r].micro[rank[r].begun])

EndForward(r) ==
  /\ AllBegan(r)
  /\ call.kind = "log_prob"
  /\ rank' = [rank EXCEPT ![r].done = @ + 1, ![r].log_probs = @ \o MicroRows(r)]
  /\ UNCHANGED <<call, lens, rows, heap, pc, output>>

LossScale_ByCount(r) == <<1, Len(rank[r].micro)>>

\* What the mean loss of a micro-batch is multiplied by, as a fraction.
LossScale(r) ==
  IF call.dynamic THEN <<Len(MicroRows(r)), MiniBatchSize>>
                  ELSE <<1, MiniBatchSize \div MicroBatchSize>>

\* The forward pass, loss.backward and the accumulation of the gradients.
EndBackward(r) ==
  /\ AllBegan(r)
  /\ call.kind = "update"
  /\ rank' = [rank EXCEPT
       ![r].done = @ + 1,
       ![r].grads = Append(@, [rows |-> MicroRows(r), scale |-> LossScale(r)])]
  /\ UNCHANGED <<call, lens, rows, heap, pc, output>>

\* With micro-batches by tokens the results are put back in the share's order.
ReturnLogProbs(r) ==
  /\ rank[r].at = "forward"
  /\ call.kind = "log_prob"
  /\ rank[r].done = Len(rank[r].micro)
  /\ rank' = [rank EXCEPT
       ![r].at = "returned",
       ![r].log_probs = IF call.dynamic
                        THEN Reorder(@, ReverseIdx(Concat(rank[r].micro))) ELSE @]
  /\ UNCHANGED <<call, lens, rows, heap, pc, output>>

\* The norm of the gradients is reduced over all ranks, so that it is finite
\* for all of them or for none.
ClipGradNorm ==
  /\ call.kind = "update"
  /\ \A r \in Ranks : rank[r].at = "forward" /\ rank[r].done = Len(rank[r].micro)
  /\ \E finite \in BOOLEAN :
       rank' = [r \in Ranks |-> [rank[r] EXCEPT !.at = "clipped", !.finite = finite,
                                               !.begun = 0, !.done = 0]]
  /\ UNCHANGED <<call, lens, rows, heap, pc, output>>

\* A step that is not finite is skipped; then comes the next mini-batch.
OptimizerStep(r) ==
  /\ rank[r].at = "clipped"
  /\ rank' = [rank EXCEPT
       ![r].at = IF Len(rank[r].left) > 1 THEN "called" ELSE "returned",
       ![r].left = Tail(@),
       ![r].steps = IF rank[r].finite THEN @ + 1 ELSE @,
       ![r].grads = IF rank[r].finite /\ Len(rank[r].left) > 1 THEN @ ELSE << >>]
  /\ heap' = [heap EXCEPT ![r] = {}]
  /\ UNCHANGED <<call, lens, rows, pc, output>>

Work(r) ==
  \/ Generate(r)
  \/ SplitByRows(r)
  \/ CountMicroBatches(r)
  \/ BeginSplit(r)
  \/ EndSplit(r)
  \/ BeginPass(r)
  \/ EndForward(r)
  \/ EndBackward(r)
  \/ ReturnLogProbs(r)
  \/ OptimizerStep(r)

Next ==
  \/ BeginBalance
  \/ EndBalance
  \/ DispatchCall
  \/ AllReduce
  \/ ClipGradNorm
  \/ Collect
  \/ \E r \in Ranks : Work(r)
  \/ \E p \in 0..WorldSize : MergeStep(p)

Spec == Init /\ [][Next]_vars

\* Nothing here waits for anything but the other ranks.
FairSpec == Spec /\ WF_vars(Next)
=============================================================================
