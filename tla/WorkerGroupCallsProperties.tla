--------------------- MODULE WorkerGroupCallsProperties ---------------------
(* What the controller relies on when it calls the workers.                *)
EXTENDS WorkerGroupCalls

\* Between two merges of the differencing method, every row is in exactly one
\* bucket of one state, and with equal sizes the buckets of a state hold
\* equally many: the assertions of karmarkar_karp and of
\* _check_and_sort_partitions, at every iteration instead of after the last.
RowsAreConserved ==
  \A p \in DOMAIN heap : heap[p] # {} =>
    LET all == Concat(SetToSeq({Concat(s) : s \in heap[p]}))
    IN  /\ Len(all) = Len(LensOf(p))
        /\ ToSet(all) = DOMAIN LensOf(p)
        /\ p = 0 => \A s \in heap[p] : \A i, j \in DOMAIN s : Len(s[i]) = Len(s[j])

\* A merge never makes the worst state worse: the difference between the
\* heaviest and the lightest partition is bounded by the worst initial state,
\* whatever is merged.  It needs the states to stay sorted and to be merged
\* in opposite order.
SpreadNeverGrows ==
  [][\A p \in DOMAIN heap : heap[p] # {} =>
       \A s \in heap'[p] : \E t \in heap[p] :
         Spread(s, LensOf(p)) <= Spread(t, LensOf(p))]_vars

\* The micro-batches of a rank cover its batch once, none of them is empty,
\* and every rank has as many as the others: a rank with fewer would leave
\* the others waiting in a forward pass.
MicroBatchesPartition ==
  \A r \in Ranks : rank[r].at = "forward" =>
    LET all == Concat(rank[r].micro)
    IN  /\ Len(all) = Len(Batch(r))
        /\ ToSet(all) = DOMAIN Batch(r)
        /\ \A i \in DOMAIN rank[r].micro : rank[r].micro[i] # << >>
        /\ \A s \in Ranks : rank[s].at = "forward" =>
             Len(rank[s].micro) = Len(rank[r].micro)

\* Rows are split up exactly, on the controller and on every rank.
PartitionsAreExact == RowsAreConserved /\ MicroBatchesPartition

\* What comes back is in the order of the controller's batch, one entry for
\* every row, though it was reordered, padded, dealt out, split by tokens,
\* computed in another order and put together again.
AnswersAligned == pc = "done" /\ call.kind # "update" => output = rows

\* An optimizer step is over the rows of its mini-batch and no others, each
\* of them once, and the mean loss of every micro-batch weighs as many
\* MiniBatchSize-ths as it has rows, of whatever sizes the micro-batches are
\* and also in a last mini-batch that is smaller; and ranks that are equally
\* far have skipped the same steps.
UpdatesWeighRowsAlike ==
  \A r \in Ranks :
    /\ rank[r].at = "clipped" =>
         LET grads == rank[r].grads
             all   == Concat([g \in DOMAIN grads |-> grads[g].rows])
         IN  /\ Len(all) = Len(Batch(r))
             /\ ToSet(all) = ToSet(Batch(r))
             /\ \A g \in DOMAIN grads :
                  grads[g].scale[1] * MiniBatchSize = Len(grads[g].rows) * grads[g].scale[2]
    /\ \A s \in Ranks : Len(rank[s].left) = Len(rank[r].left)
                          => rank[s].steps = rank[r].steps

\* Every call returns: no rank waits for ever for the others.
CallsReturn == <>(pc = "done")
=============================================================================
