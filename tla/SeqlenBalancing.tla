-------------------------- MODULE SeqlenBalancing --------------------------
(***************************************************************************)
(* verl/utils/seqlen_balancing.py: the largest differencing method that    *)
(* spreads rows over k partitions with similar numbers of tokens.          *)
(*                                                                         *)
(* lens gives the token count of every row.  A bucket (class Set) is the   *)
(* sequence of rows put in it; a differencing state (class State) is a     *)
(* sequence of k buckets, heaviest first; the heap is a set of states,     *)
(* which no two states share a row of.                                     *)
(***************************************************************************)
EXTENDS DataProto, Integers, FiniteSets

\* sorted() of Python, which is stable: the place of an element is the number
\* of those that do not come behind it.
Sorted(s, Before(_, _)) ==
  LET Place(i) == Cardinality({j \in DOMAIN s :
                    Before(s[j], s[i]) \/ (j <= i /\ ~Before(s[i], s[j]))})
  IN  [k \in DOMAIN s |-> s[CHOOSE i \in DOMAIN s : Place(i) = k]]

Tokens(bucket, lens) == FoldLeft(+, 0, Reorder(lens, bucket))

\* Set.__lt__: tokens, then rows, then the rows themselves, which two
\* buckets that are not empty differ in at once.
Lighter(b, c, lens) ==
  LET tb == Tokens(b, lens) tc == Tokens(c, lens)
  IN  \/ tb < tc
      \/ tb = tc /\ Len(b) < Len(c)
      \/ tb = tc /\ Len(b) = Len(c) /\ b # << >> /\ b[1] < c[1]

HeaviestFirst(buckets, lens) ==
  Sorted(buckets, LAMBDA b, c : Lighter(c, b, lens))

Spread(state, lens) == Tokens(state[1], lens) - Tokens(state[Len(state)], lens)

\* State.__lt__
PoppedBefore(s, t, lens) ==
  \/ Spread(s, lens) > Spread(t, lens)
  \/ /\ Spread(s, lens) = Spread(t, lens)
     /\ Lighter(t[1], s[1], lens)

\* sorted([(seqlen, i) ...])
ShortestFirst(lens) ==
  Sorted([i \in DOMAIN lens |-> i],
         LAMBDA i, j : lens[i] < lens[j] \/ (lens[i] = lens[j] /\ i < j))

NewState(rows, k, lens) ==
  HeaviestFirst([i \in 1..k |-> IF i <= Len(rows) THEN <<rows[i]>> ELSE << >>], lens)

\* With equal sizes every state starts with one row in each bucket, and keeps
\* as many rows in each; without, it starts with one row.
InitialStates(lens, k, equalSize) ==
  {NewState(group, k, lens) :
     group \in ToSet(SplitBySize(ShortestFirst(lens), IF equalSize THEN k ELSE 1))}

MergeStates_HeaviestTogether(s, t, lens) ==
  HeaviestFirst([i \in DOMAIN s |-> s[i] \o t[i]], lens)

MergeStates_ForgetsOther(s, t, lens) ==
  HeaviestFirst([i \in DOMAIN s |-> IF i = 1 THEN s[i] ELSE s[i] \o t[Len(t) + 1 - i]], lens)

\* State.merge: the heaviest bucket of one with the lightest of the other.
MergeStates(s, t, lens) ==
  HeaviestFirst([i \in DOMAIN s |-> s[i] \o t[Len(t) + 1 - i]], lens)

IsNextPopped(s, heap, lens) == \A t \in heap \ {s} : PoppedBefore(s, t, lens)

\* get_partitions of the last state, as _check_and_sort_partitions sorts them
Partitions(state) == [i \in DOMAIN state |-> Sorted(state[i], <)]

CeilDiv(a, b) == (a + b - 1) \div b

ReverseIdx_Forward(indices) == indices

\* get_reverse_idx
ReverseIdx(indices) ==
  [j \in DOMAIN indices |-> CHOOSE i \in DOMAIN indices : indices[i] = j]

=============================================================================
