-------------------------- MODULE ActivationOffload --------------------------
(***************************************************************************)
(* Offloading of activations (activation_offload.py): a forward pass over  *)
(* the layers saves tensors by groups, one for a layer; groups are copied  *)
(* to the host while the next layer computes, dropped from the GPU, and    *)
(* copied back during the backward pass, one layer ahead.                  *)
(*                                                                         *)
(* The tensors of a group are saved, copied and read together, each of     *)
(* them once; a group may have none, all of its tensors being parameters.  *)
(* Copies and kernels run asynchronously on three streams.  What matters   *)
(* is what is known to come before them: a stream knows the events that    *)
(* precede its next one, and wait_stream hands on what the other knows.    *)
(***************************************************************************)
EXTENDS Integers, FiniteSets

CONSTANTS
  NumLayers,  \* FSDP layers of the model
  Passes      \* forward and backward passes, one for each micro-batch

\* enable_activation_offloading leaves a model with fewer layers alone.
ASSUME OffloadAssumption == NumLayers \in Nat /\ NumLayers >= 3

Groups == 0..(NumLayers - 1)

\* The last group stays.
NumOffloadGroup == NumLayers - 1

\* The group at whose commit the i-th offloaded group must be gone.
LayerWindow(i) ==
  LET rest == NumLayers % NumOffloadGroup
  IN  (NumLayers \div NumOffloadGroup) * (i + 1) - 1 + (IF i < rest THEN i + 1 ELSE rest)

VARIABLES
  pass,                   \* number of the pass
  phase,                  \* what comes next: "compute" or "commit" in the
                          \* forward pass, "return" or "read" in the backward
  current_group,
  offloaded_group_count,
  where,                  \* tensor_tag_to_state by groups: nothing, "tensor"
                          \* on the GPU, or "key" of a copy on the host
  buf,                    \* tensor_tag_to_buf by groups: holds the tensors
  mapping,                \* groups in group_offload_mapping
  knows,                  \* by streams: the events before the next one
  before,                 \* by events: the events before it
  broken                  \* an assertion or a lookup has failed

window == <<current_group, offloaded_group_count>>
streams == <<knows, before>>
offload_vars == <<pass, phase, window, where, buf, mapping, streams, broken>>

Streams == {"compute", "d2h", "h2d"}

OffloadInit ==
  /\ pass = 1 /\ phase = "compute"
  /\ current_group = 0 /\ offloaded_group_count = 0
  /\ where = [g \in Groups |-> "none"]
  /\ buf = [g \in Groups |-> FALSE]
  /\ mapping = {}
  /\ knows = [s \in Streams |-> {}]
  /\ before = <<>>
  /\ broken = FALSE

\* Events in their order, each a stream and a name, on top of what is known.
Event(name, g) == <<name, pass, g>>

Put(k, stream, e) == [k EXCEPT ![stream] = @ \cup {e}]
Noted(b, k, stream, e) == [x \in DOMAIN b \cup {e} |-> IF x = e THEN k[stream] ELSE b[x]]

\* s.wait_stream(t)
Wait(k, s, t) == [k EXCEPT ![s] = @ \cup k[t]]

BothWays(k, s) == Wait(Wait(k, s, "compute"), "compute", s)

-----------------------------------------------------------------------------
(* The forward pass.                                                       *)

\* A layer runs, and its tensors are saved.
Compute ==
  /\ phase = "compute" /\ ~broken /\ pass <= Passes
  /\ broken' = (where[current_group] # "none")
  /\ \E saves \in BOOLEAN :
       /\ where' = IF saves THEN [where EXCEPT ![current_group] = "tensor"] ELSE where
       /\ buf' = [buf EXCEPT ![current_group] = saves /\ current_group < NumOffloadGroup]
  /\ knows' = Put(knows, "compute", Event("computed", current_group))
  /\ before' = Noted(before, knows, "compute", Event("computed", current_group))
  /\ phase' = "commit"
  /\ UNCHANGED <<pass, window, mapping>>

\* Whether the group whose turn it is must be gone at this commit.
Gone_Early == offloaded_group_count = current_group

Gone == LayerWindow(offloaded_group_count) = current_group

\* The groups whose copies are begun: the first at the first commit, every
\* other one when the one before it is gone.
OffloadedAtCommit ==
  (IF current_group = 0 THEN {0} ELSE {}) \cup
  (IF Gone /\ offloaded_group_count < NumOffloadGroup - 1
   THEN {offloaded_group_count + 1} ELSE {})

SyncedAtCommit_NoWait(k) == Wait(k, "d2h", "compute")

\* Before a group is dropped, both streams wait for each other.
SyncedAtCommit(k) == IF Gone THEN BothWays(k, "d2h")
             ELSE IF current_group = 0 THEN Wait(k, "d2h", "compute") ELSE k

CommitForward ==
  /\ phase = "commit" /\ ~broken
  /\ broken' = \/ offloaded_group_count >= NumOffloadGroup
               \/ \E g \in OffloadedAtCommit : where[g] = "key"
  /\ where' = [g \in Groups |-> IF g \in OffloadedAtCommit /\ where[g] = "tensor" THEN "key" ELSE where[g]]
  /\ mapping' = mapping \cup OffloadedAtCommit
  /\ buf' = [g \in Groups |-> buf[g] /\ ~(Gone /\ g = offloaded_group_count)]
  /\ LET k == SyncedAtCommit(knows)
         copies == {Event("copied", g) : g \in OffloadedAtCommit}
         freed  == IF Gone THEN {Event("freed", offloaded_group_count)} ELSE {}
     IN  /\ knows' = [k EXCEPT !["d2h"] = @ \cup copies, !["compute"] = @ \cup freed]
         /\ before' = [e \in DOMAIN before \cup copies \cup freed |->
                         IF e \in copies THEN k["d2h"]
                         ELSE IF e \in freed THEN k["compute"] ELSE before[e]]
  /\ offloaded_group_count' = IF Gone THEN offloaded_group_count + 1 ELSE offloaded_group_count
  /\ current_group' = current_group + 1
  /\ phase' = IF current_group + 1 < NumLayers THEN "compute" ELSE "return"
  /\ UNCHANGED pass

-----------------------------------------------------------------------------
(* The backward pass.                                                      *)

\* Whether the next group is copied back before this one is read.
Due == LayerWindow(offloaded_group_count - 1) = current_group - 1

Counted == IF offloaded_group_count > 1 THEN offloaded_group_count - 1
           ELSE offloaded_group_count

\* The gradient of a layer's output arrives.
CommitBackward ==
  /\ phase = "return" /\ ~broken
  /\ LET g    == offloaded_group_count - 1
         k    == IF Due THEN BothWays(knows, "h2d") ELSE knows
         back == Event("back", g)
         done == IF Due THEN Put(k, "h2d", back) ELSE k
     IN  /\ broken' = \/ g < 0
                      \/ Due /\ (g >= NumOffloadGroup \/ g \notin mapping)
         /\ where' = IF Due /\ where[g] = "key" THEN [where EXCEPT ![g] = "tensor"] ELSE where
         /\ mapping' = IF Due THEN mapping \ {g} ELSE mapping
         /\ before' = IF Due THEN Noted(before, k, "h2d", back) ELSE before
         /\ knows' = IF current_group = 1 THEN Wait(done, "compute", "h2d") ELSE done
  /\ offloaded_group_count' =
       IF current_group = 1 THEN 0 ELSE IF Due THEN Counted ELSE offloaded_group_count
  /\ current_group' = current_group - 1
  /\ phase' = "read"
  /\ UNCHANGED <<pass, buf>>

\* The layer's tensors are read, and let go.
Read ==
  /\ phase = "read" /\ ~broken
  /\ broken' = (where[current_group] = "key")
  /\ where' = [where EXCEPT ![current_group] = "none"]
  /\ buf' = [buf EXCEPT ![current_group] = FALSE]
  /\ knows' = Put(knows, "compute", Event("read", current_group))
  /\ before' = Noted(before, knows, "compute", Event("read", current_group))
  /\ IF current_group > 0
     THEN phase' = "return" /\ UNCHANGED pass
     ELSE phase' = "compute" /\ pass' = pass + 1
  /\ UNCHANGED <<window, mapping>>

OffloadNext == Compute \/ CommitForward \/ CommitBackward \/ Read

OffloadSpec == OffloadInit /\ [][OffloadNext]_offload_vars
=============================================================================
