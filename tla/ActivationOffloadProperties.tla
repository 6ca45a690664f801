---------------------- MODULE ActivationOffloadProperties ----------------------
(* What the offloading of activations promises.                            *)
EXTENDS ActivationOffload

OnGpu(g) == where[g] = "tensor" \/ buf[g]

\* "there are at most two activation groups in GPU memory": at every point of
\* both passes, and never at the price of a tensor that is saved twice, copied
\* or copied back out of turn, or still on the host when its layer reads it.
AtMostTwoGroups ==
  /\ ~broken
  /\ \E g \in Groups : \A h \in Groups : OnGpu(h) => h \in {g, g + 1}

Before(e, f) == f \in DOMAIN before => e \in before[f]

\* Nothing reads a tensor before it is there, or writes over one that is still
\* being read, though three streams run on their own: a copy to the host comes
\* after its layer has run, the memory is let go after the copy, a copy back
\* comes after the copy to the host and after the readings of the groups whose
\* memory it may get, and a layer reads its tensors after they are back.
StreamsKeepOrder ==
  \A g \in Groups :
    /\ g < NumOffloadGroup =>
         /\ Before(Event("computed", g), Event("copied", g))
         /\ Before(Event("copied", g), Event("freed", g))
         /\ Before(Event("copied", g), Event("back", g))
         /\ Before(Event("back", g), Event("read", g))
    /\ \A h \in Groups : h > g + 1 => Before(Event("read", h), Event("back", g))
=============================================================================
