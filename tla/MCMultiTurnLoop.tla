--------------------------- MODULE MCMultiTurnLoop ----------------------------
(***************************************************************************)
(* Instances of the rollout entry for TLC.                                 *)
(***************************************************************************)
EXTENDS MultiTurnLoopProperties

TwoTasks == {"pick", "look"}

=============================================================================
