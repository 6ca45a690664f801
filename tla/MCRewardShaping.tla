--------------------------- MODULE MCRewardShaping ----------------------------
(***************************************************************************)
(* Instances of the reward pipeline for TLC.                               *)
(***************************************************************************)
EXTENDS RewardShapingProperties

=============================================================================
