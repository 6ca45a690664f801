---------------------------- MODULE MCSGLangRollout ----------------------------
(* Small instances of SGLangRollout for TLC.                               *)
EXTENDS SGLangRolloutProperties

BothTools == {"search", "sandbox"}
CallPlaces == Rows \X (1..MaxCalls) \X Tools
PoolOfCall == [c \in CallPlaces |-> c[3]]
=============================================================================
