------------------------- MODULE MCWorkerGroupCalls -------------------------
(* Small worker groups for TLC.                                            *)
EXTENDS WorkerGroupCallsProperties
=============================================================================
