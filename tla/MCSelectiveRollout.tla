------------------------- MODULE MCSelectiveRollout --------------------------
(***************************************************************************)
(* Small instances of SelectiveRollout for TLC.                            *)
(***************************************************************************)
EXTENDS SelectiveRolloutProperties

(* The response, gate and memo classes explored: all of them where a          *)
(* response can be a call, what tells them apart where gates decide.          *)
ResponsesByMode ==
  [dt_action |-> Responses, selective_gate |-> {"command", "deep_think"}]
MemosByMode ==
  [dt_action |-> Memos, selective_gate |-> {"memo"}]
GateTrueFalse == {"true", "false"}

=============================================================================
