---------------------------- MODULE MCTokenRows ----------------------------
(* A small instance of TokenRows for TLC.                                  *)
EXTENDS TokenRowsProperties

Setting(truncation, tp, sp, rmpad) ==
  [truncation |-> truncation, tp |-> tp, sp |-> sp, use_remove_padding |-> rmpad]

\* Every way to cut with packed rows on one rank, and the other layouts of
\* ranks and rows with the cut that the scripts take.
MCSettings ==
  {Setting(t, 1, 1, TRUE) : t \in {"left", "right", "middle", "error"}}
  \cup {Setting("right", 1, 1, FALSE), Setting("right", 1, 2, TRUE), Setting("middle", 2, 2, TRUE)}
=============================================================================
