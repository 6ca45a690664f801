--------------------------- MODULE MCGroupAdvantages ---------------------------
(* A small instance of GroupAdvantages for TLC.                            *)
EXTENDS GroupAdvantagesProperties

\* A chain, and a pair that is similar in one order only.
Chain == {<<"a", "a">>, <<"b", "b">>, <<"c", "c">>, <<"a", "b">>, <<"b", "a">>, <<"b", "c">>}
=============================================================================
