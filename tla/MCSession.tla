------------------------------ MODULE MCSession ------------------------------
(* Values of the constants of Session for TLC: a message that fits easily,   *)
(* one that just fits and one that does not.                                 *)
EXTENDS Session

CONSTANTS small, full, huge

Texts == {small, full, huge}
Sizes == [m \in Texts |-> CASE m = small -> 1 [] m = full -> MaxMessage [] m = huge -> MaxMessage + 1]
=============================================================================
