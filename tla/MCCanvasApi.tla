---------------------------- MODULE MCCanvasApi ----------------------------
(* One peer has a manifest, which fills the buffers of a connection, the     *)
(* other a block that is too large for a message; one call for each.         *)
EXTENDS CanvasApi

CONSTANTS p1, p2, f1, f2, list, film

Holdings == [p \in Peers |-> IF p = p1 THEN {list} ELSE {film}]
Asking   == [f \in Calls |-> IF f = f1 THEN {film} ELSE {list}]
=============================================================================
