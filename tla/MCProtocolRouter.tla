--------------------------- MODULE MCProtocolRouter ---------------------------
(* Instances of ProtocolRouter for TLC: two nodes that call each other. *)
EXTENDS ProtocolRouter, TLC

CONSTANTS a, b, c1, c2, t

TwoCalls     == {c1, c2}
SameCaller   == (c1 :> a) @@ (c2 :> a)
TwoTasks     == [c \in TwoCalls |-> t]
=============================================================================
