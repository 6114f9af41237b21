----------------------------- MODULE MCMeshHost -----------------------------
(* Instances of MeshHost for TLC. *)
EXTENDS MeshHost, TLC

CONSTANTS peer1, peer2, k1, k2

OnePeer == [k \in {k1, k2} |-> peer1]
=============================================================================
