-------------------------- MODULE MCInferenceEngine --------------------------
(* An instance of InferenceEngine for TLC: two models, loaded one each. *)
EXTENDS InferenceEngine, TLC

CONSTANTS c1, c2, c3, l1, l2, small, large

TwoFiles == (l1 :> small) @@ (l2 :> large)
=============================================================================
