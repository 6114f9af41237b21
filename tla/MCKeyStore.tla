----------------------------- MODULE MCKeyStore -----------------------------
(* Values of the constants of KeyStore for TLC.                              *)
EXTENDS KeyStore

TTLs == {3}
=============================================================================
