--------------------------- MODULE MCNodeIdentity ---------------------------
(* Values of the constants of NodeIdentity for TLC.                          *)
EXTENDS NodeIdentity

CONSTANTS server, command
=============================================================================
