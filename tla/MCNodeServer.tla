---------------------------- MODULE MCNodeServer ----------------------------
EXTENDS NodeServer
=============================================================================
