------------------------------ MODULE RemoteCall ------------------------------
(***************************************************************************)
(* What ProtocolRouter.route_task promises its callers, whatever the mesh  *)
(* does: a call is issued or refused, the remote agent runs its task at    *)
(* most once, and a call that returns "ok" is one whose task was run.  A   *)
(* call may fail although its task was, or still will be, run.             *)
(***************************************************************************)
CONSTANTS Calls, Failures

VARIABLES phase, executed, result

vars == <<phase, executed, result>>

Init ==
  /\ phase = [c \in Calls |-> "idle"]
  /\ executed = {}
  /\ result = [c \in Calls |-> "none"]

Issue(c) ==
  /\ phase[c] = "idle"
  /\ phase' = [phase EXCEPT ![c] = "open"]
  /\ UNCHANGED <<executed, result>>

Refuse(c) ==
  /\ phase[c] = "idle"
  /\ \E r \in Failures : result' = [result EXCEPT ![c] = r]
  /\ phase' = [phase EXCEPT ![c] = "closed"]
  /\ UNCHANGED executed

Execute(c) ==
  /\ phase[c] # "idle"
  /\ c \notin executed
  /\ executed' = executed \cup {c}
  /\ UNCHANGED <<phase, result>>

Return(c) ==
  /\ phase[c] = "open"
  /\ \E r \in Failures \cup {"ok"} :
       /\ r = "ok" => c \in executed
       /\ result' = [result EXCEPT ![c] = r]
  /\ phase' = [phase EXCEPT ![c] = "closed"]
  /\ UNCHANGED executed

Next == \E c \in Calls : Issue(c) \/ Refuse(c) \/ Execute(c) \/ Return(c)

Spec == Init /\ [][Next]_vars
=============================================================================
