--------------------------- MODULE MCAgentRuntime ---------------------------
EXTENDS AgentRuntime

CONSTANTS f1, f2, a, r1, r2, c1

\* The agent subscribes to its name and to "broadcast".
Capable == [n \in Names |-> {n, Broadcast}]

\* Two files define the same agent, in every version.
Shared == [g \in Files |-> [v \in 1..MaxTime |-> Names]]
=============================================================================
