--------------------------- MODULE MCBenchmarkTrial ---------------------------
(* A trial whose agent has a user of its own, while the scripts and the        *)
(* verifier run as the container's.                                            *)
EXTENDS BenchmarkTrial

CONSTANTS container, agentUser

TwoHomes == {container, agentUser}
AgentApart == [r \in Roles |-> IF r = "agent" THEN agentUser ELSE container]
EveryKind == {"abort", "interrupt"}
=============================================================================
