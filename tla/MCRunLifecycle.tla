--------------------------- MODULE MCRunLifecycle ---------------------------
(***************************************************************************)
(* RunLifecycle for TLC: an agent that exists, with one run triggered over *)
(* REST, and one that the builder creates together with its first run. The *)
(* two runs meet in the runtime's subscription.                            *)
(***************************************************************************)
EXTENDS RunLifecycle

CONSTANTS a1, a2, r1, r2

MCAgents == {a1, a2}
MCInitialAgents == {a1}
MCRuns == {r1, r2}
MCAgentOf == [r \in MCRuns |-> IF r = r2 THEN a2 ELSE a1]
=============================================================================
