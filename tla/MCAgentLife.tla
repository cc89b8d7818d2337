---------------------------- MODULE MCAgentLife ----------------------------
(* Two requests for one account, and two agents.                              *)
EXTENDS AgentLife

CONSTANTS q1, q2, a1, a2

MCRequests == {q1, q2}
MCAgents == {a1, a2}
=============================================================================
