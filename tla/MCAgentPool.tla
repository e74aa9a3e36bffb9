----------------------------- MODULE MCAgentPool -----------------------------
(* Instances of AgentPool for TLC.                                         *)
EXTENDS AgentPool, TLC

CONSTANTS a1, a2, c1, c2

Symmetry == Permutations(Agent) \cup Permutations(Client)
=============================================================================
