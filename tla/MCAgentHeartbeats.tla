------------------------ MODULE MCAgentHeartbeats --------------------------
\* AgentHeartbeats for TLC: two agents, two states of their tasks, two sweeps.
EXTENDS AgentHeartbeats
CONSTANTS a1, a2, quiet, busy
=============================================================================
