-------------------------- MODULE MCAgentRegistry --------------------------
\* Model-checking instance of AgentRegistry.
EXTENDS AgentRegistry

CONSTANTS d1, d2, r1, start, stop

Daemons == {d1, d2}
Reporters == {r1}
Commands == {start, stop}
=============================================================================
