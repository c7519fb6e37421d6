---------------------------- MODULE MCAgentUpdate ----------------------------
EXTENDS AgentUpdate
=============================================================================
