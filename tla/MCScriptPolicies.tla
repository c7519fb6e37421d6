--------------------------- MODULE MCScriptPolicies ---------------------------
EXTENDS ScriptPolicies, TLC

CONSTANTS j1, q1, d1, k1
=============================================================================
