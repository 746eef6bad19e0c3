------------------------- MODULE MCPolicyHandover -------------------------
EXTENDS PolicyHandover
=============================================================================
