--------------------------- MODULE MCPolicyConfig ---------------------------
(* The configurations are the data: there is nothing to instantiate.        *)
EXTENDS PolicyConfig
=============================================================================
