----------------------------- MODULE MCRobotFSM -----------------------------
EXTENDS RobotFSM

\* One of each kind: with and without a crouch, with and without a policy
\* directory, with one skill and with four.
OneOfAKind == {"a1", "tita", "gr1t1", "g1"}
OnlyG1 == {"g1"}
=============================================================================
