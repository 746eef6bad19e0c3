---------------------------- MODULE MCJointOrder ----------------------------
(* Four joints stand for the 21: enough for the three orders to differ.     *)
EXTENDS JointOrder

FourJointsOfRobotLab == <<2, 3, 4, 1>>
FourJointsOfMjlab == <<3, 1, 2, 4>>
=============================================================================
