SPECIFICATION Spec
CONSTANTS
    NumOfDofs = 4
    RobotLabOrder <- FourJointsOfRobotLab
    MjlabOrder <- FourJointsOfMjlab
INVARIANTS
    PosesReach
    
