SPECIFICATION FairSpec
CONSTANTS
    Loop <- TwoLoops
    Order <- DestructorOrder
    MaxLoads = 3
    MaxReloads = 1
    Robots <- UnitreeRobots
    MaxFailures = 4
\* The program ends.
CHECK_DEADLOCK FALSE
INVARIANTS
    LoopFuncSafe
    ViewerSafe
    MotionSwitchSafe
PROPERTY
    ThreadsEnd
