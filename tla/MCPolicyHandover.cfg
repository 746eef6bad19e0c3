SPECIFICATION FairSpec
CONSTANTS
    Locomotion = "robot_lab_real"
    Mjlab = "mjlab"
    Policy = {"robot_lab_real", "mjlab"}
    NoModel = "null"
    BlendFrames = 2
    MaxEpisodeLength = 2
    MaxQueue = 3
\* The process ends when an exception leaves the policy thread.
CHECK_DEADLOCK FALSE
INVARIANTS
    TypeOK
    AtMostOneStale
    NeighbouringFrames
    FreshFramesAreOwn
    CountsOwnSteps
PROPERTIES
    NoSwapDuringInference
    DirectAfterBlend
    EntriesEnd
