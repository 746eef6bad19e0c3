SPECIFICATION Spec
CONSTANTS
    Keyboard <- SomeKeys
    MaxX = 2
    Programs <- AllPrograms
    MaxEvents = 1
    BothHands = FALSE
    Robots <- AllRobots
    MaxPasses = 7
    MaxAngle = 3
    MaxAction = 2
    Delays <- TwoDelays
    HistoryLength = 2
    MaxBacklog = 2
    MaxMessages = 2
    LinkPolicies <- TwoPolicies
    MaxActivations = 2
    MaxFrames = 5
    MaxEntries = 2
    Ros <- BothRos
    MaxRequests = 2
    mjlab_motion_frames = 2
    MaxTableLoads = 3
    HalfTurn = 3
    Files <- SomeFiles
    Values <- SomeValues
    Names <- SomeNames
    Outputs <- SomeOutputs
    Waists <- SomeWaists
    MotionFrames <- SomeMotionFrames
\* The messages, activations and entries come to an end.
CHECK_DEADLOCK FALSE
INVARIANTS
    ModelInputSafe
    OutputSafe
    ActionDelaySafe
    GazeboSafe
    RealLinkSafe
    MotionLoaderSafe
    MjlabMotionSafe
    OrientationSafe
    HeadingHoldSafe
    InferenceSafe
PROPERTIES
    OperatorInputSafe
    GamepadSafe
    JointControllerSafe
