SPECIFICATION FairSpec
CONSTANTS
    Robots <- OneOfAKind
    Frames = 2
    MotionSteps = 2
    MaxBacklog = 2
INVARIANTS
    PolicyIsReady
    StaleFramesFirst
PROPERTY
    StatesEnd
