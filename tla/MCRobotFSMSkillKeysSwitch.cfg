SPECIFICATION FairSpec
CONSTANTS
    Robots <- OnlyG1
    Frames = 1
    MotionSteps = 1
    MaxBacklog = 1
INVARIANTS
    SkillKeysSwitch
