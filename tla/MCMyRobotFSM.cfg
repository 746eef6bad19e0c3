SPECIFICATION FairSpec
CONSTANTS
    Keyboard <- SomeKeys
    Gamepad <- SomeButtons
    GetUpFrames = 2
    GetDownFrames = 2
    MaxEpisodeLength = 2
INVARIANTS
    TypeOK
    PolicyGate
    PolicyOnlyStanding
PROPERTY
    StatesEnd
