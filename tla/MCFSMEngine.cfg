SPECIFICATION FairSpec
CONSTANTS
    State = {Passive, GetUp, GetDown, Policy}
    InitialState = Passive
    NotAState = NotAState
INVARIANTS
    TypeOK
    SettledOrPending
PROPERTIES
    LifecycleSafety
    PendingSwitchHappens
