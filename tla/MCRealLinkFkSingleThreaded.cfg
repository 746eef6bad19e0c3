SPECIFICATION Spec
CONSTANTS
    MaxMessages = 1
    Policies <- TwoPolicies
\* The messages come to an end.
CHECK_DEADLOCK FALSE
INVARIANT
    FkSingleThreaded
