SPECIFICATION Spec
INVARIANTS
    RunsItsOwnConfig
    RatesAgree
