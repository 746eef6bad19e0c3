SPECIFICATION Spec
INVARIANT
    MjlabTargetIsOffset
