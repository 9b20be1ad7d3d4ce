\* One setup, no fault, one edit of the operator.
SPECIFICATION SetupSpec
CONSTANTS
    Setups = {s1}
    OwnKeys = {k1, k2}
    Mentioning = {k2}
    MaxEdits = 1
    MaxFaults = 0
CHECK_DEADLOCK FALSE
INVARIANT
    OperatorKeysSurvive
