SPECIFICATION Spec
CONSTANTS
    Callers = {c1, c2}
    Other = Other
    MaxOther = 1
    VerifyDelay = "negative"
CHECK_DEADLOCK FALSE
INVARIANT NegativeDisablesVerify
