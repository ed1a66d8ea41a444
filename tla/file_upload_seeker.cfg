SPECIFICATION Spec
CONSTANTS
    Size = 2
    WmRetries = 1
CHECK_DEADLOCK FALSE
INVARIANT RetriesResendSameBytes
