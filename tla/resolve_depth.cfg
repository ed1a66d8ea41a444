SPECIFICATION Spec
CONSTANTS
    Documents = {d1, d2, d3}
    MaxDepth = 2
CHECK_DEADLOCK FALSE
INVARIANT ResolvesToDepth
