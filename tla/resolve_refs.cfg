SPECIFICATION Spec
CONSTANTS
    Documents = {d1, d2, d3}
    MaxDepth = 3
CHECK_DEADLOCK FALSE
INVARIANTS
    TypeOK
    ReadOnce
    DepthBounded
    CompleteWhenDeep
