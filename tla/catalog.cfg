SPECIFICATION MCSpec
CONSTANTS
    items = items
    Callers = {1, 2, 3}
    Collections = {items}
    MaxSchema = 2
    MaxPublished = 3
    Ops <- AllCalls
CHECK_DEADLOCK FALSE
INVARIANTS
    TypeOK
    EnsureVisibleUnlessRaced
    BoundUnlessRaced
PROPERTIES
    NeverNilAgain
    Termination
