SPECIFICATION Spec
CONSTANTS
    items = items
    Callers = {c1, c2, c3}
    Collections = {items}
    MaxSchema = 2
    MaxPublished = 3
    Ops <- BindAndRefresh
CHECK_DEADLOCK FALSE
INVARIANT BoundSchemaMatchesDeclared
