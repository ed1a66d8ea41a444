SPECIFICATION MCSpec
CONSTANTS
    Callers = {c1, c2}
    Other = Other
    MaxOther = 2
    VerifyDelay = "positive"
    films = films
    live = live
    copy = copy
    Clients = {live, copy}
    Collections = {films}
    SchemaVersions = {1, 2}
    Descriptors <- MCDescriptors
    Contents = {1, 2}
    Mixed = Mixed
    Calls = {1, 2}
    Rival = Rival
    MaxRival = 2
CHECK_DEADLOCK FALSE
INVARIANTS
    TypeOK
    NoLostUpdate
    MismatchMeansTwoRaces
    CreateSuccessIsReal
    TypedTypeOK
    EditsLandWhole
    MarkersAgree
    StaleMeansRace
PROPERTY Termination
