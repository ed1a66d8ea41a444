SPECIFICATION FairSpec
CONSTANTS
    MaxSlot = 2
    ShardMaps <- MCShardMaps
CHECK_DEADLOCK FALSE
INVARIANTS
    TypeOK
    AcceptedIsPartition
    RejectedIsNot
PROPERTIES
    LookupStable
    Decides
