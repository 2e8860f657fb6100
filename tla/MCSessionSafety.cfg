SPECIFICATION FairSpec
CONSTANTS
    Sessions = {s1, s2}
    Players = {p1}
    None = None
    LifecycleCapacity = 2
    SaveCapacity = 1
    MaxValue = 2
INVARIANTS
    TypeOK
    ActiveOwnsEntity
    DirtyIsRegistered
    OfflineIsSaved
    
CHECK_DEADLOCK FALSE
PROPERTIES
    GoneBecomesInactive
