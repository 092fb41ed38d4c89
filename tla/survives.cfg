\* Every policy, a failure or crash at any point, an edit of the Secret, a deletion.
SPECIFICATION FairSpec
CONSTANTS
    Keys = {"k1"}
    Targets = {"t1"}
    Specs <- EverySpec
    CreationPolicy = "Owner"
    SyncInterval = 2
    PollInterval = 10
    DefaultSyncInterval = 120
    StoreRetry = 4
    VersionsReadable = FALSE
    ForeignSecret = TRUE
    MayDelete = TRUE
    NowSec = 3
    MaxVersion = 2
    MaxGen = 1
    MaxFaults = 1
    MaxEdits = 1
    MaxEvents = 0
INVARIANTS TypeOK NeverAbandoned
PROPERTIES ValuesConverge SelfHeals
