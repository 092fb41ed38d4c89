\* One outage of the store under OnSpecChange.
SPECIFICATION FairSpec
CONSTANTS
    Keys = {"k1"}
    Targets = {}
    Specs <- SpecChangeSpec
    CreationPolicy = "Owner"
    SyncInterval = 2
    PollInterval = 10
    DefaultSyncInterval = 120
    StoreRetry = 4
    VersionsReadable = TRUE
    ForeignSecret = FALSE
    MayDelete = FALSE
    NowSec = 3
    MaxVersion = 2
    MaxGen = 1
    MaxFaults = 1
    MaxEdits = 0
    MaxEvents = 0
PROPERTY ReadyEventually
