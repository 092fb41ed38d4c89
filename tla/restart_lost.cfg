\* One failure between the write of the Secret and the restart.
SPECIFICATION FairSpec
CONSTANTS
    Keys = {"k1"}
    Targets = {"t1"}
    Specs <- WebhookSpec
    CreationPolicy = "Owner"
    SyncInterval = 2
    PollInterval = 10
    DefaultSyncInterval = 120
    StoreRetry = 4
    VersionsReadable = TRUE
    ForeignSecret = FALSE
    MayDelete = FALSE
    NowSec = 3
    MaxVersion = 2
    MaxGen = 1
    MaxFaults = 1
    MaxEdits = 0
    MaxEvents = 0
PROPERTY PodsFollow
