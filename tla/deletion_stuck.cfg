\* A resource is deleted.
SPECIFICATION FairSpec
CONSTANTS
    Keys = {"k1"}
    Targets = {}
    Specs <- WebhookSpec
    CreationPolicy = "Owner"
    SyncInterval = 2
    PollInterval = 10
    DefaultSyncInterval = 120
    StoreRetry = 4
    VersionsReadable = TRUE
    ForeignSecret = FALSE
    MayDelete = TRUE
    NowSec = 3
    MaxVersion = 2
    MaxGen = 1
    MaxFaults = 0
    MaxEdits = 0
    MaxEvents = 0
PROPERTY DeletionCompletes
