\* Does a polling policy end up in sync after a failure, an edit and an event?
SPECIFICATION FairSpec
CONSTANTS
    Keys = {"k1"}
    Targets = {}
    Specs <- WebhookSpec
    CreationPolicy = "Owner"
    SyncInterval = 2
    PollInterval = 10
    DefaultSyncInterval = 120
    StoreRetry = 4
    VersionsReadable = TRUE
    ForeignSecret = FALSE
    MayDelete = FALSE
    NowSec = 3
    MaxVersion = 2
    MaxGen = 1
    MaxFaults = 1
    MaxEdits = 1
    MaxEvents = 1
PROPERTY Converges
