\* A change of the spec, of the items and a webhook event at any point of a sync.
SPECIFICATION Spec
CONSTANTS
    Keys = {"k1", "k2"}
    Targets = {"t1"}
    Specs <- WebhookSpecs
    CreationPolicy = "Owner"
    SyncInterval = 2
    PollInterval = 10
    DefaultSyncInterval = 120
    StoreRetry = 4
    VersionsReadable = TRUE
    ForeignSecret = FALSE
    MayDelete = FALSE
    NowSec = 3
    MaxVersion = 2
    MaxGen = 2
    MaxFaults = 0
    MaxEdits = 0
    MaxEvents = 1
INVARIANTS SyncedMeansApplied  RolloutFollows
PROPERTIES ImplementsSync
