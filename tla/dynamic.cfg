\* A dynamic and a rotated item, a failure or crash at any point, an event, a
\* change of the spec and a deletion.
SPECIFICATION FairSpec
CONSTANTS
    Paths = {"db", "rot"}
    Dynamic = {"db"}
    Targets = {"t1"}
    Specs <- BothItems
    SyncInterval = 2
    DefaultPoll = 4
    PollInterval = 10
    DefaultSyncInterval = 120
    StoreRetry = 4
    NowSec = 3
    MaxVersion = 2
    MaxGen = 2
    MaxDisturbances = 2
INVARIANTS TypeOK OneLostPerFailure
PROPERTIES LeaseRenewed PodsCatchUp ImplementsSync
