\* A change of the store and of its CA, an outage, a failure or a crash.
SPECIFICATION FairSpec
CONSTANTS
    Specs <- StoreSpecs
    RequeueInterval = 2
    MaxGen = 2
    MaxCA = 2
    MaxFaults = 1
INVARIANTS TypeOK ClientMatchesStore
PROPERTIES ReadinessSettles TrustRenewed
