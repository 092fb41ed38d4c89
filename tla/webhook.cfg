\* Two requests at a time, two resources, a change of a resource and a failure.
SPECIFICATION FairSpec
CONSTANTS
    Secrets = {"s1"}
    Dynamics = {"d1"}
    Items = {"a", "b"}
    Handlers = {"h1", "h2"}
    InitialSpec <- SharedItem
    MaxVersion = 3
    MaxChanges = 2
    MaxFaults = 1
INVARIANTS TypeOK 
 
CHECK_DEADLOCK FALSE
