\* Two ExternalSecrets that may name the same target.
SPECIFICATION FairSpec
CONSTANTS
    Es = {"e1", "e2"}
    Targets = {"t1", "t2"}
    Specs <- AllSpecs
    InitialSpecs <- FirstSpecs
    NoOne = "none"
    ReadOnMismatch = FALSE
    MaxVersion = 2
    MaxChanges = 1
    MaxFaults = 1
INVARIANTS TypeOK
PROPERTIES NoTakeover 
CHECK_DEADLOCK FALSE
