\* One PushSecret, six specs, two stores, another writer.
SPECIFICATION FairSpec
CONSTANTS
    Whole = "whole"
    Sources = {"s", "s2"}
    SourceKeys <- OneKey
    Stores = {"st1", "st2"}
    Items = {"a", "k", "m"}
    Names = {"k", "m", "x", "y", "o"}
    Specs <- AllSpecs
    InitialSpecs <- AllSpecs
    Other = "o"
    MaxVersion = 2
    MaxChanges = 2
    MaxFaults = 1
INVARIANTS TypeOK  ReadyMeansPushed
PROPERTIES OthersKept PushedEventually
CHECK_DEADLOCK FALSE
