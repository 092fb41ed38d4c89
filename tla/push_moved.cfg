\* An entry for a whole item becomes one for a property of it; no failures.
SPECIFICATION Spec
CONSTANTS
    Whole = "whole"
    Sources = {"s"}
    SourceKeys <- OneKey
    Stores = {"st1"}
    Items = {"a"}
    Names = {"k", "x", "o"}
    Specs <- WholeThenProperty
    InitialSpecs <- WholeOnly
    Other = "o"
    MaxVersion = 1
    MaxChanges = 1
    MaxFaults = 0
INVARIANTS ReadyMeansPushed
CHECK_DEADLOCK FALSE
