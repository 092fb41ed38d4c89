-------------------------- MODULE MCExternalSecret --------------------------
(***************************************************************************)
(* Small instances of ExternalSecret for TLC.                              *)
(***************************************************************************)
EXTENDS ExternalSecret

Owner ==
    [target |-> "t1", creation |-> "Owner", deletion |-> "Delete", refresh |-> "Periodic",
     interval |-> TRUE]
Kept == [Owner EXCEPT !.deletion = "Retain"]
Renamed == [Owner EXCEPT !.target = "t2", !.deletion = "Merge"]
Merge == [Kept EXCEPT !.creation = "Merge"]
Orphan == [Owner EXCEPT !.creation = "Orphan", !.refresh = "OnChange"]
Once == [Kept EXCEPT !.creation = "None", !.refresh = "CreatedOnce", !.interval = FALSE]

AllSpecs == {Owner, Kept, Renamed, Merge, Orphan, Once}
FirstSpecs == [e \in Es |-> IF e = "e1" THEN {Owner} ELSE {Kept}]
=============================================================================
