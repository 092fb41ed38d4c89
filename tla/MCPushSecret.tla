---------------------------- MODULE MCPushSecret ----------------------------
(***************************************************************************)
(* Small instances of PushSecret for TLC.                                  *)
(***************************************************************************)
EXTENDS PushSecret

\* Two Secrets with one key each.
OneKey == [s \in Sources |-> IF s = "s" THEN {"k"} ELSE {"m"}]

EntryTo(item, prop) == [key |-> "k", item |-> item, prop |-> prop]

Named ==
    [named |-> TRUE, sources |-> {"s"}, data |-> {EntryTo("a", "x")}, dataTo |-> FALSE,
     policy |-> "Delete", ifNotExists |-> FALSE, interval |-> TRUE, stores |-> {"st1"}]

\* The property gets a copy, an entry names a key the Secret lacks, the key goes to an
\* item of its own in another store, the policies change, and the Secrets are selected by
\* their labels.
Renamed == [Named EXCEPT !.data = {EntryTo("a", "x"), EntryTo("a", "y")}]
Lacking == [Named EXCEPT !.data = @ \cup {[key |-> "m", item |-> "a", prop |-> "y"]}]
Moved == [Named EXCEPT !.data = {}, !.dataTo = TRUE, !.stores = {"st1", "st2"}]
Kept == [Named EXCEPT !.policy = "None", !.ifNotExists = TRUE, !.interval = FALSE]
Labelled ==
    [Named EXCEPT !.named = FALSE, !.sources = Sources, !.data = {}, !.dataTo = TRUE,
                  !.policy = "None"]

\* An entry for a whole item becomes one for a property of the item.
WholeItem == [Named EXCEPT !.data = {EntryTo("a", Whole)}]
WholeOnly == {WholeItem}
WholeThenProperty == {WholeItem, Named}

AllSpecs == {Named, Renamed, Lacking, Moved, Kept, Labelled}
=============================================================================
