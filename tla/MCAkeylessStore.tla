-------------------------- MODULE MCAkeylessStore --------------------------
(***************************************************************************)
(* Small instances of AkeylessStore for TLC: two good specs, one that the  *)
(* provider rejects, and one that does not admit the consumer's namespace. *)
(***************************************************************************)
EXTENDS AkeylessStore

Good == [ok |-> TRUE, url |-> "u1", allows |-> TRUE]
Moved == [Good EXCEPT !.url = "u2"]
Rejected == [Good EXCEPT !.ok = FALSE]
Closed == [Good EXCEPT !.allows = FALSE]

StoreSpecs == {Good, Moved, Rejected, Closed}
=============================================================================
