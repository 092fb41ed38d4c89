----------------------------- MODULE SecretSync -----------------------------
(***************************************************************************)
(* What a sync controller promises, without its calls, caches and queue: a *)
(* Secret is written from snapshots of the items of a spec, and the status *)
(* speaks of the last write.  A write may be late, for a spec or values    *)
(* that have changed since, but never goes back: to an earlier generation  *)
(* or to an older value than the write before it.  The status names a      *)
(* generation only when the last write is one of that generation, and a    *)
(* request to sync is closed only by values at least as recent as itself.  *)
(***************************************************************************)
EXTENDS Integers

CONSTANTS Keys,          \* the items, each one under its own key
          ItemVersions   \* the versions an item may have, 1 being the first

VARIABLES
    gen, keys,   \* the generation of the spec and the items it names
    items,       \* the current version of every item
    written,     \* the last write of the Secret: its generation and its data
    claimed,     \* the generation the status says is synced
    request      \* the items as they were at the open request, or Nothing

vars == <<gen, keys, items, written, claimed, request>>

None == -1
Nothing == [k \in Keys |-> None]
Entries(d) == {k \in Keys : d[k] # None}

Init ==
    /\ gen = 1 /\ keys \in SUBSET Keys
    /\ items = [k \in Keys |-> 1]
    /\ written = [gen |-> 0, data |-> Nothing]
    /\ claimed = 0 /\ request = Nothing

ChangeSpec ==
    /\ gen' = gen + 1 /\ keys' \in SUBSET Keys
    /\ UNCHANGED <<items, written, claimed, request>>

ChangeItem(k) ==
    /\ items' = [items EXCEPT ![k] = @ + 1]
    /\ UNCHANGED <<gen, keys, written, claimed, request>>

Ask ==
    /\ request' = items
    /\ UNCHANGED <<gen, keys, items, written, claimed>>

\* A snapshot: versions the items have had, none older than the one it replaces.
Snapshot(d) ==
    \A k \in Entries(d) : written.data[k] <= d[k] /\ d[k] <= items[k]

Publish(g, d) ==
    /\ written.gen <= g /\ g <= gen
    /\ g = gen => Entries(d) = keys
    /\ Snapshot(d)
    /\ written' = [gen |-> g, data |-> d]
    /\ UNCHANGED <<gen, keys, items, claimed, request>>

\* The status takes note of the last write, and closes the request it serves.
Record ==
    /\ written.gen = gen
    /\ claimed' = gen
    /\ \/ request' = request
       \/ /\ \A k \in Entries(written.data) : request[k] <= written.data[k]
          /\ request' = Nothing
    /\ UNCHANGED <<gen, keys, items, written>>

Next ==
    \/ ChangeSpec \/ Ask \/ Record
    \/ \E k \in Keys : ChangeItem(k)
    \/ \E g \in 0 .. gen, d \in [Keys -> ItemVersions \cup {None}] : Publish(g, d)

Spec == Init /\ [][Next]_vars
=============================================================================
