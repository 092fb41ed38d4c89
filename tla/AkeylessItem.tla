---------------------------- MODULE AkeylessItem ----------------------------
(***************************************************************************)
(* A remote item as the Akeyless provider writes it: a map from properties *)
(* to values, stored as one JSON text, and a tag on the items the provider *)
(* has created (providers/v1/akeyless/akeyless.go, akeyless_api.go).       *)
(* PushSecret and DeleteSecret read the item, compute the new map from     *)
(* what they read and write all of it back.  Values are versions of a      *)
(* Secret; a property that is not in the map has the value 0.              *)
(***************************************************************************)
EXTENDS Naturals

CONSTANTS
    Names,   \* the properties items may have
    Whole    \* the property "": the reference is to the whole item

ASSUME WholeAssumption == Whole \notin Names

NoItem == [exists |-> FALSE, tagged |-> FALSE, map |-> [p \in Names |-> 0]]

\* PushSecret: without a property every key of the Secret is written, with one only
\* the key of the entry.  A new item starts with an empty map.
PushedMap(item, data, entry) ==
    [p \in Names |->
       IF entry.prop = Whole /\ p \in DOMAIN data THEN data[p]
       ELSE IF entry.prop = p /\ entry.key \in DOMAIN data THEN data[entry.key]
       ELSE item.map[p]]

\* The item after CreateSecret, which tags it, or UpdateSecret, which does not.
PushSecret(item, data, entry) ==
    [exists |-> TRUE, tagged |-> item.tagged \/ ~item.exists,
     map |-> PushedMap(item, data, entry)]

\* DeleteSecret touches tagged items only.
Deletable(item) == item.exists /\ item.tagged

Without(map, prop) == [p \in Names |-> IF p = prop THEN 0 ELSE map[p]]

\* Mutant: the item is deleted with its first property.
DeleteSecretItem(item, prop) == NoItem

\* Mutant: an item without properties is kept.
DeleteSecretKeepItem(item, prop) ==
    IF prop = Whole THEN NoItem ELSE [item EXCEPT !.map = Without(@, prop)]

\* Without a property the item goes, and with its last property too.
DeleteSecret(item, prop) ==
    IF prop = Whole \/ Without(item.map, prop) = NoItem.map THEN NoItem
    ELSE [item EXCEPT !.map = Without(@, prop)]

SecretExists(item, prop) == item.exists /\ (prop = Whole \/ item.map[prop] # 0)
=============================================================================
