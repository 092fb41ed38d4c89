---------------------- MODULE MCAkeylessDynamicSecret ----------------------
(***************************************************************************)
(* Small instances of AkeylessDynamicSecret for TLC.                       *)
(***************************************************************************)
EXTENDS AkeylessDynamicSecret

\* A dynamic and a rotated item under the default policy.
BothItems == {[policy |-> "", path |-> p] : p \in {"db", "rot"}}
=============================================================================
