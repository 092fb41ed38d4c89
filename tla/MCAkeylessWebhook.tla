------------------------- MODULE MCAkeylessWebhook -------------------------
(***************************************************************************)
(* A small instance of AkeylessWebhook for TLC.                            *)
(***************************************************************************)
EXTENDS AkeylessWebhook

\* Both name item a, the AkeylessSecret item b too.
SharedItem ==
    [r \in Resources |-> IF r = "s1" THEN {"a", "b"} ELSE {"a"}]
=============================================================================
