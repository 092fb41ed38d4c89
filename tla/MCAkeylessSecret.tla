-------------------------- MODULE MCAkeylessSecret --------------------------
(***************************************************************************)
(* Small instances of AkeylessSecret for TLC.  A cfg chooses the specs a   *)
(* user may write, the bounds and the properties of one question.          *)
(***************************************************************************)
EXTENDS AkeylessSecret

\* One item and two items under a policy, the second spec adding an item.
SpecsOf(policies) ==
    {[policy |-> p, keys |-> ks] : p \in policies, ks \in {{"k1"}, {"k1", "k2"}}}

OneKey(policies) == {[policy |-> p, keys |-> {"k1"}] : p \in policies}

WebhookSpecs == SpecsOf({"OnWebhook"})
WebhookSpec == OneKey({"OnWebhook"})
SpecChangeSpec == OneKey({"OnSpecChange"})
EverySpec == OneKey(SyncPolicies \cup {""})
=============================================================================
