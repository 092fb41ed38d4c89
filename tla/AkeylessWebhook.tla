-------------------------- MODULE AkeylessWebhook --------------------------
(***************************************************************************)
(* The event webhook (pkg/akeyless/webhook): an event about an item is     *)
(* fanned out to the AkeylessSecrets and AkeylessDynamicSecrets that name  *)
(* the item, by patching the force-sync annotation of one after another.   *)
(* Several requests are handled at a time; the lists come from the watch   *)
(* cache.  The controllers behind the annotations are reduced to what      *)
(* SecretSync promises of them: a sync is a step that gives a resource the *)
(* present versions of its items and closes the request.                   *)
(***************************************************************************)
EXTENDS Integers, FiniteSets

CONSTANTS
    Secrets,   \* AkeylessSecrets
    Dynamics,  \* AkeylessDynamicSecrets
    Items,     \* the items of Akeyless
    Handlers,  \* requests the server handles at a time
    InitialSpec,   \* the items every resource names at first
    MaxVersion, MaxChanges, MaxFaults   \* bounds

ASSUME WebhookAssumption ==
    /\ Secrets \cap Dynamics = {}
    /\ InitialSpec \in [Secrets \cup Dynamics -> SUBSET Items]
    /\ MaxVersion \in Nat \ {0} /\ MaxChanges \in Nat /\ MaxFaults \in Nat

VARIABLES
    remote,    \* the version of every item
    outbox,    \* the events Akeyless still has to deliver
    spec,      \* the items every resource names, in the API server
    cached,    \* and in the watch cache
    exists, listed,   \* the resources there are, and those in the cache
    unsynced,  \* the resources whose generation has not been synced
    pending,   \* those with a request later than their refresh
    fresh,     \* those refreshed in the present second
    missed,    \* those whose last request fell into the second of their refresh
    value,     \* the versions every resource has synced
    handler,   \* the requests being handled
    acked,     \* the events answered with 200
    changes, faults

vars == <<remote, outbox, spec, cached, exists, listed, unsynced, pending, fresh,
          missed, value, handler, acked, changes, faults>>

Resources == Secrets \cup Dynamics

\* An event and the version of its item it was sent for.
Event == [item : Items, version : 1 .. MaxVersion]

\* A request: where its handler is and the resources it still has to patch.
Request == [pc : {"secrets", "dynamic"}, event : Event, todo : SUBSET Resources]
Idle == [pc |-> "idle"]

\* What a user may write: an AkeylessDynamicSecret names one item.
SpecsOf(r) ==
    {s \in SUBSET Items : s # {} /\ (r \in Dynamics => Cardinality(s) = 1)}

Fault == faults < MaxFaults /\ faults' = faults + 1
Change == changes < MaxChanges /\ changes' = changes + 1

Init ==
    /\ remote = [i \in Items |-> 1] /\ outbox = {} /\ acked = {}
    /\ spec = InitialSpec
    /\ cached = spec /\ exists = Resources /\ listed = Resources
    /\ unsynced = {} /\ pending = {} /\ fresh = {} /\ missed = {}
    /\ value = [r \in Resources |-> [i \in Items |-> 1]]
    /\ handler = [h \in Handlers |-> Idle]
    /\ changes = 0 /\ faults = 0

-----------------------------------------------------------------------------
(* handleEvent and enqueueMatching *)

referencesPath(s, item) == item \in s

\* The resources of a list that name the item.
Matching(list, item) == {r \in list \cap listed : referencesPath(cached[r], item)}

\* Mutant: a request without an item is not refused.
handleUnchecked(h) ==
    /\ handler[h] = Idle
    /\ \E e \in outbox \cup {[item |-> "", version |-> 1]} :
          handler' = [handler EXCEPT ![h] =
             [pc |-> "secrets", event |-> e, todo |-> Matching(Secrets, e.item)]]
    /\ UNCHANGED <<remote, outbox, spec, cached, exists, listed, unsynced, pending,
                   fresh, missed, value, acked, changes, faults>>

\* A request that passes the checks; it lists the AkeylessSecrets.  A request of
\* another method, without the token, without a body or an item is refused and
\* changes nothing.
handleEvent(h) ==
    /\ handler[h] = Idle
    /\ \E e \in outbox :
          handler' = [handler EXCEPT ![h] =
             [pc |-> "secrets", event |-> e, todo |-> Matching(Secrets, e.item)]]
    /\ UNCHANGED <<remote, outbox, spec, cached, exists, listed, unsynced, pending,
                   fresh, missed, value, acked, changes, faults>>

\* patchForceSync: the annotation has the time in whole seconds, and is pending
\* unless the last refresh was in this very second.
patchForceSync(r) ==
    /\ pending' = IF r \in fresh THEN pending ELSE pending \cup {r}
    /\ missed' = IF r \in fresh THEN missed \cup {r} ELSE missed

Patch(h) ==
    /\ handler[h] # Idle
    /\ \E r \in handler[h].todo \cap exists :
          /\ patchForceSync(r)
          /\ handler' = [handler EXCEPT ![h].todo = @ \ {r}]
    /\ UNCHANGED <<remote, outbox, spec, cached, exists, listed, unsynced, fresh,
                   value, acked, changes, faults>>

\* Mutant: a patch that fails is logged and the next resource taken.
PatchSkipped(h) ==
    /\ handler[h] # Idle
    /\ \E r \in handler[h].todo :
          /\ \/ r \notin exists /\ UNCHANGED faults
             \/ Fault
          /\ handler' = [handler EXCEPT ![h].todo = @ \ {r}]
    /\ UNCHANGED <<remote, outbox, spec, cached, exists, listed, unsynced, pending,
                   fresh, missed, value, acked, changes>>

\* Mutant: a patch that fails is answered as a bad request, which nobody repeats.
PatchRefused(h) ==
    /\ handler[h] # Idle
    /\ \E r \in handler[h].todo :
          \/ r \notin exists /\ UNCHANGED faults
          \/ Fault
    /\ handler' = [handler EXCEPT ![h] = Idle]
    /\ outbox' = outbox \ {handler[h].event}
    /\ UNCHANGED <<remote, spec, cached, exists, listed, unsynced, pending, fresh,
                   missed, value, acked, changes>>

\* A patch fails, as one of a resource that is gone does: the request ends there
\* with 500.
PatchFails(h) ==
    /\ handler[h] # Idle
    /\ \E r \in handler[h].todo :
          \/ r \notin exists /\ UNCHANGED faults
          \/ Fault
    /\ handler' = [handler EXCEPT ![h] = Idle]
    /\ UNCHANGED <<remote, outbox, spec, cached, exists, listed, unsynced, pending,
                   fresh, missed, value, acked, changes>>

\* The AkeylessSecrets are patched: the AkeylessDynamicSecrets are listed.
ListDynamic(h) ==
    /\ handler[h] # Idle /\ handler[h].pc = "secrets" /\ handler[h].todo = {}
    /\ handler' = [handler EXCEPT ![h].pc = "dynamic",
                                  ![h].todo = Matching(Dynamics, handler[h].event.item)]
    /\ UNCHANGED <<remote, outbox, spec, cached, exists, listed, unsynced, pending,
                   fresh, missed, value, acked, changes, faults>>

\* All are patched: 200, and the sender is done with the event.
Answer(h) ==
    /\ handler[h] # Idle /\ handler[h].pc = "dynamic" /\ handler[h].todo = {}
    /\ acked' = acked \cup {handler[h].event}
    /\ outbox' = outbox \ {handler[h].event}
    /\ handler' = [handler EXCEPT ![h] = Idle]
    /\ UNCHANGED <<remote, spec, cached, exists, listed, unsynced, pending, fresh,
                   missed, value, changes, faults>>

\* The process is replaced: no answer is sent.
Crash ==
    /\ Fault
    /\ handler' = [h \in Handlers |-> Idle]
    /\ cached' = spec /\ listed' = exists
    /\ UNCHANGED <<remote, outbox, spec, exists, unsynced, pending, fresh, missed,
                   value, acked, changes>>

-----------------------------------------------------------------------------
(* The controllers, the watch cache and the world *)

\* A sync, for a request or a new generation the cache has.
Sync(r) ==
    /\ r \in (pending \cup unsynced) \cap listed /\ cached[r] = spec[r]
    /\ value' = [value EXCEPT ![r] = remote]
    /\ pending' = pending \ {r} /\ unsynced' = unsynced \ {r}
    /\ missed' = missed \ {r} /\ fresh' = fresh \cup {r}
    /\ UNCHANGED <<remote, outbox, spec, cached, exists, listed, handler, acked,
                   changes, faults>>

InformerSync(r) ==
    /\ cached[r] # spec[r] \/ (r \in listed /\ r \notin exists)
    /\ cached' = [cached EXCEPT ![r] = spec[r]]
    /\ listed' = listed \ ({r} \ exists)
    /\ UNCHANGED <<remote, outbox, spec, exists, unsynced, pending, fresh, missed,
                   value, handler, acked, changes, faults>>

Tick ==
    /\ fresh # {} /\ fresh' = {}
    /\ UNCHANGED <<remote, outbox, spec, cached, exists, listed, unsynced, pending,
                   missed, value, handler, acked, changes, faults>>

SpecChange(r) ==
    /\ r \in exists /\ Change
    /\ \E s \in SpecsOf(r) \ {spec[r]} : spec' = [spec EXCEPT ![r] = s]
    /\ unsynced' = unsynced \cup {r}
    /\ UNCHANGED <<remote, outbox, cached, exists, listed, pending, fresh, missed,
                   value, handler, acked, faults>>

Delete(r) ==
    /\ r \in exists /\ Change
    /\ exists' = exists \ {r}
    /\ UNCHANGED <<remote, outbox, spec, cached, listed, unsynced, pending, fresh,
                   missed, value, handler, acked, faults>>

\* An item changes, and Akeyless has an event to deliver.
RemoteChange(i) ==
    /\ remote[i] < MaxVersion /\ Change
    /\ remote' = [remote EXCEPT ![i] = @ + 1]
    /\ outbox' = outbox \cup {[item |-> i, version |-> remote[i] + 1]}
    /\ UNCHANGED <<spec, cached, exists, listed, unsynced, pending, fresh, missed,
                   value, handler, acked, faults>>

Serve(h) == Patch(h) \/ ListDynamic(h) \/ Answer(h)

Next ==
    \/ \E h \in Handlers : handleEvent(h) \/ Serve(h) \/ PatchFails(h)
    \/ \E r \in Resources : Sync(r) \/ InformerSync(r) \/ SpecChange(r) \/ Delete(r)
    \/ \E i \in Items : RemoteChange(i)
    \/ Tick \/ Crash

\* The sender delivers an event again until it is answered with 200, a handler
\* runs to its end, and the controllers and the cache go on.
Fairness ==
    /\ \A h \in Handlers : WF_vars(handleEvent(h)) /\ WF_vars(Serve(h) \/ PatchFails(h))
    /\ \A r \in Resources : WF_vars(Sync(r)) /\ WF_vars(InformerSync(r))
    /\ WF_vars(Tick)

Spec == Init /\ [][Next]_vars
FairSpec == Spec /\ Fairness

-----------------------------------------------------------------------------
(* Properties *)

\* The type of every variable: a handler has resources of its list left.
TypeOK ==
    /\ remote \in [Items -> 1 .. MaxVersion]
    /\ outbox \subseteq Event /\ acked \subseteq Event
    /\ spec \in [Resources -> SUBSET Items] /\ cached \in [Resources -> SUBSET Items]
    /\ {exists, listed, unsynced, pending, fresh, missed} \subseteq SUBSET Resources
    /\ value \in [Resources -> [Items -> 1 .. MaxVersion]]
    /\ handler \in [Handlers -> Request \cup {Idle}]
    /\ changes \in 0 .. MaxChanges /\ faults \in 0 .. MaxFaults

\* A resource has what an event announced, or is on its way to it: a request is
\* pending, or a generation to sync, which the stale list may have missed.
Informed(r, e) ==
    \/ value[r][e.item] >= e.version
    \/ r \in pending \cup unsynced \cup missed

\* An event answered with 200 has reached every resource that names its item,
\* although the lists lag, resources change and go while the fan-out runs, and
\* two fan-outs cross; except where the request fell into the second of a sync,
\* which refresh.go:124 does not take for pending (server.go:139-171).
AckMeansTold ==
    \A e \in acked : \A r \in exists : e.item \in spec[r] => Informed(r, e)

\* With a sender that repeats an event until it is answered with 200, every
\* resource ends up with the present versions of its items, also when a patch
\* fails in the middle of the list or the process stops (server.go:119-124, 149).
EventsReachAll ==
    <>[](\A r \in exists \ missed : \A i \in spec[r] : value[r][i] = remote[i])
=============================================================================
