--------------------------- MODULE AkeylessStore ---------------------------
(***************************************************************************)
(* A store (AkeylessSecretStore or ClusterAkeylessSecretStore), the        *)
(* controller that validates it (pkg/controllers/akeylessstore), and a     *)
(* consumer: the part of a secret controller's Reconcile that checks the   *)
(* store, reads it and gets a client for it from its provider.             *)
(*                                                                         *)
(* Resource versions are only compared for equality, and a version that    *)
(* was replaced never returns: a flag says whether the cache has the       *)
(* store's version and a cached client the cache's.  A time is one of the  *)
(* current second or past.                                                 *)
(***************************************************************************)
EXTENDS Integers, FiniteSets

CONSTANTS
    Specs,            \* what users may write: [ok, url, allows]
    RequeueInterval,  \* seconds between two validations
    MaxGen, MaxCA, MaxFaults   \* bounds

ASSUME StoreSpecAssumption ==
    /\ Specs # {}
    /\ \A s \in Specs : s.ok \in BOOLEAN /\ s.allows \in BOOLEAN

ASSUME StoreBoundAssumption ==
    /\ RequeueInterval \in Nat \ {0}
    /\ MaxGen \in Nat \ {0}
    /\ MaxCA \in Nat \ {0}
    /\ MaxFaults \in Nat

VARIABLES
    store,      \* the store in the API server
    cache,      \* the store in the watch cache both controllers read
    lag,        \* the cache has an earlier version of the store
    queued, timer,       \* the work queue: an entry, and the seconds to a delayed one
    pc, copy, verdict,   \* one call of the store controller's Reconcile
    upc, read, using,    \* one use of the store: the spec it has read, its client
    clients,    \* the provider's client cache: the entry for the store, or none
    ca,         \* the version of the CA certificate the store refers to
    reachable,  \* the gateways that accept connections
    faults

objVars == <<store, cache, lag>>
qVars   == <<queued, timer>>
recVars == <<pc, copy, verdict>>
useVars == <<upc, read, using>>
extVars == <<ca, reachable>>
vars == <<objVars, qVars, recVars, useVars, clients, extVars, faults>>

NoTimer == -1
Urls == {s.url : s \in Specs}

\* The store with its Ready condition: its status and LastTransitionTime.
Store == [gen : 1 .. MaxGen, spec : Specs,
          ready : {"none", "True", "False"}, since : {"now", "past"}]

\* A client has what it was built from, the spec and the CA certificate, and an
\* entry of the client cache whether that was the cached version of the store.
Client == [current : BOOLEAN, spec : Specs, ca : 1 .. MaxCA]

NewStore(s) == [gen |-> 1, spec |-> s, ready |-> "none", since |-> "past"]

\* The copy and the spec between two calls: of no importance.
NoStore == NewStore(CHOOSE s \in Specs : TRUE)

Fault == faults < MaxFaults /\ faults' = faults + 1

-----------------------------------------------------------------------------
(* The store controller *)

\* Mutant: the transition time moves with the status only.
ConditionOfTransition(s, ready) ==
    IF s.ready = ready THEN s ELSE [s EXCEPT !.ready = ready, !.since = "now"]

\* setStoreCondition: the time is that of the validation.
setStoreCondition(s, ready) == [s EXCEPT !.ready = ready, !.since = "now"]

AddAfter(d) == timer' = IF timer = NoTimer \/ d < timer THEN d ELSE timer

Begin ==
    /\ pc = "idle" /\ queued
    /\ queued' = FALSE
    /\ pc' = "validate" /\ copy' = cache
    /\ UNCHANGED <<objVars, timer, verdict, useVars, clients, extVars, faults>>

\* The provider accepts the fields of the spec.
ValidateStore(s) == s.ok

\* Validate of the client: its gateway accepts a connection.
NetworkValidate(s) == s.url \in reachable

\* validateNamespacedStore and validateClusterStore.
validateStore(s) == ValidateStore(s) /\ NetworkValidate(s)

\* The validation of the copy; a failure is one of NewClient, or of the list of
\* namespaces for a cluster store.
Validate ==
    /\ pc = "validate"
    /\ pc' = "patch"
    /\ \/ /\ verdict' = IF validateStore(copy.spec) THEN "True" ELSE "False"
          /\ UNCHANGED faults
       \/ Fault /\ verdict' = "False"
    /\ UNCHANGED <<objVars, qVars, copy, useVars, clients, extVars>>

\* The status is written with a merge patch against the copy: it has no
\* conflicts, replaces the conditions, and writes nothing when the copy already
\* has them.  An error is logged only.
PatchStatus ==
    \/ /\ setStoreCondition(copy, verdict) # copy
       /\ store' = setStoreCondition(store, verdict)
       /\ lag' = (lag \/ store' # store)
       /\ UNCHANGED faults
    \/ setStoreCondition(copy, verdict) = copy /\ UNCHANGED <<store, lag, faults>>
    \/ Fault /\ UNCHANGED <<store, lag>>

\* Mutant: only a store that is ready is validated again.
RequeueWhenReady ==
    IF verdict = "True" THEN AddAfter(RequeueInterval) ELSE UNCHANGED timer

RequeueStore == AddAfter(RequeueInterval)

Patch ==
    /\ pc = "patch"
    /\ PatchStatus
    /\ RequeueStore
    /\ pc' = "idle" /\ copy' = NoStore /\ verdict' = "False"
    /\ UNCHANGED <<cache, queued, useVars, clients, extVars>>

-----------------------------------------------------------------------------
(* The consumer, in the Reconcile of a secret controller *)

\* Mutant: an entry counts whatever its version.
CachedOfAnyVersion == clients

\* The lookup in the client cache: an entry counts for its own version only.
Cached == {e \in clients : e.current}

\* Mutant: the result of a lookup is used without looking at ok.
ClientUnchecked == Cached

\* A client for the store read, which trusts the certificate of this moment.
newClient == [current |-> TRUE, spec |-> cache.spec, ca |-> ca]

\* NewClient: the cached client or a new one, which takes the entry's place.
NewClient == IF Cached # {} THEN Cached ELSE {newClient}

storeIsReady(s) == s.ready = "True"

\* The conditions of a cluster store admit the consumer's namespace.
clusterStoreAllowed(s) == s.spec.allows

\* IsNamespacedStoreReady, or IsClusterStoreReady with its namespaces.
StoreReady(s) == storeIsReady(s) /\ clusterStoreAllowed(s)

EnsureStoreReady ==
    /\ upc = "idle" /\ StoreReady(cache)
    /\ upc' = "resolve"
    /\ UNCHANGED <<objVars, qVars, recVars, read, using, clients, extVars, faults>>

\* ResolveStore reads the store again, then NewClient; one that fails has
\* dropped an entry of another version.
ResolveStore ==
    /\ upc = "resolve"
    /\ \/ /\ upc' = "use" /\ read' = cache.spec
          /\ using' = NewClient /\ clients' = using'
          /\ UNCHANGED faults
       \/ /\ Cached = {} /\ Fault
          /\ upc' = "idle" /\ clients' = {}
          /\ UNCHANGED <<read, using>>
    /\ UNCHANGED <<objVars, qVars, recVars, extVars>>

\* The call ends; the client stays in the client cache.
Release ==
    /\ upc = "use"
    /\ upc' = "idle" /\ read' = NoStore.spec /\ using' = {}
    /\ UNCHANGED <<objVars, qVars, recVars, clients, extVars, faults>>

-----------------------------------------------------------------------------
(* The queue, the cache, the clock, the process and the world *)

\* The controller has no predicates: every update queues the store.
InformerSync ==
    /\ lag
    /\ cache' = store /\ lag' = FALSE /\ queued' = TRUE
    /\ clients' = {[e EXCEPT !.current = FALSE] : e \in clients}
    /\ UNCHANGED <<store, timer, recVars, useVars, extVars, faults>>

TimerFires ==
    /\ timer = 0
    /\ timer' = NoTimer /\ queued' = TRUE
    /\ UNCHANGED <<objVars, recVars, useVars, clients, extVars, faults>>

Tick ==
    /\ store' = [store EXCEPT !.since = "past"]
    /\ cache' = [cache EXCEPT !.since = "past"]
    /\ copy' = [copy EXCEPT !.since = "past"]
    /\ timer' = IF timer > 0 THEN timer - 1 ELSE timer
    /\ UNCHANGED <<lag, queued, pc, verdict, useVars, clients, extVars, faults>>

\* The process is replaced: its memory is gone, and its first list queues.
Crash ==
    /\ Fault
    /\ cache' = store /\ lag' = FALSE /\ queued' = TRUE /\ timer' = NoTimer
    /\ pc' = "idle" /\ copy' = NoStore /\ verdict' = "False"
    /\ upc' = "idle" /\ read' = NoStore.spec /\ using' = {} /\ clients' = {}
    /\ UNCHANGED <<store, extVars>>

SpecChange ==
    /\ store.gen < MaxGen
    /\ \E s \in Specs \ {store.spec} : store' = [store EXCEPT !.spec = s, !.gen = @ + 1]
    /\ lag' = TRUE
    /\ UNCHANGED <<cache, qVars, recVars, useVars, clients, extVars, faults>>

CAChange ==
    /\ ca < MaxCA
    /\ ca' = ca + 1
    /\ UNCHANGED <<objVars, qVars, recVars, useVars, clients, reachable, faults>>

GatewayDown ==
    /\ Fault
    /\ \E u \in reachable : reachable' = reachable \ {u}
    /\ UNCHANGED <<objVars, qVars, recVars, useVars, clients, ca>>

GatewayUp ==
    /\ reachable # Urls
    /\ reachable' = Urls
    /\ UNCHANGED <<objVars, qVars, recVars, useVars, clients, ca, faults>>

-----------------------------------------------------------------------------
Init ==
    /\ \E s \in Specs : store = NewStore(s)
    /\ cache = store /\ lag = FALSE /\ queued = TRUE /\ timer = NoTimer
    /\ pc = "idle" /\ copy = NoStore /\ verdict = "False"
    /\ upc = "idle" /\ read = NoStore.spec /\ using = {} /\ clients = {}
    /\ ca = 1 /\ reachable = Urls /\ faults = 0

Reconcile == Begin \/ Validate \/ Patch
Consume == EnsureStoreReady \/ ResolveStore \/ Release

Next ==
    \/ Reconcile \/ Consume
    \/ InformerSync \/ TimerFires \/ Tick \/ Crash
    \/ SpecChange \/ CAChange \/ GatewayDown \/ GatewayUp

Fairness ==
    /\ WF_vars(Reconcile) /\ WF_vars(Consume) /\ WF_vars(InformerSync)
    /\ WF_vars(TimerFires) /\ WF_vars(Tick) /\ WF_vars(GatewayUp)

Spec == Init /\ [][Next]_vars
FairSpec == Spec /\ Fairness

-----------------------------------------------------------------------------
(* Properties *)

\* The type of every variable; a consumer that got past NewClient has a client.
TypeOK ==
    /\ store \in Store /\ cache \in Store /\ copy \in Store
    /\ lag \in BOOLEAN /\ queued \in BOOLEAN /\ timer \in NoTimer .. RequeueInterval
    /\ pc \in {"idle", "validate", "patch"} /\ verdict \in {"True", "False"}
    /\ upc \in {"idle", "resolve", "use"} /\ read \in Specs
    /\ using \in SUBSET Client /\ clients \in SUBSET Client
    /\ upc = "use" => using # {}
    /\ ca \in 1 .. MaxCA /\ reachable \subseteq Urls /\ faults \in 0 .. MaxFaults

\* The client a consumer works with was built from the spec it has just read,
\* however the store, the cache and the client cache moved (akeyless.go:116).
ClientMatchesStore == \A e \in using : e.spec = read

\* Once users and gateways settle, the condition of the store says whether its
\* current spec is valid and its gateway reachable, although the patch may fail,
\* may come from an old spec and may be empty (akeylessstore/controller.go:86-99).
ReadinessSettles ==
    <>[](store.ready = IF store.spec.ok /\ store.spec.url \in reachable
                         THEN "True" ELSE "False")

\* A new CA certificate reaches the consumers.  Nothing watches its source and
\* clients are cached by the store's resource version: what renews them is the
\* time every validation writes into the condition (akeyless.go:137, 564).
TrustRenewed == <>[](\A e \in using : e.ca = ca)
=============================================================================
