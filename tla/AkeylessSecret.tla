--------------------------- MODULE AkeylessSecret ---------------------------
(***************************************************************************)
(* The AkeylessSecret controller (pkg/controllers/akeylesssecret) with one *)
(* resource, its target Secret, the items it reads in Akeyless and the     *)
(* workloads it restarts.  The resource lives in the API server (api); the *)
(* controller reads it from a watch cache (cache) that may lag, works on   *)
(* its own copy (copy), and writes the copy back under the API server's    *)
(* optimistic concurrency: a write from a stale copy conflicts.            *)
(*                                                                         *)
(* Time.  Only the distance of a stored time to the present matters, so    *)
(* the clock stands still at Now, half way through a second, and a Tick    *)
(* moves every stored time one second into the past.  A time stops at the  *)
(* oldest seconds, where the order of refresh and force is kept: behaviours *)
(* are unbounded and the state space is finite.                            *)
(***************************************************************************)
EXTENDS RefreshPolicy

CONSTANTS
    Keys,             \* items of Akeyless, each one under its own Secret key
    Targets,          \* spec.rolloutRestartTargets
    Specs,            \* the specs a user may write: [policy, keys]
    CreationPolicy,   \* spec.target.creationPolicy
    SyncInterval,     \* spec.syncInterval in half seconds, 0 when unset
    StoreRetry,       \* the delay after a store that is not ready (1 minute)
    VersionsReadable, \* whether GetRemoteItemVersion can succeed
    ForeignSecret,    \* whether a user made the target Secret beforehand
    MayDelete,        \* whether the resource may be deleted
    NowSec,           \* the present, in seconds from the oldest time kept
    MaxVersion, MaxGen, MaxFaults, MaxEdits, MaxEvents   \* bounds

ASSUME SpecAssumption ==
    /\ Specs \subseteq [policy : SyncPolicies \cup {""}, keys : SUBSET Keys]
    /\ Specs # {}

ASSUME TimeAssumption ==
    /\ SyncInterval \in Nat
    /\ StoreRetry \in Nat \ {0}
    /\ NowSec \in Nat
    /\ NowSec >= 3

ASSUME BoundAssumption ==
    /\ MaxVersion \in Nat \ {0}
    /\ MaxGen \in Nat \ {0}
    /\ MaxFaults \in Nat
    /\ MaxEdits \in Nat
    /\ MaxEvents \in Nat

ASSUME SwitchAssumption ==
    /\ VersionsReadable \in BOOLEAN
    /\ ForeignSecret \in BOOLEAN
    /\ MayDelete \in BOOLEAN

VARIABLES
    api,      \* the resource in the API server
    cache,    \* the resource in the controller's watch cache
    watch,    \* what the cache lags behind: nothing, filtered or pending events
    secret,   \* the target Secret
    remote,   \* the version of every item in Akeyless; a value is its version
    storeReady,
    pods,     \* the data every restart target has read at its last restart
    queued,   \* the work queue holds the resource
    timer,    \* half seconds until the queue's delayed add, or NoTimer
    pc, copy, copyStale, existing, todo, data, vers,   \* one call of Reconcile
    faults, edits, events,                         \* what was used of the bounds
    applied, notified                              \* history, read by properties

crVars  == <<api, cache, watch>>
qVars   == <<queued, timer>>
extVars == <<remote, storeReady, faults, edits, events>>
recVars == <<pc, copy, copyStale, existing, todo, data, vers>>
ghosts  == <<applied, notified>>
vars == <<crVars, qVars, extVars, recVars, ghosts, secret, pods>>

Now == Second * NowSec + 1
NoTimer == -1
Foreign == -2                         \* a value the controller did not write
Unhashed == -3
Nothing == [k \in Keys |-> None]      \* an empty Go map
NoHash == [k \in Keys |-> Unhashed]   \* no data-hash annotation

Times == 0 .. Now
Values == {None, Foreign} \cup 1 .. MaxVersion
Versions == {None} \cup 1 .. MaxVersion

Resource == [present : BOOLEAN, gen : 1 .. MaxGen, spec : Specs,
             force : Times \cup {Unparsable}, finalizer : BOOLEAN,
             deleting : BOOLEAN, synced : 0 .. MaxGen, refresh : Times,
             versions : [Keys -> Versions], ready : {"none", "True", "False"}]

SecretObject == [exists : BOOLEAN, managed : BOOLEAN, owned : BOOLEAN,
                 data : [Keys -> Values], hash : [Keys -> Values] \cup {NoHash}]

NoSecret == [exists |-> FALSE, managed |-> FALSE, owned |-> FALSE,
             data |-> Nothing, hash |-> NoHash]

UserSecret == [NoSecret EXCEPT !.exists = TRUE,
                               !.data = [k \in Keys |-> Foreign]]

-----------------------------------------------------------------------------
(* pkg/akeyless/sync and the controller's helpers *)

\* The hash of the data is the data itself: equal exactly when the data is.
ObjectHash(d) == d

\* Mutant: the data is not compared with its hash.
ManagedSecretLabelled(s) == s.exists /\ s.managed

IsManagedSecretValid(s) == s.exists /\ s.managed /\ s.hash = ObjectHash(s.data)

\* Mutant: only a Secret that was there before counts as changed.
RestartsOfUpdate(old, d) ==
    IF old.exists /\ old.hash # ObjectHash(d) THEN Targets ELSE {}

\* The workloads to restart: all of them when the hash annotation read at the
\* start, none if there was no Secret, differs from the new data's.
RestartsNeeded(old, d) == IF old.hash # ObjectHash(d) THEN Targets ELSE {}

\* The Secret after ApplyManagedSecret: one that exists keeps its owner.
ManagedSecret(s, d) ==
    [exists |-> TRUE, managed |-> TRUE, data |-> d, hash |-> ObjectHash(d),
     owned |-> IF s.exists THEN s.owned ELSE CreationPolicy # "Orphan"]

refreshConfig(r) ==
    [policy |-> r.spec.policy, syncInterval |-> SyncInterval, defaultPoll |-> 0,
     gen |-> r.gen, synced |-> r.synced, refresh |-> r.refresh, force |-> r.force]

shouldSync(r) == ShouldSync(refreshConfig(r), Now)
requeueAfter(r) == RequeueAfter(refreshConfig(r), Now)

\* Merging the observed versions into the status, entry by entry.
Merged(current, observed) ==
    [k \in Keys |-> IF observed[k] = None THEN current[k] ELSE observed[k]]

\* The events the controller's predicates let through: a new generation (the
\* API server also counts a deletion as one) or another force-sync annotation.
ReconcileOnUpdate(old, new) ==
    \/ old.gen # new.gen
    \/ old.deleting # new.deleting
    \/ old.present # new.present
    \/ old.force # new.force

\* The work queue's AddAfter: the earlier of two delays for an item stays.
\* AddRateLimited waits an arbitrary time: a delay of 0, as firing is not urgent.
AddAfter(d) == timer' = IF timer = NoTimer \/ d < timer THEN d ELSE timer
AddRateLimited == AddAfter(0)

\* A result with RequeueAfter: only a positive delay is a request.
Requeue(d) == IF d > 0 THEN AddAfter(d) ELSE UNCHANGED timer

\* A write to the API server, seen by the cache later.
Write(new) ==
    /\ api' = new
    /\ watch' = IF watch = "pending" \/ ReconcileOnUpdate(api, new)
                  THEN "pending" ELSE "filtered"

Fault == faults < MaxFaults /\ faults' = faults + 1

-----------------------------------------------------------------------------
\* A resource as a user creates it.
Created(s) ==
    [present |-> TRUE, gen |-> 1, spec |-> s, force |-> NoAnnotation,
     finalizer |-> FALSE, deleting |-> FALSE, synced |-> 0, refresh |-> ZeroTime,
     versions |-> Nothing, ready |-> "none"]

\* The controller's copy while no call of Reconcile runs: of no importance.
NoCopy == Created(CHOOSE s \in Specs : TRUE)

Init ==
    /\ \E s \in Specs : api = Created(s)
    /\ cache = api /\ watch = "synced" /\ queued = TRUE /\ timer = NoTimer
    /\ secret = IF ForeignSecret THEN UserSecret ELSE NoSecret
    /\ remote = [k \in Keys |-> 1]
    /\ storeReady \in BOOLEAN
    /\ pods = [t \in Targets |-> Nothing]
    /\ pc = "idle" /\ copy = NoCopy /\ copyStale = FALSE /\ existing = NoSecret
    /\ todo = {} /\ data = Nothing /\ vers = Nothing
    /\ faults = 0 /\ edits = 0 /\ events = 0
    /\ applied = [gen |-> 0, data |-> Nothing]
    /\ notified = Nothing

-----------------------------------------------------------------------------
(* Reconcile, step by step: a step ends where another actor can interfere. *)

\* Reconcile returns and its variables go out of scope.
Done ==
    /\ pc' = "idle" /\ copy' = NoCopy /\ copyStale' = FALSE /\ existing' = NoSecret
    /\ todo' = {} /\ data' = Nothing /\ vers' = Nothing

\* Read the resource from the cache; one that is gone or being deleted is left
\* alone and nothing is scheduled for it.
Begin ==
    /\ pc = "idle" /\ queued
    /\ queued' = FALSE
    /\ IF cache.present /\ ~cache.deleting
         THEN /\ copy' = cache
              /\ copyStale' = (watch # "synced")
              /\ pc' = IF cache.finalizer THEN "target" ELSE "finalizer"
              /\ UNCHANGED <<existing, todo, data, vers>>
         ELSE Done
    /\ UNCHANGED <<crVars, extVars, ghosts, secret, pods, timer>>

AddFinalizer ==
    /\ pc = "finalizer"
    /\ \/ /\ ~copyStale
          /\ Write([api EXCEPT !.finalizer = TRUE])
          /\ copy' = [copy EXCEPT !.finalizer = TRUE]
          /\ pc' = "target"
          /\ UNCHANGED <<cache, extVars, timer, copyStale, existing, todo, data, vers>>
       \/ /\ \/ copyStale /\ UNCHANGED faults
             \/ Fault
          /\ AddRateLimited
          /\ Done
          /\ UNCHANGED <<crVars, remote, storeReady, edits, events>>
    /\ UNCHANGED <<ghosts, secret, pods, queued>>

\* Mutant: a failed sync counts as one of the generation.
markFailedAsSynced(r) ==
    /\ ~copyStale
    /\ Write([api EXCEPT !.ready = "False", !.versions = r.versions,
                         !.synced = r.gen])
    /\ UNCHANGED cache

\* Mutant: a failure is stamped with the refresh time.
markFailedAsRefreshed(r) ==
    /\ ~copyStale
    /\ Write([api EXCEPT !.ready = "False", !.versions = r.versions,
                         !.refresh = Stored(Now)])
    /\ UNCHANGED cache

\* markFailed, then Status().Update whose error is ignored: the condition is
\* written unless the copy is stale or the call fails.
markFailed(r) ==
    \/ /\ ~copyStale
       /\ Write([api EXCEPT !.ready = "False", !.versions = r.versions])
       /\ UNCHANGED cache
    \/ UNCHANGED crVars

\* An error after the store check: condition, then the rate-limited retry.
Fails ==
    /\ markFailed(copy)
    /\ AddRateLimited
    /\ Done
    /\ UNCHANGED <<remote, storeReady, edits, events, ghosts, queued>>

\* The Secret is read and the store's condition checked, then ShouldSync
\* decides: a full sync, a version check for the policies that poll, or
\* nothing to do.
Decide ==
    /\ pc = "target"
    /\ UNCHANGED <<cache, ghosts, secret, pods, queued, extVars>>
    /\ LET skip == ~shouldSync(copy) /\ IsManagedSecretValid(secret)
           polls == PollsVersions(NormalizedPolicy(refreshConfig(copy)))
       IN  \/ /\ ~storeReady
              /\ markFailed(copy)
              /\ Requeue(StoreRetry)
              /\ Done
           \/ /\ storeReady /\ skip /\ ~polls
              /\ Requeue(requeueAfter(copy))
              /\ Done
              /\ UNCHANGED <<api, watch>>
           \/ /\ storeReady /\ (skip => polls)
              /\ pc' = IF skip THEN "check" ELSE "fetch"
              /\ existing' = secret
              /\ todo' = copy.spec.keys
              /\ UNCHANGED <<api, watch, timer, copy, copyStale, data, vers>>

\* Reading the Secret fails: the error is returned and no condition written.
TargetFails ==
    /\ pc = "target" /\ Fault
    /\ AddRateLimited
    /\ Done
    /\ UNCHANGED <<crVars, remote, storeReady, edits, events, ghosts, secret,
                   pods, queued>>

\* checkRemoteVersions: one describe-item call per mapping.
CheckVersion(k) ==
    /\ pc = "check" /\ k \in todo /\ VersionsReadable
    /\ vers' = [vers EXCEPT ![k] = remote[k]]
    /\ todo' = todo \ {k}
    /\ UNCHANGED <<crVars, qVars, extVars, ghosts, secret, pods, pc, copy, copyStale,
                   existing, data>>

\* ResolveStore or NewClient fails before the first call, or a call does: no
\* call succeeds with a provider that cannot read versions.
CheckFails ==
    /\ pc = "check"
    /\ \/ Fault /\ (todo # {} \/ vers = Nothing)
       \/ ~VersionsReadable /\ todo # {} /\ UNCHANGED faults
    /\ Fails
    /\ UNCHANGED <<secret, pods>>

CheckDone ==
    /\ pc = "check" /\ todo = {}
    /\ IF RemoteVersionsChanged(copy.versions, vers)
         THEN /\ copy' = [copy EXCEPT !.versions = Merged(copy.versions, vers)]
              /\ pc' = "fetch" /\ todo' = copy.spec.keys /\ vers' = Nothing
              /\ UNCHANGED <<timer, copyStale, existing, data>>
         ELSE /\ Requeue(requeueAfter(copy))
              /\ Done
    /\ UNCHANGED <<crVars, extVars, ghosts, secret, pods, queued>>

\* GetSecret for one mapping, the version of the item read just after it.
FetchValue(k) ==
    /\ pc = "fetch" /\ k \in todo
    /\ data' = [data EXCEPT ![k] = remote[k]]
    /\ pc' = "version"
    /\ UNCHANGED <<crVars, qVars, extVars, ghosts, secret, pods, copy, copyStale,
                   existing, todo, vers>>

\* Mutant: the error is not checked and the zero value recorded.
FetchVersionUnchecked(k) ==
    /\ pc = "version" /\ k \in todo /\ data[k] # None
    /\ \/ vers' = [vers EXCEPT ![k] = remote[k]] /\ UNCHANGED faults
       \/ Fault /\ vers' = [vers EXCEPT ![k] = 0]
    /\ todo' = todo \ {k}
    /\ pc' = "fetch"
    /\ UNCHANGED <<crVars, qVars, remote, storeReady, edits, events, ghosts, secret,
                   pods, copy, copyStale, existing, data>>

\* A version that cannot be read is logged and left out.
FetchVersion(k) ==
    /\ pc = "version" /\ k \in todo /\ data[k] # None
    /\ \/ VersionsReadable /\ vers' = [vers EXCEPT ![k] = remote[k]] /\ UNCHANGED faults
       \/ ~VersionsReadable /\ UNCHANGED <<vers, faults>>
       \/ Fault /\ UNCHANGED vers
    /\ todo' = todo \ {k}
    /\ pc' = "fetch"
    /\ UNCHANGED <<crVars, qVars, remote, storeReady, edits, events, ghosts, secret,
                   pods, copy, copyStale, existing, data>>

\* ResolveStore, NewClient, GetSecret or ApplyManagedSecret returns an error.
FetchFails ==
    /\ pc = "fetch" /\ Fault
    /\ Fails
    /\ UNCHANGED <<secret, pods>>

\* ApplyManagedSecret, then the restarts.
Apply ==
    /\ pc = "fetch" /\ todo = {}
    /\ secret' = ManagedSecret(secret, data)
    /\ applied' = [gen |-> copy.gen, data |-> data]
    /\ pc' = "restart"
    /\ todo' = RestartsNeeded(existing, data)
    /\ UNCHANGED <<crVars, qVars, extVars, notified, pods, copy, copyStale,
                   existing, data, vers>>

\* restartTarget: the restarted pods read the Secret as it is now.
Restart(t) ==
    /\ pc = "restart" /\ t \in todo
    /\ pods' = [pods EXCEPT ![t] = secret.data]
    /\ todo' = todo \ {t}
    /\ UNCHANGED <<crVars, qVars, extVars, ghosts, secret, pc, copy, copyStale,
                   existing, data, vers>>

RestartFails ==
    /\ pc = "restart" /\ todo # {} /\ Fault
    /\ Fails
    /\ UNCHANGED <<secret, pods>>

\* The status of a completed sync.
SyncedStatus(r) ==
    [r EXCEPT !.refresh = Stored(Now), !.synced = copy.gen, !.ready = "True",
              !.versions = IF Entries(vers) # {} THEN vers ELSE copy.versions]

\* Mutant: the status is written with a merge patch, which never conflicts.
PatchStatus ==
    /\ pc = "restart" /\ todo = {}
    /\ Write(SyncedStatus(api))
    /\ Requeue(requeueAfter(SyncedStatus(copy)))
    /\ Done
    /\ UNCHANGED <<cache, extVars, applied, notified, secret, pods, queued>>

\* Mutant: after a conflict the resource is read again and its status written.
RetryStatusOnConflict ==
    /\ pc = "restart" /\ todo = {}
    /\ Write([SyncedStatus(api) EXCEPT !.synced = api.gen])
    /\ Requeue(requeueAfter(SyncedStatus(copy)))
    /\ Done
    /\ UNCHANGED <<cache, extVars, applied, notified, secret, pods, queued>>

UpdateStatus ==
    /\ pc = "restart" /\ todo = {}
    /\ \/ /\ ~copyStale
          /\ Write(SyncedStatus(api))
          /\ Requeue(requeueAfter(SyncedStatus(copy)))
          /\ UNCHANGED <<cache, faults>>
       \/ /\ \/ copyStale /\ UNCHANGED faults
             \/ Fault
          /\ AddRateLimited
          /\ UNCHANGED crVars
    /\ Done
    /\ UNCHANGED <<remote, storeReady, edits, events, applied, notified, secret,
                   pods, queued>>

Reconcile ==
    \/ Begin \/ AddFinalizer \/ Decide
    \/ CheckDone \/ CheckFails
    \/ \E k \in Keys : CheckVersion(k) \/ FetchValue(k) \/ FetchVersion(k)
    \/ Apply \/ UpdateStatus
    \/ \E t \in Targets : Restart(t)

Failure == TargetFails \/ FetchFails \/ RestartFails

-----------------------------------------------------------------------------
(* The queue, the cache, the clock and the process *)

InformerSync ==
    /\ watch # "synced"
    /\ cache' = api /\ watch' = "synced"
    /\ queued' = (queued \/ watch = "pending")
    /\ UNCHANGED <<api, timer, extVars, recVars, ghosts, secret, pods>>

TimerFires ==
    /\ timer = 0
    /\ timer' = NoTimer /\ queued' = TRUE
    /\ UNCHANGED <<crVars, extVars, recVars, ghosts, secret, pods>>

Later(a, b) == IF a > b THEN a ELSE b

\* A stored time a second later.  The oldest two seconds hold every older time:
\* the second one what is later than the other of the two times of a resource.
Older(t, other) ==
    IF t <= 0 THEN t
    ELSE Later(t - Second, IF t > other THEN 2 * Second ELSE Second)

Aged(r) == [r EXCEPT !.refresh = Older(r.refresh, r.force),
                     !.force = Older(r.force, r.refresh)]

Tick ==
    /\ api' = Aged(api) /\ cache' = Aged(cache) /\ copy' = Aged(copy)
    /\ timer' = IF timer > 0 THEN Later(timer - Second, 0) ELSE timer
    /\ UNCHANGED <<watch, queued, extVars, ghosts, secret, pods, pc, copyStale,
                   existing, todo, data, vers>>

\* The process is replaced: what it held in memory is gone, and its first list
\* of the resources queues each of them.
Crash ==
    /\ Fault
    /\ Done
    /\ cache' = api /\ watch' = "synced"
    /\ queued' = TRUE /\ timer' = NoTimer
    /\ UNCHANGED <<api, remote, storeReady, edits, events, ghosts, secret, pods>>

-----------------------------------------------------------------------------
(* Users, the webhook, Akeyless and the garbage collector *)

\* A write by somebody else: the controller's copy becomes stale.
OutsideWrite(new) ==
    /\ Write(new)
    /\ copyStale' = (pc # "idle")
    /\ UNCHANGED <<cache, qVars, pc, copy, existing, todo, data, vers, remote,
                   storeReady, faults, secret, pods>>

SpecChange ==
    /\ api.present /\ ~api.deleting /\ api.gen < MaxGen
    /\ \E s \in Specs \ {api.spec} :
          OutsideWrite([api EXCEPT !.gen = api.gen + 1, !.spec = s])
    /\ UNCHANGED <<edits, events, ghosts>>

\* patchForceSync, for a resource whose cached spec has the item of the event:
\* a second event within a second leaves the annotation, and the resource, as
\* they are.
Webhook ==
    /\ api.present /\ cache.spec.keys # {} /\ events < MaxEvents
    /\ events' = events + 1
    /\ IF api.force = Stored(Now)
         THEN UNCHANGED <<crVars, qVars, recVars, remote, storeReady, faults,
                          secret, pods, notified>>
         ELSE /\ OutsideWrite([api EXCEPT !.force = Stored(Now)])
              /\ notified' = remote
    /\ UNCHANGED <<edits, applied>>

\* A user asks for a sync with an annotation that is not an RFC 3339 time.
Annotate ==
    /\ api.present /\ api.force # Unparsable /\ events < MaxEvents
    /\ events' = events + 1
    /\ OutsideWrite([api EXCEPT !.force = Unparsable])
    /\ notified' = remote
    /\ UNCHANGED <<edits, applied>>

\* The API server removes a resource once it has no finalizer.
Delete ==
    /\ MayDelete /\ api.present /\ ~api.deleting
    /\ OutsideWrite([api EXCEPT !.deleting = TRUE, !.present = api.finalizer])
    /\ UNCHANGED <<edits, events, ghosts>>

\* A user removes the finalizer by hand, as nothing else does.
StripFinalizer ==
    /\ api.present /\ api.deleting
    /\ OutsideWrite([api EXCEPT !.finalizer = FALSE, !.present = FALSE])
    /\ UNCHANGED <<edits, events, ghosts>>

SetSecret(s) ==
    /\ secret' = s
    /\ UNCHANGED <<crVars, qVars, recVars, remote, storeReady, faults, events,
                   ghosts, pods>>

EditSecret ==
    /\ secret.exists /\ edits < MaxEdits /\ edits' = edits + 1
    /\ \/ SetSecret([secret EXCEPT !.data = [k \in Keys |-> Foreign]])
       \/ SetSecret(NoSecret)

\* The garbage collector deletes the Secret with its owner.
CollectSecret ==
    /\ ~api.present /\ secret.owned
    /\ SetSecret(NoSecret)
    /\ UNCHANGED edits

RemoteChange(k) ==
    /\ remote[k] < MaxVersion
    /\ remote' = [remote EXCEPT ![k] = @ + 1]
    /\ UNCHANGED <<crVars, qVars, recVars, storeReady, faults, edits, events,
                   ghosts, secret, pods>>

StoreDown ==
    /\ storeReady /\ Fault
    /\ storeReady' = FALSE
    /\ UNCHANGED <<crVars, qVars, recVars, remote, edits, events, ghosts, secret, pods>>

StoreUp ==
    /\ ~storeReady
    /\ storeReady' = TRUE
    /\ UNCHANGED <<crVars, qVars, recVars, remote, faults, edits, events, ghosts,
                   secret, pods>>

Environment ==
    \/ SpecChange \/ Webhook \/ Annotate \/ Delete \/ StripFinalizer
    \/ EditSecret \/ CollectSecret
    \/ \E k \in Keys : RemoteChange(k)
    \/ StoreDown \/ StoreUp

Next ==
    \/ Reconcile \/ Failure
    \/ InformerSync \/ TimerFires \/ Tick \/ Crash
    \/ Environment

Fairness ==
    /\ WF_vars(Reconcile) /\ WF_vars(InformerSync) /\ WF_vars(TimerFires)
    /\ WF_vars(Tick) /\ WF_vars(StoreUp) /\ WF_vars(CollectSecret)

Spec == Init /\ [][Next]_vars
FairSpec == Spec /\ Fairness

-----------------------------------------------------------------------------
(* Properties *)

\* The type of every variable: the shape of the resource, of its copies and of
\* the Secret the controller reads and writes.
TypeOK ==
    /\ api \in Resource /\ cache \in Resource /\ copy \in Resource
    /\ watch \in {"synced", "filtered", "pending"}
    /\ secret \in SecretObject /\ existing \in SecretObject
    /\ remote \in [Keys -> 1 .. MaxVersion]
    /\ storeReady \in BOOLEAN /\ queued \in BOOLEAN /\ copyStale \in BOOLEAN
    /\ pods \in [Targets -> [Keys -> Values]]
    /\ timer \in Nat \cup {NoTimer}
    /\ pc \in {"idle", "finalizer", "target", "check", "fetch", "version", "restart"}
    /\ todo \subseteq IF pc = "restart" THEN Targets ELSE Keys
    /\ data \in [Keys -> Versions] /\ vers \in [Keys -> Versions]
    /\ faults \in 0 .. MaxFaults /\ edits \in 0 .. MaxEdits
    /\ events \in 0 .. MaxEvents
    /\ applied \in [gen : 0 .. MaxGen, data : [Keys -> Versions]]
    /\ notified \in [Keys -> Versions]

\* A resource whose status says that its current generation is synced had its
\* Secret written from that very spec: the last write was made for the current
\* generation and has an entry for each of its keys and for no other.  The
\* status update of controller.go:216 is what could claim more: the resource
\* may change at any point of the sync.
SyncedMeansApplied ==
    api.synced = api.gen =>
        /\ applied.gen = api.gen
        /\ Entries(applied.data) = api.spec.keys

\* A force-sync request older than the recorded refresh is covered by it: the
\* values last written to the Secret are at least as recent as the items were
\* when the annotation was set.  This is what entitles ForceSyncPending
\* (refresh.go:124) to drop the request; it rests on the conflict that fails
\* the status update of a sync begun before the annotation.
EventCovered ==
    (api.force > NoAnnotation /\ api.refresh > api.force) =>
        \A k \in Entries(applied.data) : applied.data[k] >= notified[k]

\* The controller never abandons a live resource: between two calls of
\* Reconcile there is always a queue entry, a delayed add or a watch event that
\* will bring it back, on every return path of Reconcile (controller.go:97-226).
NeverAbandoned ==
    (pc = "idle" /\ api.present /\ ~api.deleting) =>
        queued \/ timer # NoTimer \/ watch = "pending"

\* The restarts follow the data: whenever the controller rests, the pods of
\* every restart target have read what the Secret holds (controller.go:206-213).
RolloutFollows ==
    (pc = "idle" /\ secret.managed) => \A t \in Targets : pods[t] = secret.data

\* The policies that fetch the values anew on every interval.
Scheduled(r) == r.spec.policy \notin {"CreatedOnce", "OnSpecChange"}

\* The Secret holds the current version of every item of the current spec.
ValuesInSync ==
    /\ secret.exists
    /\ \A k \in Keys :
          secret.data[k] = IF k \in api.spec.keys THEN remote[k] ELSE None

\* It does, and the status says so.
InSync == ValuesInSync /\ api.synced = api.gen /\ api.ready = "True"

\* Once the items, the specs and the failures settle, a policy with an interval
\* brings the Secret and the status up to date and keeps them there, whatever
\* was lost on the way: an event, a status update, a version read too late, an
\* edit of the Secret nobody watches (controller.go:139-226).
Converges == <>[]InSync

\* With a provider that cannot read the versions of items every version check
\* fails and is retried (controller.go:141-146); the values still get there,
\* because no failure puts off the full sync of the next interval.
ValuesConverge == <>[]((Scheduled(api) /\ ~api.deleting) => ValuesInSync)

\* Whatever the policy, a Secret that users stop editing and deleting ends up
\* with the data the controller wrote last: no event tells the controller, only
\* the delayed adds of its return paths and IsManagedSecretValid bring it to
\* look again (controller.go:139).
SelfHeals ==
    <>[](~api.deleting => secret.exists /\ secret.data = applied.data)

\* The pods end up with the data of the Secret.
PodsFollow == <>[](\A t \in Targets : pods[t] = secret.data)

\* A resource whose store is ready for good ends up Ready.
ReadyEventually == <>[](api.ready = "True")

\* A deleted resource goes away.
DeletionCompletes == api.deleting ~> ~api.present

-----------------------------------------------------------------------------
(* The promise of the controller, as the module SecretSync states it *)

\* The request that is open: the last one, unless a recorded refresh covers it.
OpenRequest ==
    IF api.force = Unparsable \/ (api.force > NoAnnotation /\ api.refresh <= api.force)
      THEN notified ELSE Nothing

Sync == INSTANCE SecretSync WITH
            ItemVersions <- 1 .. MaxVersion, gen <- api.gen, keys <- api.spec.keys,
            items <- remote, written <- applied, claimed <- api.synced,
            request <- OpenRequest

\* Every step of the controller and its surroundings is one of SecretSync or no
\* step of it: in particular no write of the Secret (controller.go:200) goes back
\* to an earlier generation or an older value, although calls start from a cache
\* that lags and a crash forgets what the last call had read.
ImplementsSync == Sync!Spec
=============================================================================
