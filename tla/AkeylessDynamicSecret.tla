------------------------ MODULE AkeylessDynamicSecret ------------------------
(***************************************************************************)
(* The AkeylessDynamicSecret controller (pkg/controllers/                  *)
(* akeylessdynamicsecret) with one resource, its target Secret and the     *)
(* dynamic and rotated items it may name.  Reading a dynamic item makes a  *)
(* new credential, which expires some time after it was written; reading a *)
(* rotated item gives its present version.  The API server, the watch      *)
(* cache, the work queue and the clock are those of AkeylessSecret.        *)
(***************************************************************************)
EXTENDS RefreshPolicy

CONSTANTS
    Paths,         \* the items of Akeyless
    Dynamic,       \* those that make a credential on every read
    Targets,       \* spec.rolloutRestartTargets
    Specs,         \* the specs a user may write: [policy, path]
    SyncInterval,  \* spec.syncInterval in half seconds, 0 when unset
    DefaultPoll,   \* the interval when it is unset (1 minute)
    StoreRetry,    \* the delay after a store that is not ready (1 minute)
    NowSec,        \* the present, in seconds from the oldest time kept
    MaxVersion, MaxGen, MaxDisturbances   \* bounds

ASSUME DynamicAssumption ==
    /\ Dynamic \subseteq Paths
    /\ Specs \subseteq [policy : SyncPolicies \cup {""}, path : Paths]
    /\ Specs # {}

ASSUME DynamicTimeAssumption ==
    /\ SyncInterval \in Nat
    /\ DefaultPoll \in Nat \ {0} /\ StoreRetry \in Nat \ {0}
    /\ NowSec \in Nat /\ NowSec >= 3

ASSUME DynamicBoundAssumption ==
    /\ MaxVersion \in Nat \ {0} /\ MaxGen \in Nat \ {0}
    /\ MaxDisturbances \in Nat

VARIABLES
    api, cache, watch,   \* the resource, in the API server and in the watch cache
    secret,              \* the target Secret
    behind,              \* the targets whose pods lack the last value written
    remote,              \* the version of every item
    readable,            \* whether the provider can read versions
    storeReady,
    queued, timer,       \* the work queue
    pc, copy, copyStale, existing, todo, held, vers,   \* one call of Reconcile
    faults, changes,                \* what was used of the bounds
    applied, notified, wasted       \* history, read by properties

crVars  == <<api, cache, watch>>
qVars   == <<queued, timer>>
extVars == <<remote, readable, storeReady, faults, changes>>
recVars == <<pc, copy, copyStale, existing, todo, held, vers>>
ghosts  == <<applied, notified, wasted>>
vars == <<crVars, qVars, extVars, recVars, ghosts, secret, behind>>

Now == Second * NowSec + 1
NoTimer == -1
Times == 0 .. Now
Versions == {None} \cup 1 .. MaxVersion
Nothing == [p \in Paths |-> None]

Resource == [gen : 1 .. MaxGen, spec : Specs, force : Times \cup {Unparsable},
             finalizer : BOOLEAN, deleting : BOOLEAN, synced : 0 .. MaxGen,
             refresh : Times, versions : [Paths -> Versions],
             ready : {"none", "True", "False"}]

\* A value read from an item.
Value == [path : Paths, version : 1 .. MaxVersion]

\* The Secret, the value last written to it, whether its data is still that, and
\* whether it is a credential that has expired.
SecretObject == [exists : BOOLEAN, edited : BOOLEAN, expired : BOOLEAN, value : Value]

\* No value yet: of no importance.
NoValue == [path |-> CHOOSE p \in Paths : TRUE, version |-> 1]
NoSecret == [exists |-> FALSE, edited |-> FALSE, expired |-> FALSE, value |-> NoValue]

IsManagedSecretValid(s) == s.exists /\ ~s.edited

refreshConfig(r) ==
    [policy |-> r.spec.policy, syncInterval |-> SyncInterval,
     defaultPoll |-> DefaultPoll, gen |-> r.gen, synced |-> r.synced,
     refresh |-> r.refresh, force |-> r.force]

shouldSync(r) == ShouldSync(refreshConfig(r), Now)

requeueAfter(r) == RequeueAfter(refreshConfig(r), Now)

ReconcileOnUpdate(old, new) ==
    old.gen # new.gen \/ old.deleting # new.deleting \/ old.force # new.force

AddAfter(d) == timer' = IF timer = NoTimer \/ d < timer THEN d ELSE timer
AddRateLimited == AddAfter(0)
Requeue(d) == IF d > 0 THEN AddAfter(d) ELSE UNCHANGED timer

Write(new) ==
    /\ api' = new
    /\ watch' = IF watch = "pending" \/ ReconcileOnUpdate(api, new)
                  THEN "pending" ELSE "filtered"

Fault == faults + changes < MaxDisturbances /\ faults' = faults + 1
Change == faults + changes < MaxDisturbances /\ changes' = changes + 1

\* A credential held by a call that ends before writing it is lost.
Lost == IF pc \in {"version", "apply"} /\ held.path \in Dynamic THEN 1 ELSE 0

-----------------------------------------------------------------------------
Created(s) ==
    [gen |-> 1, spec |-> s, force |-> NoAnnotation, finalizer |-> FALSE,
     deleting |-> FALSE, synced |-> 0, refresh |-> ZeroTime, versions |-> Nothing,
     ready |-> "none"]

NoCopy == Created(CHOOSE s \in Specs : TRUE)

Init ==
    /\ \E s \in Specs : api = Created(s)
    /\ cache = api /\ watch = "synced" /\ queued = TRUE /\ timer = NoTimer
    /\ secret = NoSecret /\ behind = {}
    /\ remote = [p \in Paths |-> 1]
    /\ readable \in BOOLEAN /\ storeReady = TRUE
    /\ pc = "idle" /\ copy = NoCopy /\ copyStale = FALSE /\ existing = NoSecret
    /\ todo = {} /\ held = NoValue /\ vers = None
    /\ faults = 0 /\ changes = 0
    /\ applied = [gen |-> 0, data |-> Nothing] /\ notified = Nothing /\ wasted = 0

-----------------------------------------------------------------------------
(* Reconcile *)

Done ==
    /\ pc' = "idle" /\ copy' = NoCopy /\ copyStale' = FALSE /\ existing' = NoSecret
    /\ todo' = {} /\ held' = NoValue /\ vers' = None
    /\ wasted' = wasted + Lost

Begin ==
    /\ pc = "idle" /\ queued
    /\ queued' = FALSE
    /\ IF cache.deleting
         THEN Done
         ELSE /\ copy' = cache /\ copyStale' = (watch # "synced")
              /\ pc' = IF cache.finalizer THEN "target" ELSE "finalizer"
              /\ UNCHANGED <<existing, todo, held, vers, wasted>>
    /\ UNCHANGED <<crVars, extVars, applied, notified, secret, behind, timer>>

AddFinalizer ==
    /\ pc = "finalizer"
    /\ \/ /\ ~copyStale
          /\ Write([api EXCEPT !.finalizer = TRUE])
          /\ copy' = [copy EXCEPT !.finalizer = TRUE]
          /\ pc' = "target"
          /\ UNCHANGED <<cache, faults, timer, copyStale, existing, todo, held, vers, wasted>>
       \/ /\ \/ copyStale /\ UNCHANGED faults
             \/ Fault
          /\ AddRateLimited
          /\ Done
          /\ UNCHANGED crVars
    /\ UNCHANGED <<remote, readable, storeReady, changes, applied, notified,
                   secret, behind, queued>>

\* markFailed, then Status().Update whose error is ignored.
markFailed(r) ==
    \/ /\ ~copyStale
       /\ Write([api EXCEPT !.ready = "False", !.versions = r.versions])
       /\ UNCHANGED cache
    \/ UNCHANGED crVars

\* An error after the store check: condition, then the rate-limited retry.
Fails ==
    /\ markFailed(copy)
    /\ AddRateLimited
    /\ Done
    /\ UNCHANGED <<remote, readable, storeReady, changes, applied, notified,
                   secret, behind, queued>>

\* The Secret, the store's condition and the decision, as in AkeylessSecret.
Decide ==
    /\ pc = "target"
    /\ LET skip == ~shouldSync(copy) /\ IsManagedSecretValid(secret)
           polls == PollsVersions(NormalizedPolicy(refreshConfig(copy)))
       IN  \/ /\ ~storeReady
              /\ markFailed(copy)
              /\ Requeue(StoreRetry)
              /\ Done
           \/ /\ storeReady /\ skip /\ ~polls
              /\ Requeue(requeueAfter(copy))
              /\ Done
              /\ UNCHANGED crVars
           \/ /\ storeReady /\ (skip => polls)
              /\ pc' = IF skip THEN "check" ELSE "fetch"
              /\ existing' = [secret EXCEPT !.expired = FALSE]
              /\ UNCHANGED <<crVars, timer, copy, copyStale, todo, held, vers, wasted>>
    /\ UNCHANGED <<extVars, applied, notified, secret, behind, queued>>

TargetFails ==
    /\ pc = "target" /\ Fault
    /\ AddRateLimited
    /\ Done
    /\ UNCHANGED <<crVars, remote, readable, storeReady, changes, applied,
                   notified, secret, behind, queued>>

\* The recorded version of the item; a missing one reads as 0.
RecordedVersion(r) == Lookup(r.versions, r.spec.path)

\* checkRemoteVersion: the same version, and the call rests; or another one,
\* which is noted in the copy's status, and the sync goes on.
CheckVersion ==
    /\ pc = "check" /\ readable
    /\ LET version == remote[copy.spec.path]
       IN  IF RecordedVersion(copy) = version
             THEN Requeue(requeueAfter(copy)) /\ Done
             ELSE /\ copy' = [copy EXCEPT !.versions[copy.spec.path] = version]
                  /\ pc' = "fetch"
                  /\ UNCHANGED <<timer, copyStale, existing, todo, held, vers, wasted>>
    /\ UNCHANGED <<crVars, extVars, applied, notified, secret, behind, queued>>

CheckFails ==
    /\ pc = "check"
    /\ \/ ~readable /\ UNCHANGED faults
       \/ Fault
    /\ Fails

\* GetSecret: a dynamic item makes a credential.
Fetch ==
    /\ pc = "fetch"
    /\ held' = [path |-> copy.spec.path, version |-> remote[copy.spec.path]]
    /\ pc' = "version"
    /\ UNCHANGED <<crVars, qVars, extVars, ghosts, secret, behind, copy, copyStale,
                   existing, todo, vers>>

\* ResolveStore, NewClient or GetSecret fails.
FetchFails == pc = "fetch" /\ Fault /\ Fails

\* Mutant: a version that cannot be read fails the sync.
FetchVersionOrFail ==
    /\ pc = "version"
    /\ \/ /\ readable
          /\ vers' = remote[copy.spec.path] /\ pc' = "apply"
          /\ UNCHANGED <<crVars, qVars, extVars, ghosts, secret, behind, copy,
                         copyStale, existing, todo, held>>
       \/ ~readable /\ UNCHANGED faults /\ Fails

\* Mutant: the error is not checked and the zero value recorded.
FetchVersionUnchecked ==
    /\ pc = "version"
    /\ vers' = IF readable THEN remote[copy.spec.path] ELSE 0
    /\ pc' = "apply"
    /\ UNCHANGED <<crVars, qVars, extVars, ghosts, secret, behind, copy, copyStale,
                   existing, todo, held>>

\* The version of the item just read; one that cannot be read is logged only.
FetchVersion ==
    /\ pc = "version"
    /\ \/ readable /\ vers' = remote[copy.spec.path] /\ UNCHANGED faults
       \/ ~readable /\ UNCHANGED <<vers, faults>>
       \/ Fault /\ UNCHANGED vers
    /\ pc' = "apply"
    /\ UNCHANGED <<crVars, qVars, remote, readable, storeReady, changes, ghosts,
                   secret, behind, copy, copyStale, existing, todo, held>>

\* Two values have the same hash: never two reads of a dynamic item.
SameValue(a, b) == a.path = b.path /\ a.version = b.version /\ a.path \notin Dynamic

\* Mutant: a Secret that holds a valid value of the item is not restarted for.
RestartsForItem(old, value) ==
    IF old.exists /\ old.value.path = value.path THEN {} ELSE Targets

\* The restarts: when the hash of the Secret found at the start differs.
RestartsNeeded(old, value) ==
    IF old.exists /\ SameValue(old.value, value) THEN {} ELSE Targets

\* ApplyManagedSecret.
Apply ==
    /\ pc = "apply"
    /\ secret' = [exists |-> TRUE, edited |-> FALSE, expired |-> FALSE, value |-> held]
    /\ behind' = IF secret.exists /\ SameValue(secret.value, held) THEN behind ELSE Targets
    /\ applied' = [gen |-> copy.gen,
                   data |-> [Nothing EXCEPT ![held.path] = held.version]]
    /\ pc' = "restart"
    /\ todo' = RestartsNeeded(existing, held)
    /\ UNCHANGED <<crVars, qVars, extVars, notified, wasted, copy, copyStale,
                   existing, held, vers>>

ApplyFails == pc = "apply" /\ Fault /\ Fails

Restart(t) ==
    /\ pc = "restart" /\ t \in todo
    /\ behind' = behind \ {t}
    /\ todo' = todo \ {t}
    /\ UNCHANGED <<crVars, qVars, extVars, ghosts, secret, pc, copy, copyStale,
                   existing, held, vers>>

RestartFails == pc = "restart" /\ todo # {} /\ Fault /\ Fails

SyncedStatus(r) ==
    [r EXCEPT !.refresh = Stored(Now), !.synced = copy.gen, !.ready = "True",
              !.versions = IF vers = None THEN copy.versions
                           ELSE [Nothing EXCEPT ![copy.spec.path] = vers]]

\* Mutant: the status is written with a merge patch, which never conflicts.
PatchStatus ==
    /\ pc = "restart" /\ todo = {}
    /\ Write(SyncedStatus(api))
    /\ Requeue(requeueAfter(copy))
    /\ Done
    /\ UNCHANGED <<cache, extVars, applied, notified, secret, behind, queued>>

\* The delay is computed from the configuration read before the sync, so from
\* the refresh time before this one.
UpdateStatus ==
    /\ pc = "restart" /\ todo = {}
    /\ \/ /\ ~copyStale
          /\ Write(SyncedStatus(api))
          /\ Requeue(requeueAfter(copy))
          /\ UNCHANGED <<cache, faults>>
       \/ /\ \/ copyStale /\ UNCHANGED faults
             \/ Fault
          /\ AddRateLimited
          /\ UNCHANGED crVars
    /\ Done
    /\ UNCHANGED <<remote, readable, storeReady, changes, applied, notified,
                   secret, behind, queued>>

Reconcile ==
    \/ Begin \/ AddFinalizer \/ Decide \/ CheckVersion \/ CheckFails
    \/ Fetch \/ FetchVersion \/ Apply \/ UpdateStatus
    \/ \E t \in Targets : Restart(t)

Failure == TargetFails \/ FetchFails \/ ApplyFails \/ RestartFails

-----------------------------------------------------------------------------
(* The cache, the queue, the clock, the process and the world *)

InformerSync ==
    /\ watch # "synced"
    /\ cache' = api /\ watch' = "synced"
    /\ queued' = (queued \/ watch = "pending")
    /\ UNCHANGED <<api, timer, extVars, recVars, ghosts, secret, behind>>

TimerFires ==
    /\ timer = 0
    /\ timer' = NoTimer /\ queued' = TRUE
    /\ UNCHANGED <<crVars, extVars, recVars, ghosts, secret, behind>>

Later(a, b) == IF a > b THEN a ELSE b

\* A stored time a second later; the oldest two seconds hold every older time.
Older(t, other) ==
    IF t <= 0 THEN t
    ELSE Later(t - Second, IF t > other THEN 2 * Second ELSE Second)

Aged(r) == [r EXCEPT !.refresh = Older(r.refresh, r.force),
                     !.force = Older(r.force, r.refresh)]

Tick ==
    /\ api' = Aged(api) /\ cache' = Aged(cache) /\ copy' = Aged(copy)
    /\ timer' = IF timer > 0 THEN Later(timer - Second, 0) ELSE timer
    /\ UNCHANGED <<watch, queued, extVars, ghosts, secret, behind, pc, copyStale,
                   existing, todo, held, vers>>

Crash ==
    /\ Fault
    /\ Done
    /\ cache' = api /\ watch' = "synced"
    /\ queued' = TRUE /\ timer' = NoTimer
    /\ UNCHANGED <<api, remote, readable, storeReady, changes, applied, notified,
                   secret, behind>>

\* A write by somebody else: the controller's copy becomes stale.
OutsideWrite(new) ==
    /\ Write(new)
    /\ copyStale' = (pc # "idle")
    /\ UNCHANGED <<cache, qVars, pc, copy, existing, todo, held, vers, remote, readable,
                   storeReady, faults, secret, behind, applied, wasted>>

SpecChange ==
    /\ ~api.deleting /\ api.gen < MaxGen
    /\ \E s \in Specs \ {api.spec} :
          OutsideWrite([api EXCEPT !.gen = api.gen + 1, !.spec = s])
    /\ Change /\ UNCHANGED notified

\* patchForceSync, for a resource whose cached spec names the item of the event.
Webhook ==
    /\ Change
    /\ api.force # Stored(Now) /\ (api.deleting => api.finalizer)
    /\ OutsideWrite([api EXCEPT !.force = Stored(Now)])
    /\ notified' = remote

\* The resource is deleted, or keeps the finalizer for ever: to Reconcile the two
\* look the same.
Delete ==
    /\ ~api.deleting
    /\ OutsideWrite([api EXCEPT !.deleting = TRUE])
    /\ Change /\ UNCHANGED notified

EditSecret ==
    /\ secret.exists /\ Change
    /\ \/ secret' = [secret EXCEPT !.edited = TRUE]
       \/ secret' = NoSecret
    /\ UNCHANGED <<crVars, qVars, recVars, remote, readable, storeReady, faults, ghosts, behind>>

\* The lease of the Secret's credential ends, at any time.
Expire ==
    /\ secret.exists /\ ~secret.expired /\ secret.value.path \in Dynamic
    /\ secret' = [secret EXCEPT !.expired = TRUE]
    /\ UNCHANGED <<crVars, qVars, recVars, extVars, ghosts, behind>>

RemoteChange(p) ==
    /\ remote[p] < MaxVersion /\ Change
    /\ remote' = [remote EXCEPT ![p] = @ + 1]
    /\ UNCHANGED <<crVars, qVars, recVars, readable, storeReady, faults, ghosts,
                   secret, behind>>

StoreDown ==
    /\ storeReady /\ Fault
    /\ storeReady' = FALSE
    /\ UNCHANGED <<crVars, qVars, recVars, remote, readable, changes, ghosts,
                   secret, behind>>

StoreUp ==
    /\ ~storeReady
    /\ storeReady' = TRUE
    /\ UNCHANGED <<crVars, qVars, recVars, remote, readable, faults, changes,
                   ghosts, secret, behind>>

Environment ==
    \/ SpecChange \/ Webhook \/ Delete \/ EditSecret \/ Expire
    \/ \E p \in Paths : RemoteChange(p)
    \/ StoreDown \/ StoreUp

Next ==
    \/ Reconcile \/ Failure
    \/ InformerSync \/ TimerFires \/ Tick \/ Crash
    \/ Environment

Fairness ==
    /\ WF_vars(Reconcile) /\ WF_vars(InformerSync) /\ WF_vars(TimerFires)
    /\ WF_vars(Tick) /\ WF_vars(StoreUp)

Spec == Init /\ [][Next]_vars
FairSpec == Spec /\ Fairness

-----------------------------------------------------------------------------
(* Properties *)

\* The type of every variable.
TypeOK ==
    /\ api \in Resource /\ cache \in Resource /\ copy \in Resource
    /\ watch \in {"synced", "filtered", "pending"}
    /\ secret \in SecretObject /\ existing \in SecretObject /\ held \in Value
    /\ behind \subseteq Targets /\ todo \subseteq Targets
    /\ remote \in [Paths -> 1 .. MaxVersion] /\ vers \in Versions
    /\ readable \in BOOLEAN /\ storeReady \in BOOLEAN /\ queued \in BOOLEAN
    /\ copyStale \in BOOLEAN /\ timer \in Nat \cup {NoTimer}
    /\ pc \in {"idle", "finalizer", "target", "check", "fetch", "version", "apply",
               "restart"}
    /\ faults \in 0 .. MaxDisturbances /\ changes \in 0 .. MaxDisturbances
    /\ applied \in [gen : 0 .. MaxGen, data : [Paths -> Versions]]
    /\ notified \in [Paths -> Versions] /\ wasted \in Nat

\* A credential that was made and never written to the Secret is the price of a
\* failure: every other call that reads a dynamic item (controller.go:184) writes
\* what it read.
OneLostPerFailure == wasted <= faults

\* A policy with an interval, for an item that makes credentials.
Renews(r) ==
    /\ r.spec.policy \notin {"CreatedOnce", "OnSpecChange"}
    /\ r.spec.path \in Dynamic /\ ~r.deleting

\* An expired credential is always replaced by a new one: the interval brings a
\* call, whatever failed, and the call a full sync (controller.go:139-227).
LeaseRenewed == []<>(Renews(api) => secret.exists /\ ~secret.expired)

\* No restart of a dynamic credential is lost for good: the pods of every restart
\* target catch up with the Secret again and again, since the retry after a
\* failure makes another credential and so another hash (controller.go:206-213).
PodsCatchUp == []<>(Renews(api) => behind = {})

-----------------------------------------------------------------------------
\* The request that is open: the last one, unless a recorded refresh covers it.
OpenRequest ==
    IF api.force > NoAnnotation /\ api.refresh <= api.force THEN notified ELSE Nothing

Sync == INSTANCE SecretSync WITH
            Keys <- Paths, ItemVersions <- 1 .. MaxVersion,
            gen <- api.gen, keys <- {api.spec.path}, items <- remote,
            written <- applied, claimed <- api.synced, request <- OpenRequest

\* This controller keeps the promise of SecretSync, as AkeylessSecret does: its
\* writes and its status speak of a whole snapshot of the spec (controller.go:97-221).
ImplementsSync == Sync!Spec
=============================================================================
