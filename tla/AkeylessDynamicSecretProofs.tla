-------------------- MODULE AkeylessDynamicSecretProofs --------------------
(***************************************************************************)
(* Of AkeylessDynamicSecret, for every set of items, specs and restart     *)
(* targets and all bounds: the credentials an item makes and no Secret     *)
(* ever holds are at most one for every failure, crash or outage; every    *)
(* variable keeps its type; and the controller implements SecretSync.      *)
(***************************************************************************)
EXTENDS AkeylessDynamicSecret, TLAPS

\* The counts, and the steps between the read of a credential and its write.
LossInv == wasted \in Nat /\ faults \in Nat /\ wasted <= faults

\* A call loses at most one credential, and only after it has read one.
LEMMA LossBound ==
    /\ Lost \in {0, 1}
    /\ pc \notin {"version", "apply"} => Lost = 0
BY DEF Lost

\* A call that ends without holding a credential loses none.
LEMMA EndsEmpty ==
    ASSUME LossInv, Done, pc \notin {"version", "apply"},
           faults' = faults \/ faults' = faults + 1
    PROVE  LossInv'
BY LossBound DEF LossInv, Done

\* A call that a fault ends loses at most the one it holds.
LEMMA EndsByFault ==
    ASSUME LossInv, Done, Fault
    PROVE  LossInv'
BY LossBound DEF LossInv, Done, Fault

\* A step that loses nothing.
LEMMA LosesNothing ==
    ASSUME LossInv, wasted' = wasted, faults' = faults \/ faults' = faults + 1
    PROVE  LossInv'
BY DEF LossInv

\* Every step that ends a call between the read and the write is a fault.
LEMMA LossStep == LossInv /\ [Next]_vars => LossInv'
<1> SUFFICES ASSUME LossInv, [Next]_vars PROVE LossInv'
  OBVIOUS
<1> USE DEF extVars, recVars, ghosts
<1>1. CASE Begin
  BY <1>1, EndsEmpty, LosesNothing DEF Begin
<1>2. CASE AddFinalizer
  BY <1>2, EndsEmpty, LosesNothing DEF AddFinalizer, Fault
<1>3. CASE Decide
  BY <1>3, EndsEmpty, LosesNothing DEF Decide
<1>4. CASE CheckVersion
  BY <1>4, EndsEmpty, LosesNothing DEF CheckVersion
<1>5. CASE CheckFails
  BY <1>5, EndsEmpty DEF CheckFails, Fails, Fault
<1>6. CASE Fetch \/ FetchVersion \/ Apply \/ \E t \in Targets : Restart(t)
  BY <1>6, LosesNothing DEF Fetch, FetchVersion, Apply, Restart, Fault
<1>7. CASE UpdateStatus
  BY <1>7, EndsEmpty DEF UpdateStatus, Fault
<1>8. CASE Failure
  BY <1>8, EndsByFault DEF Failure, TargetFails, FetchFails, ApplyFails, RestartFails, Fails
<1>9. CASE InformerSync \/ TimerFires \/ Tick
  BY <1>9, LosesNothing DEF InformerSync, TimerFires, Tick
<1>10. CASE Crash
  BY <1>10, EndsByFault DEF Crash
<1>11. CASE Environment
  <2>1. wasted' = wasted /\ (faults' = faults \/ faults' = faults + 1)
    BY <1>11 DEF Environment, SpecChange, Webhook, Delete, OutsideWrite, EditSecret, Expire,
                 RemoteChange, StoreDown, StoreUp, Fault
  <2> QED BY <2>1, LosesNothing
<1>12. CASE UNCHANGED vars
  BY <1>12, LosesNothing DEF vars
<1> QED BY <1>1, <1>2, <1>3, <1>4, <1>5, <1>6, <1>7, <1>8, <1>9, <1>10, <1>11, <1>12
        DEF Next, Reconcile

\* Every credential that was made and never written is the price of a failure: no other
\* path of Reconcile ends between the read of the item and the write of the Secret
\* (controller.go:184-207).
THEOREM LossesAreFailures == Spec => []OneLostPerFailure
<1>1. Init => LossInv
  BY DEF Init, LossInv
<1>2. LossInv => OneLostPerFailure
  BY DEF LossInv, OneLostPerFailure
<1> QED BY <1>1, <1>2, LossStep, PTL DEF Spec

-----------------------------------------------------------------------------
(* Types *)

\* The clock: a time written now is a whole second, and one of Times.
LEMMA NowFacts ==
    /\ Now \in Nat /\ Now >= 7
    /\ Stored(Now) = Second * NowSec
    /\ Stored(Now) \in Times /\ Stored(Now) > 2 * Second
<1>1. NowSec \in Nat /\ NowSec >= 3
  BY DynamicTimeAssumption
<1>2. Now = 2 * NowSec + 1
  BY DEF Now, Second
<1>3. (2 * NowSec + 1) % 2 = 1
  BY <1>1
<1>4. Stored(Now) = 2 * NowSec
  BY <1>1, <1>2, <1>3 DEF Stored, Second
<1> QED BY <1>1, <1>2, <1>4 DEF Times, Second

\* The times and the generations of a resource are integers, its path an item.
LEMMA ResourceFacts ==
    ASSUME NEW r \in Resource
    PROVE  /\ r.gen \in Int /\ r.synced \in Int /\ r.refresh \in Int /\ r.force \in Int
           /\ 0 <= r.refresh
           /\ r.gen \in 0 .. MaxGen
           /\ r.gen < MaxGen => r.gen + 1 \in 1 .. MaxGen
           /\ r.spec \in Specs /\ r.spec.path \in Paths
<1>1. r.gen \in 1 .. MaxGen /\ r.synced \in 0 .. MaxGen /\ r.spec \in Specs
  BY DEF Resource
<1>2. r.refresh \in 0 .. Now /\ r.force \in (0 .. Now) \cup {-1}
  BY DEF Resource, Times, Unparsable
<1>3. r.spec.path \in Paths
  BY <1>1, DynamicAssumption
<1>4. MaxGen \in Nat /\ Now \in Nat
  BY DynamicBoundAssumption, NowFacts
<1> QED BY <1>1, <1>2, <1>3, <1>4

\* Ageing changes the two times of a resource and nothing else, never reaches the
\* present, and neither opens nor closes a request.
LEMMA AgedFacts ==
    ASSUME NEW r \in Resource
    PROVE  /\ Aged(r) \in Resource
           /\ Aged(r).gen = r.gen /\ Aged(r).spec = r.spec /\ Aged(r).synced = r.synced
           /\ r.refresh <= Stored(Now) => Aged(r).refresh <= Stored(Now)
           /\ (Aged(r).force > NoAnnotation /\ Aged(r).refresh <= Aged(r).force)
                <=> (r.force > NoAnnotation /\ r.refresh <= r.force)
<1>1. /\ Aged(r).gen = r.gen /\ Aged(r).spec = r.spec /\ Aged(r).synced = r.synced
      /\ Aged(r).refresh = Older(r.refresh, r.force)
      /\ Aged(r).force = Older(r.force, r.refresh)
  BY DEF Aged, Resource
<1>2. r.refresh \in Int /\ r.force \in Int /\ 0 <= r.refresh
  BY ResourceFacts
<1>3. /\ Older(r.refresh, r.force) \in Times
      /\ Older(r.force, r.refresh) \in Times \cup {Unparsable}
  BY NowFacts DEF Resource, Older, Later, Second, Times, Unparsable
<1>4. Aged(r) \in Resource
  BY <1>3 DEF Aged, Resource
<1>5. r.refresh <= Stored(Now) => Aged(r).refresh <= Stored(Now)
  BY <1>1, <1>2, NowFacts, DynamicTimeAssumption DEF Older, Later, Second
<1>6. (Aged(r).force > NoAnnotation /\ Aged(r).refresh <= Aged(r).force)
         <=> (r.force > NoAnnotation /\ r.refresh <= r.force)
  BY <1>1, <1>2 DEF Older, Later, Second, NoAnnotation
<1> QED BY <1>1, <1>4, <1>5, <1>6

\* The delays Reconcile returns are integers.
LEMMA RequeueType ==
    ASSUME NEW r \in Resource
    PROVE  requeueAfter(r) \in Int
<1> DEFINE c == refreshConfig(r)
<1>1. c.syncInterval \in Nat /\ c.defaultPoll \in Int /\ c.refresh \in Int
  BY DynamicTimeAssumption, ResourceFacts DEF refreshConfig
<1>2. PollInterval \in Int /\ DefaultSyncInterval \in Int
  BY IntervalAssumption
<1> HIDE DEF c
<1>3. Interval(c) \in Int
  BY <1>1, <1>2 DEF Interval
<1>4. RequeueAfter(c, Now) \in Int
  BY <1>1, <1>3, NowFacts DEF RequeueAfter
<1> QED BY <1>4 DEF c, requeueAfter

\* What stands for no value, no Secret, no versions and no copy.
LEMMA NothingTypes ==
    /\ NoValue \in Value /\ NoSecret \in SecretObject
    /\ Nothing \in [Paths -> Versions] /\ None \in Versions
    /\ NoCopy \in Resource
    /\ \A s \in Specs : Created(s) \in Resource
<1>1. (CHOOSE p \in Paths : TRUE) \in Paths /\ 1 \in 1 .. MaxVersion
  <2>1. PICK s \in Specs : s.path \in Paths
    BY DynamicAssumption
  <2> QED BY <2>1, DynamicBoundAssumption
<1>2. NoValue \in Value
  BY <1>1 DEF NoValue, Value
<1>3. NoSecret \in SecretObject
  BY <1>2 DEF NoSecret, SecretObject
<1>4. Nothing \in [Paths -> Versions] /\ None \in Versions
  BY DEF Nothing, Versions
<1>5. ASSUME NEW s \in Specs
      PROVE  Created(s) \in Resource
  <2>1. 1 \in 1 .. MaxGen /\ 0 \in 0 .. MaxGen
    BY DynamicBoundAssumption
  <2>2. 0 \in Times
    BY NowFacts DEF Times
  <2> QED BY <1>4, <2>1, <2>2 DEF Created, Resource, NoAnnotation, ZeroTime
<1>6. (CHOOSE s \in Specs : TRUE) \in Specs
  BY DynamicAssumption
<1> QED BY <1>2, <1>3, <1>4, <1>5, <1>6 DEF NoCopy

\* A write leaves a resource and a watch event.
LEMMA WriteType ==
    ASSUME NEW r \in Resource, Write(r)
    PROVE  api' \in Resource /\ watch' \in {"synced", "filtered", "pending"}
BY DEF Write

\* A delay or a retry leaves a natural number or no delay.
LEMMA TimerType ==
    ASSUME timer \in Nat \cup {NoTimer}, NEW d \in Int, Requeue(d) \/ AddRateLimited
    PROVE  timer' \in Nat \cup {NoTimer}
BY DEF Requeue, AddRateLimited, AddAfter

\* A fault spends one of the disturbances, and so does a change.
LEMMA BoundType ==
    ASSUME faults \in 0 .. MaxDisturbances, changes \in 0 .. MaxDisturbances
    PROVE  /\ Fault => faults' \in 0 .. MaxDisturbances
           /\ Change => changes' \in 0 .. MaxDisturbances
BY DynamicBoundAssumption DEF Fault, Change

\* markFailed writes a Resource: the condition and the versions change.
LEMMA markFailedType ==
    ASSUME TypeOK, markFailed(copy)
    PROVE  /\ api' \in Resource /\ cache' \in Resource
           /\ watch' \in {"synced", "filtered", "pending"}
<1>1. [api EXCEPT !.ready = "False", !.versions = copy.versions] \in Resource
  BY DEF TypeOK, Resource
<1> QED BY <1>1, WriteType DEF markFailed, TypeOK, crVars

\* The variables of one call of Reconcile.
RecTypeOK ==
    /\ copy \in Resource /\ copyStale \in BOOLEAN /\ existing \in SecretObject
    /\ todo \subseteq Targets /\ held \in Value /\ vers \in Versions /\ wasted \in Nat
    /\ pc \in {"idle", "finalizer", "target", "check", "fetch", "version", "apply",
               "restart"}

\* The end of a call: the controller is idle with no copy.
LEMMA DoneType ==
    ASSUME TypeOK, Done
    PROVE  RecTypeOK'
<1>1. wasted' \in Nat
  BY LossBound DEF Done, TypeOK
<1> QED BY <1>1, NothingTypes DEF Done, RecTypeOK

\* The initial states have the types.
LEMMA InitType ==
    ASSUME Init
    PROVE  TypeOK
<1>1. api \in Resource
  BY NothingTypes DEF Init
<1>2. remote \in [Paths -> 1 .. MaxVersion]
  BY DynamicBoundAssumption DEF Init
<1>3. faults \in 0 .. MaxDisturbances /\ changes \in 0 .. MaxDisturbances
  BY DynamicBoundAssumption DEF Init
<1>4. applied \in [gen : 0 .. MaxGen, data : [Paths -> Versions]]
  BY NothingTypes, DynamicBoundAssumption DEF Init
<1> QED BY <1>1, <1>2, <1>3, <1>4, NothingTypes DEF Init, TypeOK

\* An error after the store check.
LEMMA FailsType ==
    ASSUME TypeOK, Fails, faults' \in 0 .. MaxDisturbances
    PROVE  TypeOK'
<1>1. RecTypeOK'
  BY DoneType DEF Fails
<1>2. timer' \in Nat \cup {NoTimer}
  BY TimerType DEF Fails, TypeOK
<1>3. /\ api' \in Resource /\ cache' \in Resource
      /\ watch' \in {"synced", "filtered", "pending"}
  BY markFailedType DEF Fails
<1> QED BY <1>1, <1>2, <1>3 DEF Fails, TypeOK, RecTypeOK

\* The value written and the status that follows it.
LEMMA SyncTypes ==
    ASSUME TypeOK
    PROVE  /\ [gen |-> copy.gen, data |-> [Nothing EXCEPT ![held.path] = held.version]]
                 \in [gen : 0 .. MaxGen, data : [Paths -> Versions]]
           /\ \A r \in Resource : SyncedStatus(r) \in Resource
<1>1. held.path \in Paths /\ held.version \in Versions /\ copy.gen \in 0 .. MaxGen
  BY ResourceFacts DEF TypeOK, Value, Versions
<1>2. [Nothing EXCEPT ![held.path] = held.version] \in [Paths -> Versions]
  BY <1>1, NothingTypes
<1>3. [Nothing EXCEPT ![copy.spec.path] = vers] \in [Paths -> Versions]
  BY NothingTypes DEF TypeOK
<1>4. Stored(Now) \in Times /\ copy.versions \in [Paths -> Versions]
  BY NowFacts DEF TypeOK, Resource
<1>5. ASSUME NEW r \in Resource
      PROVE  SyncedStatus(r) \in Resource
  BY <1>1, <1>3, <1>4 DEF SyncedStatus, Resource
<1> QED BY <1>1, <1>2, <1>5

\* A write by somebody else.
LEMMA OutsideType ==
    ASSUME TypeOK, NEW r \in Resource, OutsideWrite(r), Change,
           notified' \in [Paths -> Versions]
    PROVE  TypeOK'
BY WriteType, BoundType DEF OutsideWrite, qVars, TypeOK

\* Every step keeps the types.
LEMMA TypeStep ==
    ASSUME TypeOK, [Next]_vars
    PROVE  TypeOK'
<1> USE DEF crVars, qVars, extVars, recVars, ghosts
<1>0. RecTypeOK /\ timer \in Nat \cup {NoTimer} /\ copy \in Resource /\ api \in Resource
  BY DEF TypeOK, RecTypeOK
<1>1. CASE Begin
  <2>1. RecTypeOK'
    BY <1>1, <1>0, DoneType DEF Begin, RecTypeOK, TypeOK
  <2> QED BY <1>1, <2>1 DEF Begin, TypeOK, RecTypeOK
<1>2. CASE AddFinalizer
  <2>1. /\ [api EXCEPT !.finalizer = TRUE] \in Resource
        /\ [copy EXCEPT !.finalizer = TRUE] \in Resource
    BY <1>0 DEF Resource
  <2>2. CASE pc' = "target"
    BY <1>2, <2>1, <2>2, WriteType DEF AddFinalizer, Done, TypeOK
  <2>3. CASE pc' # "target"
    <3>1. RecTypeOK' /\ timer' \in Nat \cup {NoTimer}
      BY <1>0, <1>2, <2>3, DoneType, TimerType DEF AddFinalizer
    <3> QED BY <1>2, <2>3, <3>1, BoundType DEF AddFinalizer, TypeOK, RecTypeOK
  <2> QED BY <2>2, <2>3
<1>3. CASE Decide
  <2>1. timer' \in Nat \cup {NoTimer}
    <3>1. requeueAfter(copy) \in Int /\ StoreRetry \in Int
      BY <1>0, RequeueType, DynamicTimeAssumption
    <3>2. Requeue(StoreRetry) \/ Requeue(requeueAfter(copy)) \/ timer' = timer
      BY <1>3 DEF Decide
    <3> QED BY <1>0, <3>1, <3>2, TimerType
  <2>2. api' \in Resource /\ watch' \in {"synced", "filtered", "pending"}
        /\ cache' \in Resource
    BY <1>3, markFailedType DEF Decide, TypeOK
  <2>3. RecTypeOK'
    <3>1. [secret EXCEPT !.expired = FALSE] \in SecretObject
      BY DEF TypeOK, SecretObject
    <3> QED BY <1>0, <1>3, <3>1, DoneType DEF Decide, RecTypeOK
  <2> QED BY <1>3, <2>1, <2>2, <2>3 DEF Decide, TypeOK, RecTypeOK
<1>4. CASE CheckVersion
  <2>1. timer' \in Nat \cup {NoTimer}
    BY <1>0, <1>4, TimerType, RequeueType DEF CheckVersion
  <2>2. remote[copy.spec.path] \in Versions
    BY <1>0, ResourceFacts DEF TypeOK, Versions
  <2>3. [copy EXCEPT !.versions[copy.spec.path] = remote[copy.spec.path]] \in Resource
    <3> DEFINE v == [copy.versions EXCEPT ![copy.spec.path] = remote[copy.spec.path]]
    <3>1. v \in [Paths -> Versions]
      BY <1>0, <2>2 DEF Resource
    <3>2. [copy EXCEPT !.versions = v] \in Resource
      BY <1>0, <3>1 DEF Resource
    <3> QED BY <3>2
  <2>4. RecTypeOK'
    BY <1>0, <1>4, <2>3, DoneType DEF CheckVersion, RecTypeOK
  <2> QED BY <1>4, <2>1, <2>4 DEF CheckVersion, TypeOK, RecTypeOK
<1>5. CASE CheckFails \/ FetchFails \/ ApplyFails \/ RestartFails
  <2>1. Fails /\ faults' \in 0 .. MaxDisturbances
    BY <1>5, BoundType DEF CheckFails, FetchFails, ApplyFails, RestartFails, TypeOK
  <2> QED BY <2>1, FailsType
<1>6. CASE Fetch
  <2>1. held' \in Value
    BY <1>0, <1>6, ResourceFacts DEF Fetch, TypeOK, Value
  <2> QED BY <1>6, <2>1 DEF Fetch, TypeOK
<1>7. CASE FetchVersion
  <2>1. remote[copy.spec.path] \in Versions
    BY <1>0, ResourceFacts DEF TypeOK, Versions
  <2>2. vers' \in Versions /\ faults' \in 0 .. MaxDisturbances
    BY <1>7, <2>1, BoundType DEF FetchVersion, TypeOK
  <2> QED BY <1>7, <2>2 DEF FetchVersion, TypeOK
<1>8. CASE Apply
  <2>1. secret' \in SecretObject
    BY <1>8 DEF Apply, TypeOK, SecretObject
  <2>2. applied' \in [gen : 0 .. MaxGen, data : [Paths -> Versions]]
    BY <1>8, SyncTypes DEF Apply
  <2>3. behind' \subseteq Targets /\ todo' \subseteq Targets
    BY <1>8 DEF Apply, RestartsNeeded, TypeOK
  <2> QED BY <1>8, <2>1, <2>2, <2>3 DEF Apply, TypeOK
<1>9. CASE UpdateStatus
  <2>1. SyncedStatus(api) \in Resource /\ requeueAfter(copy) \in Int
    BY <1>0, SyncTypes, RequeueType
  <2>2. RecTypeOK' /\ timer' \in Nat \cup {NoTimer}
    BY <1>0, <1>9, <2>1, DoneType, TimerType DEF UpdateStatus
  <2>3. /\ api' \in Resource /\ cache' \in Resource
        /\ watch' \in {"synced", "filtered", "pending"}
    BY <1>9, <2>1, WriteType DEF UpdateStatus, TypeOK
  <2>4. faults' \in 0 .. MaxDisturbances
    BY <1>9, BoundType DEF UpdateStatus, TypeOK
  <2> QED BY <1>9, <2>2, <2>3, <2>4 DEF UpdateStatus, TypeOK, RecTypeOK
<1>10. ASSUME NEW t \in Targets, Restart(t)
       PROVE  TypeOK'
  BY <1>10 DEF Restart, TypeOK
<1>11. CASE TargetFails
  <2>1. RecTypeOK' /\ timer' \in Nat \cup {NoTimer}
    BY <1>0, <1>11, DoneType, TimerType DEF TargetFails
  <2> QED BY <1>11, <2>1, BoundType DEF TargetFails, TypeOK, RecTypeOK
<1>12. CASE InformerSync \/ TimerFires
  BY <1>12 DEF InformerSync, TimerFires, TypeOK
<1>13. CASE Tick
  <2>1. timer' \in Nat \cup {NoTimer}
    BY <1>0, <1>13 DEF Tick, Later, Second, NoTimer
  <2> QED BY <1>13, <2>1, AgedFacts DEF Tick, TypeOK
<1>14. CASE Crash
  <2>1. RecTypeOK'
    BY <1>14, DoneType DEF Crash
  <2> QED BY <1>14, <2>1, BoundType DEF Crash, TypeOK, RecTypeOK
<1>15. CASE SpecChange
  <2>1. PICK s \in Specs : OutsideWrite([api EXCEPT !.gen = api.gen + 1, !.spec = s])
    BY <1>15 DEF SpecChange
  <2>2. [api EXCEPT !.gen = api.gen + 1, !.spec = s] \in Resource
    <3>1. api.gen + 1 \in 1 .. MaxGen
      BY <1>0, <1>15, ResourceFacts DEF SpecChange
    <3> QED BY <1>0, <3>1 DEF Resource
  <2> QED BY <1>15, <2>1, <2>2, OutsideType DEF SpecChange, TypeOK
<1>16. CASE Webhook
  <2>1. [api EXCEPT !.force = Stored(Now)] \in Resource
    BY <1>0, NowFacts DEF Resource
  <2>2. remote \in [Paths -> Versions]
    BY DEF TypeOK, Versions
  <2> QED BY <1>16, <2>1, <2>2, OutsideType DEF Webhook
<1>17. CASE Delete
  <2>1. [api EXCEPT !.deleting = TRUE] \in Resource
    BY <1>0 DEF Resource
  <2> QED BY <1>17, <2>1, OutsideType DEF Delete, TypeOK
<1>18. CASE EditSecret
  <2>1. [secret EXCEPT !.edited = TRUE] \in SecretObject
    BY DEF TypeOK, SecretObject
  <2>2. changes' \in 0 .. MaxDisturbances
    BY <1>18, BoundType DEF EditSecret, TypeOK
  <2> QED BY <1>18, <2>1, <2>2, NothingTypes DEF EditSecret, TypeOK
<1>19. CASE Expire
  <2>1. [secret EXCEPT !.expired = TRUE] \in SecretObject
    BY DEF TypeOK, SecretObject
  <2> QED BY <1>19, <2>1 DEF Expire, TypeOK
<1>20. ASSUME NEW p \in Paths, RemoteChange(p)
       PROVE  TypeOK'
  <2>1. remote \in [Paths -> 1 .. MaxVersion] /\ remote[p] < MaxVersion
    BY <1>20 DEF RemoteChange, TypeOK
  <2>2. remote[p] + 1 \in 1 .. MaxVersion
    BY <2>1, DynamicBoundAssumption
  <2>3. remote' \in [Paths -> 1 .. MaxVersion] /\ changes' \in 0 .. MaxDisturbances
    BY <1>20, <2>1, <2>2, BoundType DEF RemoteChange, TypeOK
  <2> QED BY <1>20, <2>3 DEF RemoteChange, TypeOK
<1>21. CASE StoreDown \/ StoreUp
  BY <1>21, BoundType DEF StoreDown, StoreUp, TypeOK
<1>22. CASE UNCHANGED vars
  BY <1>22 DEF vars, TypeOK
<1> QED
  BY <1>1, <1>2, <1>3, <1>4, <1>5, <1>6, <1>7, <1>8, <1>9, <1>10, <1>11, <1>12, <1>13,
     <1>14, <1>15, <1>16, <1>17, <1>18, <1>19, <1>20, <1>21, <1>22
  DEF Next, Reconcile, Failure, Environment

\* Every variable keeps its type, whatever changes, fails or crashes: the shapes of the
\* resource, of its cached and working copies, of the Secret and of the value held
\* between the read of an item and the write of the Secret (controller.go:97-227).
THEOREM DynamicTypeCorrect == Spec => []TypeOK
<1>1. Init => TypeOK
  BY InitType
<1>2. TypeOK /\ [Next]_vars => TypeOK'
  BY TypeStep
<1> QED BY <1>1, <1>2, PTL DEF Spec

-----------------------------------------------------------------------------
(***************************************************************************)
(* The refinement of SecretSync: how far the copies of the resource lag,   *)
(* what the value a call holds is worth, and what keeps the writes in      *)
(* order.                                                                  *)
(***************************************************************************)

\* The cache is an earlier state of the resource, and never earlier than the generation
\* the status speaks of or the last write was made from.
CacheInv ==
    /\ watch = "synced" => cache = api
    /\ cache.gen <= api.gen
    /\ cache.gen = api.gen => cache.spec = api.spec
    /\ api.synced <= cache.gen
    /\ applied.gen <= cache.gen

\* So is the copy of a running call, and one that is not stale is current.
CopyInv ==
    pc # "idle" =>
        /\ api.synced <= copy.gen
        /\ applied.gen <= copy.gen
        /\ copy.gen <= cache.gen
        /\ copy.gen = api.gen => copy.spec = api.spec
        /\ ~copyStale => copy.gen = api.gen

\* The value a call has read is of the item of its copy, and at last in the Secret.
Holds == pc \in {"version", "apply", "restart"}
HeldInv ==
    /\ Holds => held.path = copy.spec.path
    /\ pc = "restart" =>
          applied = [gen |-> copy.gen,
                     data |-> [Nothing EXCEPT ![held.path] = held.version]]

\* A value is not older than the last write, nor, while the copy is current, than the item
\* was at the last request.
ValueInv ==
    /\ api.refresh <= Stored(Now)
    /\ \A p \in Paths : notified[p] <= remote[p] /\ applied.data[p] <= remote[p]
    /\ Holds => /\ applied.data[held.path] <= held.version
                /\ held.version <= remote[held.path]
                /\ ~copyStale => notified[held.path] <= held.version

SyncInv == CacheInv /\ CopyInv /\ HeldInv /\ ValueInv

\* Versions and generations are integers.
LEMMA IntFacts ==
    ASSUME TypeOK
    PROVE  /\ api \in Resource /\ copy \in Resource /\ cache \in Resource
           /\ api.gen \in Int /\ copy.gen \in Int /\ cache.gen \in Int /\ api.synced \in Int
           /\ applied.gen \in Int /\ applied.data \in [Paths -> Int]
           /\ remote \in [Paths -> Int] /\ notified \in [Paths -> Int]
           /\ held.path \in Paths /\ held.version \in Int /\ held.version # None
<1>1. Versions \subseteq Int /\ 1 .. MaxVersion \subseteq Int /\ 0 .. MaxGen \subseteq Int
      /\ None \notin 1 .. MaxVersion
  BY DynamicBoundAssumption DEF Versions, None
<1> QED BY <1>1, ResourceFacts DEF TypeOK, Value

\* A map with one entry.
LEMMA OneEntry ==
    ASSUME NEW p \in Paths, NEW v \in Int
    PROVE  LET d == [Nothing EXCEPT ![p] = v]
           IN  d[p] = v /\ \A q \in Paths \ {p} : d[q] = None
BY DEF Nothing

\* A step that leaves the generation, the spec and the status of the resource alone, and
\* its copies where they are or at the end of the call.
LEMMA CacheKept ==
    ASSUME SyncInv, UNCHANGED <<cache, applied>>,
           (watch' = watch /\ api' = api) \/ watch' # "synced",
           api'.gen = api.gen, api'.spec = api.spec, api'.synced = api.synced,
           \/ pc' = "idle"
           \/ /\ pc # "idle" /\ copy'.gen = copy.gen /\ copy'.spec = copy.spec
              /\ copyStale' = copyStale \/ copyStale'
    PROVE  CacheInv' /\ CopyInv'
<1>1. CacheInv'
  BY DEF SyncInv, CacheInv
<1>2. CopyInv'
  BY DEF SyncInv, CopyInv
<1> QED BY <1>1, <1>2

\* A step that leaves the value held and the items alone, or ends the call.
LEMMA ValueKept ==
    ASSUME SyncInv, UNCHANGED <<applied, remote, notified>>, api'.refresh <= Stored(Now),
           \/ ~Holds'
           \/ /\ Holds /\ UNCHANGED held /\ copy'.spec = copy.spec /\ copy'.gen = copy.gen
              /\ copyStale' = copyStale \/ copyStale'
              /\ pc' = "restart" => pc = "restart"
    PROVE  HeldInv' /\ ValueInv'
<1>1. HeldInv'
  BY DEF SyncInv, HeldInv, Holds
<1>2. ValueInv'
  BY DEF SyncInv, ValueInv, Holds
<1> QED BY <1>1, <1>2

\* A write of the status or the metadata by the controller.
LEMMA WriteKeeps ==
    ASSUME NEW r, Write(r)
    PROVE  api' = r /\ watch' # "synced"
BY DEF Write

\* What markFailed leaves alone.
LEMMA FailedKeeps ==
    ASSUME TypeOK, markFailed(copy)
    PROVE  /\ UNCHANGED cache /\ ((watch' = watch /\ api' = api) \/ watch' # "synced")
           /\ api'.gen = api.gen /\ api'.spec = api.spec /\ api'.synced = api.synced
           /\ api'.refresh = api.refresh /\ api'.force = api.force
<1>1. CASE UNCHANGED crVars
  BY <1>1 DEF crVars
<1>2. CASE Write([api EXCEPT !.ready = "False", !.versions = copy.versions]) /\ cache' = cache
  <2>1. /\ api' = [api EXCEPT !.ready = "False", !.versions = copy.versions]
        /\ watch' # "synced"
    BY <1>2, WriteKeeps
  <2> QED BY <1>2, <2>1 DEF TypeOK, Resource
<1> QED BY <1>1, <1>2 DEF markFailed

\* Every step of a call of Reconcile keeps the invariant.
LEMMA ReconcileSync ==
    ASSUME TypeOK, SyncInv, Reconcile \/ Failure
    PROVE  SyncInv'
<1> USE DEF crVars, qVars, extVars, recVars, ghosts
<1>0. /\ api \in Resource /\ copy \in Resource /\ cache \in Resource
      /\ api.gen \in Int /\ copy.gen \in Int /\ cache.gen \in Int /\ api.synced \in Int
      /\ applied.gen \in Int /\ applied.data \in [Paths -> Int]
      /\ remote \in [Paths -> Int] /\ notified \in [Paths -> Int]
      /\ held.path \in Paths /\ held.version \in Int
      /\ api.refresh <= Stored(Now)
  BY IntFacts DEF SyncInv, ValueInv
<1>1. ASSUME UNCHANGED <<cache, applied, remote, notified>>,
             (watch' = watch /\ api' = api) \/ watch' # "synced",
             api'.gen = api.gen, api'.spec = api.spec, api'.synced = api.synced,
             api'.refresh <= Stored(Now),
             \/ pc' = "idle"
             \/ /\ pc # "idle" /\ copy'.gen = copy.gen /\ copy'.spec = copy.spec
                /\ UNCHANGED copyStale
                /\ ~Holds' \/ (Holds /\ UNCHANGED held /\ (pc' = "restart" => pc = "restart"))
      PROVE  SyncInv'
  <2>1. CacheInv' /\ CopyInv'
    BY <1>1, CacheKept
  <2>2. HeldInv' /\ ValueInv'
    <3>1. pc' = "idle" => ~Holds'
      BY DEF Holds
    <3> QED BY <1>1, <3>1, ValueKept
  <2> QED BY <2>1, <2>2 DEF SyncInv
<1>2. CASE Begin
  <2>1. CASE cache.deleting
    BY <1>0, <1>1, <1>2, <2>1 DEF Begin, Done
  <2>2. CASE ~cache.deleting
    <3>1. /\ UNCHANGED <<api, cache, watch, applied, remote, notified>>
          /\ copy' = cache /\ copyStale' = (watch # "synced") /\ ~Holds'
      BY <1>2, <2>2 DEF Begin, Holds
    <3>2. CacheInv'
      BY <3>1 DEF SyncInv, CacheInv
    <3>3. CopyInv'
      <4>1. /\ api.synced <= cache.gen /\ applied.gen <= cache.gen /\ cache.gen <= cache.gen
            /\ cache.gen = api.gen => cache.spec = api.spec
            /\ watch = "synced" => cache.gen = api.gen
        BY <1>0 DEF SyncInv, CacheInv
      <4> QED BY <3>1, <4>1, Zenon DEF CopyInv
    <3>4. HeldInv' /\ ValueInv'
      BY <1>0, <3>1, ValueKept
    <3> QED BY <3>2, <3>3, <3>4 DEF SyncInv
  <2> QED BY <2>1, <2>2
<1>3. CASE AddFinalizer
  <2>1. CASE pc' = "idle" /\ UNCHANGED crVars
    BY <1>0, <1>1, <1>3, <2>1 DEF AddFinalizer
  <2>2. CASE pc' = "target"
    <3>1. /\ Write([api EXCEPT !.finalizer = TRUE])
          /\ copy' = [copy EXCEPT !.finalizer = TRUE] /\ pc = "finalizer"
          /\ UNCHANGED <<cache, applied, remote, notified, copyStale>>
      BY <1>3, <2>2 DEF AddFinalizer, Done
    <3>2. api' = [api EXCEPT !.finalizer = TRUE] /\ watch' # "synced"
      BY <3>1, WriteKeeps
    <3>3. /\ api'.gen = api.gen /\ api'.spec = api.spec /\ api'.synced = api.synced
          /\ api'.refresh = api.refresh /\ copy'.gen = copy.gen /\ copy'.spec = copy.spec
      BY <1>0, <3>1, <3>2 DEF Resource
    <3>4. ~Holds'
      BY <2>2 DEF Holds
    <3> QED BY <1>0, <1>1, <3>1, <3>2, <3>3, <3>4
  <2> QED BY <1>3, <2>1, <2>2 DEF AddFinalizer, Done
<1>4. CASE /\ markFailed(copy) /\ Done
           /\ UNCHANGED <<applied, remote, notified>>
  <2>1. pc' = "idle"
    BY <1>4 DEF Done
  <2> QED BY <1>0, <1>1, <1>4, <2>1, FailedKeeps
<1>5. CASE Decide
  <2>1. CASE UNCHANGED <<crVars, copy, copyStale>> /\ pc' \in {"check", "fetch"}
    <3>1. ~Holds' /\ pc # "idle"
      BY <1>5, <2>1 DEF Holds, Decide
    <3> QED BY <1>0, <1>1, <1>5, <2>1, <3>1 DEF Decide
  <2>2. CASE UNCHANGED crVars /\ Done
    BY <1>0, <1>1, <1>5, <2>2 DEF Decide, Done
  <2> QED BY <1>4, <1>5, <2>1, <2>2 DEF Decide
<1>6. CASE CheckVersion
  <2>1. CASE Done
    BY <1>0, <1>1, <1>6, <2>1 DEF CheckVersion, Done
  <2>2. CASE /\ copy' = [copy EXCEPT !.versions[copy.spec.path] = remote[copy.spec.path]]
             /\ pc' = "fetch" /\ UNCHANGED copyStale
    <3>1. copy'.gen = copy.gen /\ copy'.spec = copy.spec
      BY <1>0, <2>2 DEF Resource
    <3>2. ~Holds' /\ pc # "idle"
      BY <1>6, <2>2 DEF Holds, CheckVersion
    <3> QED BY <1>0, <1>1, <1>6, <2>2, <3>1, <3>2 DEF CheckVersion
  <2> QED BY <1>6, <2>1, <2>2 DEF CheckVersion
<1>7. CASE CheckFails \/ FetchFails \/ ApplyFails \/ RestartFails
  BY <1>4, <1>7 DEF CheckFails, FetchFails, ApplyFails, RestartFails, Fails
<1>8. CASE TargetFails
  BY <1>0, <1>1, <1>8 DEF TargetFails, Done
<1>9. CASE Fetch
  <2>1. /\ UNCHANGED <<api, cache, watch, applied, remote, notified, copy, copyStale>>
        /\ pc = "fetch" /\ pc' = "version"
        /\ held' = [path |-> copy.spec.path, version |-> remote[copy.spec.path]]
    BY <1>9 DEF Fetch
  <2>2. CacheInv' /\ CopyInv'
    BY <2>1, CacheKept
  <2>3. HeldInv'
    BY <2>1 DEF HeldInv, Holds
  <2>4. /\ copy.spec.path \in Paths /\ held'.path = copy.spec.path
        /\ held'.version = remote[copy.spec.path]
    BY <1>0, <2>1, ResourceFacts
  <2>5. ValueInv'
    BY <1>0, <2>1, <2>4 DEF SyncInv, ValueInv
  <2> QED BY <2>2, <2>3, <2>5 DEF SyncInv
<1>10. CASE FetchVersion
  <2>1. /\ UNCHANGED <<crVars, applied, remote, notified, copy, copyStale, held>>
        /\ pc = "version" /\ pc' = "apply"
    BY <1>10 DEF FetchVersion
  <2>2. Holds /\ pc # "idle" /\ pc' # "restart"
    BY <2>1 DEF Holds
  <2> QED BY <1>0, <1>1, <2>1, <2>2
<1>11. CASE Apply
  <2> DEFINE d == [Nothing EXCEPT ![held.path] = held.version]
  <2>1. /\ UNCHANGED <<api, cache, watch, remote, notified, copy, copyStale, held>>
        /\ pc = "apply" /\ pc' = "restart" /\ applied' = [gen |-> copy.gen, data |-> d]
    BY <1>11 DEF Apply
  <2>2. d[held.path] = held.version /\ \A q \in Paths \ {held.path} : d[q] = -1
    BY <1>0, OneEntry DEF None
  <2>3. \A q \in Paths : 1 <= remote[q]
    BY DEF TypeOK
  <2>4. HeldInv'
    BY <2>1 DEF SyncInv, HeldInv, Holds
  <2> HIDE DEF d
  <2>5. CacheInv' /\ CopyInv'
    BY <1>0, <2>1 DEF SyncInv, CacheInv, CopyInv
  <2>6. held.version <= remote[held.path]
        /\ (~copyStale => notified[held.path] <= held.version)
    BY <2>1 DEF SyncInv, ValueInv, Holds
  <2>7. \A p \in Paths : d[p] <= remote[p]
    BY <1>0, <2>2, <2>3, <2>6
  <2>8. ValueInv'
    BY <1>0, <2>1, <2>2, <2>6, <2>7 DEF SyncInv, ValueInv
  <2> QED BY <2>4, <2>5, <2>8 DEF SyncInv
<1>12. CASE UpdateStatus
  <2>1. pc' = "idle" /\ UNCHANGED <<cache, applied, remote, notified>> /\ ~Holds'
    BY <1>12 DEF UpdateStatus, Done, Holds
  <2>2. CASE UNCHANGED crVars
    BY <1>0, <1>1, <2>1, <2>2
  <2>3. CASE ~copyStale /\ Write(SyncedStatus(api))
    <3>1. api' = SyncedStatus(api) /\ watch' # "synced"
      BY <2>3, WriteKeeps
    <3>2. /\ api'.gen = api.gen /\ api'.spec = api.spec /\ api'.synced = copy.gen
          /\ api'.refresh = Stored(Now)
      BY <1>0, <3>1 DEF SyncedStatus, Resource
    <3>3. copy.gen <= cache.gen
      BY <1>12 DEF UpdateStatus, SyncInv, CopyInv
    <3>4. CacheInv' /\ CopyInv'
      BY <2>1, <3>1, <3>2, <3>3 DEF SyncInv, CacheInv, CopyInv
    <3>5. Stored(Now) <= Stored(Now)
      BY NowFacts, DynamicTimeAssumption DEF Second
    <3>6. HeldInv' /\ ValueInv'
      BY <2>1, <3>2, <3>5, ValueKept
    <3> QED BY <3>4, <3>6 DEF SyncInv
  <2> QED BY <1>12, <2>2, <2>3 DEF UpdateStatus
<1>13. ASSUME NEW t \in Targets, Restart(t)
       PROVE  SyncInv'
  <2>1. /\ UNCHANGED <<crVars, applied, remote, notified, pc, copy, copyStale, held>>
        /\ pc = "restart"
    BY <1>13 DEF Restart
  <2>2. Holds /\ pc # "idle"
    BY <2>1 DEF Holds
  <2> QED BY <1>0, <1>1, <2>1, <2>2
<1> QED
  BY <1>2, <1>3, <1>5, <1>6, <1>7, <1>8, <1>9, <1>10, <1>11, <1>12, <1>13
  DEF Reconcile, Failure

\* So does every other step.
LEMMA WorldSync ==
    ASSUME TypeOK, SyncInv,
           \/ InformerSync \/ TimerFires \/ Tick \/ Crash \/ Environment \/ UNCHANGED vars
    PROVE  SyncInv'
<1> USE DEF crVars, qVars, extVars, recVars, ghosts
<1>0. /\ api \in Resource /\ copy \in Resource /\ cache \in Resource
      /\ api.gen \in Int /\ copy.gen \in Int /\ cache.gen \in Int /\ api.synced \in Int
      /\ applied.gen \in Int /\ applied.data \in [Paths -> Int]
      /\ remote \in [Paths -> Int] /\ notified \in [Paths -> Int]
      /\ held.path \in Paths /\ held.version \in Int
      /\ api.refresh <= Stored(Now)
  BY IntFacts DEF SyncInv, ValueInv
<1>1. CASE UNCHANGED <<crVars, pc, copy, copyStale, held, applied, remote, notified>>
  BY <1>1 DEF SyncInv, CacheInv, CopyInv, HeldInv, ValueInv, Holds
<1>2. CASE InformerSync \/ Crash
  <2>1. /\ UNCHANGED <<api, applied, remote, notified>> /\ cache' = api /\ watch' = "synced"
        /\ \/ pc' = "idle"
           \/ UNCHANGED <<pc, copy, copyStale, held>>
    BY <1>2 DEF InformerSync, Crash, Done
  <2>2. api.synced <= api.gen /\ applied.gen <= api.gen /\ cache.gen <= api.gen
    BY <1>0 DEF SyncInv, CacheInv
  <2>3. CacheInv'
    BY <1>0, <2>1, <2>2 DEF CacheInv
  <2>4. CopyInv'
    <3>1. copy.gen <= cache.gen => copy.gen <= api.gen
      BY <1>0, <2>2
    <3> QED BY <2>1, <3>1, Zenon DEF SyncInv, CopyInv
  <2>5. HeldInv' /\ ValueInv'
    BY <1>0, <2>1 DEF SyncInv, HeldInv, ValueInv, Holds
  <2> QED BY <2>3, <2>4, <2>5 DEF SyncInv
<1>3. CASE Tick
  <2>1. /\ UNCHANGED <<watch, pc, copyStale, held, applied, remote, notified>>
        /\ api' = Aged(api) /\ cache' = Aged(cache) /\ copy' = Aged(copy)
    BY <1>3 DEF Tick
  <2>2. /\ api'.gen = api.gen /\ api'.spec = api.spec /\ api'.synced = api.synced
        /\ cache'.gen = cache.gen /\ cache'.spec = cache.spec
        /\ copy'.gen = copy.gen /\ copy'.spec = copy.spec
        /\ api'.refresh <= Stored(Now)
    BY <1>0, <2>1, AgedFacts
  <2>3. CacheInv' /\ CopyInv'
    BY <2>1, <2>2 DEF SyncInv, CacheInv, CopyInv
  <2>4. HeldInv' /\ ValueInv'
    BY <2>1, <2>2 DEF SyncInv, HeldInv, ValueInv, Holds
  <2> QED BY <2>3, <2>4 DEF SyncInv
<1>4. ASSUME NEW r, OutsideWrite(r), r.synced = api.synced, r.gen \in Int,
             \/ r.gen = api.gen + 1
             \/ r.gen = api.gen /\ r.spec = api.spec,
             r.refresh = api.refresh,
             \A p \in Paths : notified'[p] <= remote[p]
      PROVE  SyncInv'
  <2>1. /\ api' = r /\ watch' # "synced"
        /\ UNCHANGED <<cache, pc, copy, held, applied, remote>>
        /\ copyStale' = (pc # "idle")
    BY <1>4, WriteKeeps DEF OutsideWrite
  <2>2. CacheInv'
    BY <1>0, <1>4, <2>1 DEF SyncInv, CacheInv
  <2>3. CopyInv'
    <3> SUFFICES ASSUME pc # "idle"
                 PROVE  /\ r.synced <= copy.gen /\ applied.gen <= copy.gen
                        /\ copy.gen <= cache.gen
                        /\ copy.gen = r.gen => copy.spec = r.spec
      BY <2>1, Zenon DEF CopyInv
    <3> QED BY <1>0, <1>4 DEF SyncInv, CacheInv, CopyInv
  <2>4. HeldInv'
    BY <2>1 DEF SyncInv, HeldInv, Holds
  <2>5. ValueInv'
    <3>1. Holds => pc # "idle"
      BY DEF Holds
    <3> QED BY <1>0, <1>4, <2>1, <3>1 DEF SyncInv, ValueInv, Holds
  <2> QED BY <2>2, <2>3, <2>4, <2>5 DEF SyncInv
<1>5. \A p \in Paths : notified[p] <= remote[p] /\ remote[p] <= remote[p]
  BY <1>0 DEF SyncInv, ValueInv
<1>6. CASE SpecChange
  <2>1. PICK s \in Specs : OutsideWrite([api EXCEPT !.gen = api.gen + 1, !.spec = s])
    BY <1>6 DEF SpecChange
  <2> DEFINE r == [api EXCEPT !.gen = api.gen + 1, !.spec = s]
  <2>2. r.gen = api.gen + 1 /\ r.synced = api.synced /\ r.gen \in Int
        /\ r.refresh = api.refresh
    BY <1>0 DEF Resource
  <2>3. notified' = notified
    BY <1>6 DEF SpecChange
  <2> HIDE DEF r
  <2>4. OutsideWrite(r)
    BY <2>1 DEF r
  <2> QED BY <1>4, <1>5, <2>2, <2>3, <2>4
<1>7. CASE Webhook \/ Delete
  <2>1. PICK r \in {[api EXCEPT !.force = Stored(Now)], [api EXCEPT !.deleting = TRUE]} :
           OutsideWrite(r)
    BY <1>7 DEF Webhook, Delete
  <2>2. /\ r.gen = api.gen /\ r.spec = api.spec /\ r.synced = api.synced
        /\ r.refresh = api.refresh
    BY <1>0, <2>1 DEF Resource
  <2>3. notified' \in {remote, notified}
    BY <1>7 DEF Webhook, Delete
  <2> QED BY <1>0, <1>4, <1>5, <2>1, <2>2, <2>3
<1>8. ASSUME NEW p \in Paths, RemoteChange(p)
      PROVE  SyncInv'
  <2>1. /\ UNCHANGED <<crVars, pc, copy, copyStale, held, applied, notified>>
        /\ \A q \in Paths : remote[q] <= remote'[q] /\ remote'[q] \in Int
    BY <1>0, <1>8 DEF RemoteChange
  <2>2. CacheInv' /\ CopyInv' /\ HeldInv'
    BY <2>1 DEF SyncInv, CacheInv, CopyInv, HeldInv, Holds
  <2>3. ValueInv'
    BY <1>0, <2>1 DEF SyncInv, ValueInv, Holds
  <2> QED BY <2>2, <2>3 DEF SyncInv
<1> QED
  BY <1>1, <1>2, <1>3, <1>6, <1>7, <1>8
  DEF Environment, TimerFires, EditSecret, Expire, StoreDown, StoreUp, vars

\* The initial states.
LEMMA SyncInit ==
    ASSUME Init
    PROVE  SyncInv /\ Sync!Init
<1>1. PICK s \in Specs : api = Created(s)
  BY DEF Init
<1>2. /\ api.gen = 1 /\ api.synced = 0 /\ api.refresh = 0 /\ api.force = 0
      /\ api.spec = s /\ cache = api /\ pc = "idle"
      /\ remote = [p \in Paths |-> 1]
      /\ applied = [gen |-> 0, data |-> Nothing] /\ notified = Nothing
  BY <1>1 DEF Init, Created, ZeroTime, NoAnnotation
<1>3. Nothing = Sync!Nothing /\ \A p \in Paths : Nothing[p] = -1
  BY DEF Nothing, Sync!Nothing, None, Sync!None
<1>4. OpenRequest = Sync!Nothing
  BY <1>2, <1>3 DEF OpenRequest, NoAnnotation
<1>5. {api.spec.path} \in SUBSET Paths
  BY <1>2, DynamicAssumption
<1>6. Sync!Init
  BY <1>2, <1>3, <1>4, <1>5 DEF Sync!Init
<1>7. CacheInv /\ CopyInv /\ HeldInv
  BY <1>2 DEF CacheInv, CopyInv, HeldInv, Holds
<1>8. ValueInv
  BY <1>2, <1>3, NowFacts, DynamicTimeAssumption DEF ValueInv, Holds, Second
<1> QED BY <1>6, <1>7, <1>8 DEF SyncInv

\* A step that leaves the generation, the item of the spec, the synced generation and the
\* two times of the resource alone, and neither writes the Secret nor changes an item nor
\* asks, is no step of SecretSync.
LEMMA Stutter ==
    ASSUME UNCHANGED <<remote, applied, notified>>,
           api'.gen = api.gen, api'.spec = api.spec, api'.synced = api.synced,
           api'.refresh = api.refresh, api'.force = api.force
    PROVE  UNCHANGED Sync!vars
BY DEF Sync!vars, OpenRequest

\* The write of the Secret is a Publish.
LEMMA ApplyPublishes ==
    ASSUME TypeOK, SyncInv, Apply
    PROVE  Sync!Next
<1> DEFINE d == [Nothing EXCEPT ![held.path] = held.version]
<1>1. /\ UNCHANGED <<api, remote, notified>> /\ pc = "apply"
      /\ applied' = [gen |-> copy.gen, data |-> d]
  BY DEF Apply, crVars, extVars
<1>2. /\ held.path \in Paths /\ held.version \in Int /\ held.version # None
      /\ copy \in Resource /\ copy.gen \in Int /\ api.gen \in Int /\ cache.gen \in Int
  BY IntFacts
<1>3. d[held.path] = held.version /\ \A q \in Paths \ {held.path} : d[q] = None
  BY <1>2, OneEntry
<1>4. Sync!Entries(d) = {held.path}
  BY <1>2, <1>3 DEF Sync!Entries, Sync!None, None
<1>5. d \in [Paths -> (1 .. MaxVersion) \cup {Sync!None}]
  BY DEF Nothing, None, Sync!None, TypeOK, Value
<1> HIDE DEF d
<1>6. /\ applied.gen <= copy.gen /\ copy.gen <= api.gen
      /\ copy.gen = api.gen => copy.spec = api.spec
  BY <1>1, <1>2 DEF SyncInv, CopyInv, CacheInv
<1>7. held.path = copy.spec.path
  BY <1>1 DEF SyncInv, HeldInv, Holds
<1>8. Sync!Snapshot(d)
  BY <1>1, <1>3, <1>4 DEF Sync!Snapshot, SyncInv, ValueInv, Holds
<1>9. Sync!Publish(copy.gen, d)
  BY <1>1, <1>4, <1>6, <1>7, <1>8 DEF Sync!Publish, OpenRequest
<1>10. copy.gen \in 0 .. api.gen
  BY <1>2, <1>6, ResourceFacts
<1> QED BY <1>5, <1>9, <1>10 DEF Sync!Next

\* The write of the status is a Record.
LEMMA StatusRecords ==
    ASSUME TypeOK, SyncInv, pc = "restart", ~copyStale, api' = SyncedStatus(api),
           UNCHANGED <<remote, applied, notified>>
    PROVE  Sync!Next
<1> DEFINE d == [Nothing EXCEPT ![held.path] = held.version]
<1>1. /\ held.path \in Paths /\ held.version \in Int /\ held.version # None
      /\ api \in Resource
  BY IntFacts
<1>2. copy.gen = api.gen /\ applied = [gen |-> copy.gen, data |-> d]
  BY DEF SyncInv, CopyInv, HeldInv
<1>3. d[held.path] = held.version /\ \A q \in Paths \ {held.path} : d[q] = None
  BY <1>1, OneEntry
<1>4. Sync!Entries(d) = {held.path}
  BY <1>1, <1>3 DEF Sync!Entries, Sync!None, None
<1> HIDE DEF d
<1>5. notified[held.path] <= d[held.path]
  BY <1>3 DEF SyncInv, ValueInv, Holds
<1>6. /\ api'.gen = api.gen /\ api'.spec = api.spec /\ api'.synced = api.gen
      /\ api'.force = api.force /\ api'.refresh = Stored(Now)
  BY <1>1, <1>2 DEF SyncedStatus, Resource
<1>7. OpenRequest' \in {notified, Nothing} /\ OpenRequest \in {notified, Nothing}
  BY DEF OpenRequest
<1>8. OpenRequest' = notified => OpenRequest = notified
  <2>1. api.refresh <= Stored(Now)
    BY DEF SyncInv, ValueInv
  <2>2. api.refresh \in Int /\ api.force \in Int /\ Stored(Now) \in Int
    BY <1>1, ResourceFacts, NowFacts DEF Times
  <2> QED BY <1>6, <2>1, <2>2 DEF OpenRequest
<1>9. Nothing = Sync!Nothing
  BY DEF Nothing, Sync!Nothing, None, Sync!None
<1>10. \/ OpenRequest' = OpenRequest
       \/ /\ \A p \in Sync!Entries(applied.data) : OpenRequest[p] <= applied.data[p]
          /\ OpenRequest' = Sync!Nothing
  BY <1>2, <1>4, <1>5, <1>7, <1>8, <1>9
<1>11. Sync!Record
  BY <1>2, <1>6, <1>10 DEF Sync!Record
<1> QED BY <1>11 DEF Sync!Next

\* Every step of the controller is a step of SecretSync.
LEMMA SyncStep ==
    ASSUME TypeOK, SyncInv, [Next]_vars
    PROVE  [Sync!Next]_(Sync!vars)
<1> USE DEF crVars, qVars, extVars, recVars, ghosts
<1>0. api \in Resource /\ remote \in [Paths -> Int]
  BY IntFacts
<1>1. CASE UNCHANGED <<api, remote, applied, notified>>
  BY <1>1, Stutter
<1>2. CASE markFailed(copy) /\ UNCHANGED <<remote, applied, notified>>
  BY <1>2, FailedKeeps, Stutter
<1>3. CASE AddFinalizer
  BY <1>0, <1>1, <1>3, Stutter DEF AddFinalizer, Write, Resource
<1>4. CASE Decide
  BY <1>1, <1>2, <1>4 DEF Decide
<1>5. CASE CheckFails \/ FetchFails \/ ApplyFails \/ RestartFails
  BY <1>2, <1>5 DEF CheckFails, FetchFails, ApplyFails, RestartFails, Fails
<1>6. CASE Apply
  BY <1>6, ApplyPublishes
<1>7. CASE UpdateStatus
  BY <1>1, <1>7, StatusRecords DEF UpdateStatus, Write
<1>8. CASE SpecChange
  <2>1. PICK s \in Specs : api' = [api EXCEPT !.gen = api.gen + 1, !.spec = s]
    BY <1>8 DEF SpecChange, OutsideWrite, Write
  <2>2. UNCHANGED <<remote, applied, notified>>
    BY <1>8 DEF SpecChange, OutsideWrite
  <2>3. /\ api'.gen = api.gen + 1 /\ api'.spec = s /\ api'.synced = api.synced
        /\ api'.refresh = api.refresh /\ api'.force = api.force
    BY <1>0, <2>1 DEF Resource
  <2>4. {s.path} \in SUBSET Paths
    BY DynamicAssumption
  <2>5. Sync!ChangeSpec
    BY <2>2, <2>3, <2>4 DEF Sync!ChangeSpec, OpenRequest
  <2> QED BY <2>5 DEF Sync!Next
<1>9. CASE Webhook
  <2>1. /\ api' = [api EXCEPT !.force = Stored(Now)] /\ notified' = remote
        /\ UNCHANGED <<remote, applied>>
    BY <1>9 DEF Webhook, OutsideWrite, Write
  <2>2. /\ api'.gen = api.gen /\ api'.spec = api.spec /\ api'.synced = api.synced
        /\ api'.refresh = api.refresh /\ api'.force = Stored(Now)
    BY <1>0, <2>1 DEF Resource
  <2>3. Stored(Now) > NoAnnotation /\ api.refresh <= Stored(Now)
    BY NowFacts, DynamicTimeAssumption DEF NoAnnotation, SyncInv, ValueInv, Second
  <2>4. OpenRequest' = remote
    BY <2>1, <2>2, <2>3 DEF OpenRequest
  <2>5. Sync!Ask
    BY <2>1, <2>2, <2>4 DEF Sync!Ask
  <2> QED BY <2>5 DEF Sync!Next
<1>10. CASE Delete
  <2>1. /\ api' = [api EXCEPT !.deleting = TRUE] /\ UNCHANGED <<remote, applied, notified>>
    BY <1>10 DEF Delete, OutsideWrite, Write
  <2>2. /\ api'.gen = api.gen /\ api'.spec = api.spec /\ api'.synced = api.synced
        /\ api'.refresh = api.refresh /\ api'.force = api.force
    BY <1>0, <2>1 DEF Resource
  <2> QED BY <2>1, <2>2, Stutter
<1>11. CASE Tick
  <2>1. api' = Aged(api) /\ UNCHANGED <<remote, applied, notified>>
    BY <1>11 DEF Tick
  <2>2. OpenRequest' = OpenRequest
    BY <1>0, <2>1, AgedFacts DEF OpenRequest
  <2> QED BY <1>0, <2>1, <2>2, AgedFacts DEF Sync!vars
<1>12. ASSUME NEW p \in Paths, RemoteChange(p)
       PROVE  Sync!Next
  <2>1. Sync!ChangeItem(p)
    BY <1>12 DEF RemoteChange, Sync!ChangeItem, OpenRequest
  <2> QED BY <2>1 DEF Sync!Next
<1> QED
  BY <1>1, <1>3, <1>4, <1>5, <1>6, <1>7, <1>8, <1>9, <1>10, <1>11, <1>12
  DEF Next, Reconcile, Failure, Environment, Begin, TargetFails, CheckVersion, Fetch,
      FetchVersion, Restart, InformerSync, TimerFires, Crash, EditSecret, Expire,
      StoreDown, StoreUp, vars

\* The controller implements SecretSync: whatever changes, fails or crashes, and although a
\* call that failed makes another credential, no write of the Secret goes back to an earlier
\* generation or an older value of its item, the status names a generation only after a
\* write of it, and a request is closed only by a value at least as recent
\* (controller.go:97-221).
THEOREM DynamicSyncImplemented == Spec => ImplementsSync
<1>1. Init => SyncInv /\ Sync!Init
  BY SyncInit
<1>2. TypeOK /\ SyncInv /\ [Next]_vars => SyncInv'
  BY ReconcileSync, WorldSync DEF Next
<1>3. TypeOK /\ SyncInv /\ [Next]_vars => [Sync!Next]_(Sync!vars)
  BY SyncStep
<1> QED BY <1>1, <1>2, <1>3, DynamicTypeCorrect, PTL DEF Spec, ImplementsSync, Sync!Spec
=============================================================================
