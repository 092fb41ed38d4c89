------------------------ MODULE AkeylessSecretProofs ------------------------
(***************************************************************************)
(* Theorems about the AkeylessSecret controller, for every value of the    *)
(* constants: any set of items, of restart targets and of specs, any       *)
(* interval, any number of failures, edits, events and generations.        *)
(***************************************************************************)
EXTENDS AkeylessSecret, TLAPS

\* The clock: a time written now is a whole second, and one of Times.
LEMMA NowFacts ==
    /\ Now \in Nat /\ Now >= 7
    /\ Stored(Now) = Second * NowSec
    /\ Stored(Now) \in Times /\ Stored(Now) > 2 * Second
<1>1. NowSec \in Nat /\ NowSec >= 3
  BY TimeAssumption
<1>2. Now = 2 * NowSec + 1
  BY DEF Now, Second
<1>3. (2 * NowSec + 1) % 2 = 1
  BY <1>1
<1>4. Stored(Now) = 2 * NowSec
  BY <1>1, <1>2, <1>3 DEF Stored, Second
<1> QED BY <1>1, <1>2, <1>4 DEF Times, Second

\* A stored time stays one when it ages.
LEMMA OlderType ==
    ASSUME NEW t \in Times \cup {Unparsable}, NEW u \in Times \cup {Unparsable}
    PROVE  /\ Older(t, u) \in Times \cup {Unparsable}
           /\ t \in Times => Older(t, u) \in Times
BY NowFacts DEF Older, Later, Second, Times, Unparsable

\* A resource stays one when its stored times age (Tick).
LEMMA AgedType ==
    ASSUME NEW r \in Resource
    PROVE  Aged(r) \in Resource
<1>1. /\ Older(r.refresh, r.force) \in Times
      /\ Older(r.force, r.refresh) \in Times \cup {Unparsable}
  BY OlderType DEF Resource
<1> QED BY <1>1 DEF Aged, Resource

\* A new generation is one of the allowed ones: the bound of UserEdit holds.
LEMMA GenType ==
    ASSUME NEW r \in Resource
    PROVE  /\ r.gen \in 0 .. MaxGen
           /\ r.gen < MaxGen => r.gen + 1 \in 1 .. MaxGen
<1>1. r.gen \in 1 .. MaxGen
  BY DEF Resource
<1> QED BY <1>1, BoundAssumption

\* The delays Reconcile returns are integers.
LEMMA RequeueType ==
    ASSUME NEW r \in Resource
    PROVE  requeueAfter(r) \in Int
<1> DEFINE c == refreshConfig(r)
<1>1. c.syncInterval \in Nat /\ c.defaultPoll = 0 /\ c.refresh \in Int
  BY NowFacts, TimeAssumption DEF refreshConfig, Resource, Times
<1>2. PollInterval \in Int /\ DefaultSyncInterval \in Int
  BY IntervalAssumption
<1> HIDE DEF c
<1>3. Interval(c) \in Int
  BY <1>1, <1>2 DEF Interval
<1>4. RequeueAfter(c, Now) \in Int
  BY <1>1, <1>3, NowFacts DEF RequeueAfter
<1> QED BY <1>4 DEF c, requeueAfter

\* The resource a user creates, for every spec, is a Resource.
LEMMA CreatedType ==
    ASSUME NEW s \in Specs
    PROVE  Created(s) \in Resource
<1>1. 1 \in 1 .. MaxGen /\ 0 \in 0 .. MaxGen
  BY BoundAssumption
<1>2. 0 \in Times
  BY NowFacts DEF Times
<1>3. Nothing \in [Keys -> Versions]
  BY DEF Nothing, Versions
<1> QED
  BY <1>1, <1>2, <1>3 DEF Created, Resource, NoAnnotation, ZeroTime

\* The placeholder for the copy between two calls of Reconcile is a Resource.
LEMMA NoCopyType == NoCopy \in Resource
<1>1. (CHOOSE s \in Specs : TRUE) \in Specs
  BY SpecAssumption
<1> QED BY <1>1, CreatedType DEF NoCopy

\* A missing Secret, and one a user made, are Secret objects.
LEMMA NoSecretType ==
    /\ NoSecret \in SecretObject
    /\ UserSecret \in SecretObject
    /\ Nothing \in [Keys -> Versions]
BY DEF NoSecret, UserSecret, SecretObject, Nothing, NoHash, Values, Versions

\* What the shared parts of the actions do to the types of what they change.
LEMMA WriteType ==
    ASSUME NEW r \in Resource, Write(r)
    PROVE  /\ api' \in Resource
           /\ watch' \in {"synced", "filtered", "pending"}
BY DEF Write

\* A delayed add leaves a natural number or no delay.
LEMMA AddAfterType ==
    ASSUME NEW d \in Nat, timer \in Nat \cup {NoTimer}, AddAfter(d)
    PROVE  timer' \in Nat \cup {NoTimer}
BY DEF AddAfter

\* So does the retry after an error.
LEMMA RateLimitedType ==
    ASSUME timer \in Nat \cup {NoTimer}, AddRateLimited
    PROVE  timer' \in Nat \cup {NoTimer}
BY AddAfterType DEF AddRateLimited

\* So does the delay Reconcile returns.
LEMMA RequeuedType ==
    ASSUME NEW d \in Int, timer \in Nat \cup {NoTimer}, Requeue(d)
    PROVE  timer' \in Nat \cup {NoTimer}
BY AddAfterType DEF Requeue

\* The part of the type invariant about the variables of Reconcile.
RecTypeOK ==
    /\ copy \in Resource /\ existing \in SecretObject /\ copyStale \in BOOLEAN
    /\ pc \in {"idle", "finalizer", "target", "check", "fetch", "version", "restart"}
    /\ todo \subseteq IF pc = "restart" THEN Targets ELSE Keys
    /\ data \in [Keys -> Versions] /\ vers \in [Keys -> Versions]

\* The end of a call: the controller is idle with no copy.
LEMMA DoneType ==
    ASSUME Done
    PROVE  RecTypeOK'
BY NoCopyType, NoSecretType DEF Done, RecTypeOK

\* A fault spends one of the MaxFaults.
LEMMA FaultType ==
    ASSUME faults \in 0 .. MaxFaults, Fault
    PROVE  faults' \in 0 .. MaxFaults
BY BoundAssumption DEF Fault

\* markFailed returns a Resource: only the condition changes.
LEMMA markFailedType ==
    ASSUME TypeOK, markFailed(copy)
    PROVE  /\ api' \in Resource /\ cache' \in Resource
           /\ watch' \in {"synced", "filtered", "pending"}
<1>1. [api EXCEPT !.ready = "False", !.versions = copy.versions] \in Resource
  BY DEF TypeOK, Resource
<1> QED BY <1>1, WriteType DEF markFailed, TypeOK, crVars

\* The initial states have the types.
LEMMA InitType ==
    ASSUME Init
    PROVE  TypeOK
<1>1. PICK s \in Specs : api = Created(s)
  BY DEF Init
<1>2. api \in Resource /\ cache \in Resource
  BY <1>1, CreatedType DEF Init
<1>3. RecTypeOK
  BY NoCopyType, NoSecretType DEF Init, RecTypeOK
<1>4. remote \in [Keys -> 1 .. MaxVersion] /\ secret \in SecretObject
  BY NoSecretType, BoundAssumption DEF Init
<1>5. pods \in [Targets -> [Keys -> Values]]
  BY NoSecretType DEF Init, Versions, Values
<1>6. applied \in [gen : 0 .. MaxGen, data : [Keys -> Versions]]
  BY NoSecretType, BoundAssumption DEF Init
<1>7. faults \in 0 .. MaxFaults /\ edits \in 0 .. MaxEdits /\ events \in 0 .. MaxEvents
  BY BoundAssumption DEF Init
<1> QED
  BY <1>2, <1>3, <1>4, <1>5, <1>6, <1>7, NoSecretType DEF Init, TypeOK, RecTypeOK

\* Every step keeps the types.
LEMMA TypeStep ==
    ASSUME TypeOK, [Next]_vars
    PROVE  TypeOK'
<1> USE DEF crVars, qVars, extVars, recVars, ghosts
<1>0. RecTypeOK
  BY DEF TypeOK, RecTypeOK
<1>1. CASE Begin
  <2>1. RecTypeOK'
    BY <1>1, <1>0, DoneType DEF Begin, RecTypeOK, TypeOK
  <2> QED BY <1>1, <2>1 DEF Begin, TypeOK, RecTypeOK
<1>2. CASE AddFinalizer
  <2>1. /\ [api EXCEPT !.finalizer = TRUE] \in Resource
        /\ [copy EXCEPT !.finalizer = TRUE] \in Resource
    BY DEF TypeOK, Resource
  <2>2. CASE pc' = "target"
    BY <1>2, <2>1, <2>2, WriteType DEF AddFinalizer, Done, TypeOK
  <2>3. CASE pc' # "target"
    <3>1. RecTypeOK'
      BY <1>2, <2>3, DoneType DEF AddFinalizer
    <3> QED
      BY <1>2, <2>3, <3>1, RateLimitedType, FaultType
      DEF AddFinalizer, TypeOK, RecTypeOK
  <2> QED BY <2>2, <2>3
<1>3. CASE Decide
  <2>1. timer' \in Nat \cup {NoTimer}
    <3>0. copy \in Resource
      BY DEF TypeOK
    <3>1. requeueAfter(copy) \in Int
      BY <3>0, RequeueType
    <3>4. StoreRetry \in Int
      BY TimeAssumption
    <3>2. timer \in Nat \cup {NoTimer}
      BY DEF TypeOK
    <3>3. Requeue(StoreRetry) \/ Requeue(requeueAfter(copy)) \/ timer' = timer
      BY <1>3 DEF Decide
    <3> QED BY <3>1, <3>2, <3>3, <3>4, RequeuedType
  <2>2. api' \in Resource /\ watch' \in {"synced", "filtered", "pending"}
    BY <1>3, markFailedType DEF Decide, TypeOK
  <2>3. copy.spec.keys \subseteq Keys
    BY SpecAssumption DEF TypeOK, Resource
  <2>4. RecTypeOK'
    BY <1>3, <1>0, <2>3, DoneType DEF Decide, RecTypeOK, TypeOK
  <2> QED BY <1>3, <2>1, <2>2, <2>4 DEF Decide, TypeOK, RecTypeOK
<1>4. CASE CheckDone
  <2>1. timer' \in Nat \cup {NoTimer}
    BY <1>4, RequeuedType, RequeueType DEF CheckDone, TypeOK
  <2>2. Merged(copy.versions, vers) \in [Keys -> Versions]
    BY DEF Merged, TypeOK, Resource
  <2>3. copy.spec.keys \subseteq Keys
    BY SpecAssumption DEF TypeOK, Resource
  <2>4. [copy EXCEPT !.versions = Merged(copy.versions, vers)] \in Resource
    BY <2>2 DEF TypeOK, Resource
  <2>5. RecTypeOK'
    BY <1>4, <1>0, <2>3, <2>4, DoneType, NoSecretType DEF CheckDone, RecTypeOK
  <2> QED BY <1>4, <2>1, <2>5 DEF CheckDone, TypeOK, RecTypeOK
<1>5. CASE CheckFails
  <2>1. RecTypeOK'
    BY <1>5, DoneType DEF CheckFails, Fails
  <2>2. timer' \in Nat \cup {NoTimer}
    BY <1>5, RateLimitedType DEF CheckFails, Fails, TypeOK
  <2> QED BY <1>5, <2>1, <2>2, markFailedType, FaultType
          DEF CheckFails, Fails, TypeOK, RecTypeOK
<1>6. ASSUME NEW k \in Keys, CheckVersion(k)
      PROVE  TypeOK'
  <2>1. remote[k] \in Versions
    BY DEF TypeOK, Versions
  <2> QED BY <1>6, <2>1 DEF CheckVersion, TypeOK
<1>7. ASSUME NEW k \in Keys, FetchValue(k)
      PROVE  TypeOK'
  <2>1. remote[k] \in Versions
    BY DEF TypeOK, Versions
  <2> QED BY <1>7, <2>1 DEF FetchValue, TypeOK
<1>8. ASSUME NEW k \in Keys, FetchVersion(k)
      PROVE  TypeOK'
  <2>1. remote[k] \in Versions
    BY DEF TypeOK, Versions
  <2>2. vers' \in [Keys -> Versions] /\ faults' \in 0 .. MaxFaults
    BY <1>8, <2>1, FaultType DEF FetchVersion, TypeOK
  <2> QED BY <1>8, <2>2 DEF FetchVersion, TypeOK
<1>9. CASE Apply
  <2>1. secret' \in SecretObject
    BY <1>9, SwitchAssumption
    DEF Apply, ManagedSecret, ObjectHash, TypeOK, SecretObject, Versions, Values
  <2>2. applied' \in [gen : 0 .. MaxGen, data : [Keys -> Versions]]
    BY <1>9, GenType DEF Apply, TypeOK
  <2>3. todo' \subseteq Targets
    BY <1>9 DEF Apply, RestartsNeeded
  <2> QED BY <1>9, <2>1, <2>2, <2>3 DEF Apply, TypeOK
<1>10. CASE UpdateStatus
  <2>1. Stored(Now) \in Times /\ copy.gen \in 0 .. MaxGen
    BY NowFacts, GenType DEF TypeOK
  <2>2. ASSUME NEW r \in Resource PROVE SyncedStatus(r) \in Resource
    BY <2>1 DEF SyncedStatus, TypeOK, Resource
  <2>3. RecTypeOK'
    BY <1>10, DoneType DEF UpdateStatus
  <2>4. SyncedStatus(api) \in Resource /\ requeueAfter(SyncedStatus(copy)) \in Int
    BY <2>2, RequeueType DEF TypeOK
  <2>5. timer' \in Nat \cup {NoTimer}
    BY <1>10, <2>4, RequeuedType, RateLimitedType DEF UpdateStatus, TypeOK
  <2>6. faults' \in 0 .. MaxFaults
    BY <1>10, FaultType DEF UpdateStatus, TypeOK
  <2>7. /\ api' \in Resource /\ cache' \in Resource
        /\ watch' \in {"synced", "filtered", "pending"}
    BY <1>10, <2>4, WriteType DEF UpdateStatus, TypeOK
  <2> QED BY <1>10, <2>3, <2>5, <2>6, <2>7 DEF UpdateStatus, TypeOK, RecTypeOK
<1>11. ASSUME NEW t \in Targets, Restart(t)
       PROVE  TypeOK'
  <2>1. secret.data \in [Keys -> Values]
    BY DEF TypeOK, SecretObject
  <2> QED BY <1>11, <2>1 DEF Restart, TypeOK
<1>12. CASE TargetFails
  <2>1. RecTypeOK'
    BY <1>12, DoneType DEF TargetFails
  <2> QED BY <1>12, <2>1, RateLimitedType, FaultType DEF TargetFails, TypeOK, RecTypeOK
<1>13. CASE FetchFails
  <2>1. RecTypeOK'
    BY <1>13, DoneType DEF FetchFails, Fails
  <2> QED BY <1>13, <2>1, markFailedType, RateLimitedType, FaultType
          DEF FetchFails, Fails, TypeOK, RecTypeOK
<1>14. CASE RestartFails
  <2>1. RecTypeOK'
    BY <1>14, DoneType DEF RestartFails, Fails
  <2> QED BY <1>14, <2>1, markFailedType, RateLimitedType, FaultType
          DEF RestartFails, Fails, TypeOK, RecTypeOK
<1>15. CASE InformerSync
  BY <1>15 DEF InformerSync, TypeOK
<1>16. CASE TimerFires
  BY <1>16 DEF TimerFires, TypeOK
<1>17. CASE Tick
  <2>1. timer' \in Nat \cup {NoTimer}
    BY <1>17 DEF Tick, Later, Second, NoTimer, TypeOK
  <2> QED BY <1>17, <2>1, AgedType DEF Tick, TypeOK
<1>18. CASE Crash
  <2>1. RecTypeOK'
    BY <1>18, DoneType DEF Crash
  <2> QED BY <1>18, <2>1, FaultType DEF Crash, TypeOK, RecTypeOK
<1>19. ASSUME NEW r \in Resource, OutsideWrite(r),
              notified' \in [Keys -> Versions],
              edits' \in 0 .. MaxEdits, events' \in 0 .. MaxEvents,
              applied' = applied
       PROVE  TypeOK'
  BY <1>19, WriteType DEF OutsideWrite, TypeOK
<1>20. CASE SpecChange
  <2>1. ASSUME NEW s \in Specs, api.gen < MaxGen
        PROVE  [api EXCEPT !.gen = api.gen + 1, !.spec = s] \in Resource
    <3>1. api.gen + 1 \in 1 .. MaxGen
      BY <2>1, GenType DEF TypeOK
    <3> QED BY <3>1 DEF TypeOK, Resource
  <2> QED BY <1>20, <1>19, <2>1 DEF SpecChange, TypeOK
<1>21. CASE Webhook
  <2>1. [api EXCEPT !.force = Stored(Now)] \in Resource
    BY NowFacts DEF TypeOK, Resource
  <2>2. events' \in 0 .. MaxEvents
    BY <1>21, BoundAssumption DEF Webhook, TypeOK
  <2>3. remote \in [Keys -> Versions]
    BY DEF TypeOK, Versions
  <2>4. CASE api.force = Stored(Now)
    BY <1>21, <2>2, <2>4 DEF Webhook, TypeOK
  <2>5. CASE api.force # Stored(Now)
    BY <1>21, <1>19, <2>1, <2>2, <2>3, <2>5 DEF Webhook, TypeOK
  <2> QED BY <2>4, <2>5
<1>22. CASE Annotate
  <2>1. [api EXCEPT !.force = Unparsable] \in Resource
    BY DEF TypeOK, Resource
  <2>2. events' \in 0 .. MaxEvents
    BY <1>22, BoundAssumption DEF Annotate, TypeOK
  <2>3. remote \in [Keys -> Versions]
    BY DEF TypeOK, Versions
  <2> QED BY <1>22, <1>19, <2>1, <2>2, <2>3 DEF Annotate, TypeOK
<1>23. CASE Delete \/ StripFinalizer
  <2>1. /\ [api EXCEPT !.deleting = TRUE, !.present = api.finalizer] \in Resource
        /\ [api EXCEPT !.finalizer = FALSE, !.present = FALSE] \in Resource
    BY DEF TypeOK, Resource
  <2> QED BY <1>23, <1>19, <2>1 DEF Delete, StripFinalizer, TypeOK
<1>24. CASE EditSecret
  <2>1. [secret EXCEPT !.data = [k \in Keys |-> Foreign]] \in SecretObject
    BY DEF TypeOK, SecretObject, Values
  <2>2. edits' \in 0 .. MaxEdits
    BY <1>24, BoundAssumption DEF EditSecret, TypeOK
  <2> QED BY <1>24, <2>1, <2>2, NoSecretType DEF EditSecret, SetSecret, TypeOK
<1>25. CASE CollectSecret
  BY <1>25, NoSecretType DEF CollectSecret, SetSecret, TypeOK
<1>26. ASSUME NEW k \in Keys, RemoteChange(k)
       PROVE  TypeOK'
  <2>1. remote \in [Keys -> 1 .. MaxVersion] /\ remote[k] < MaxVersion
    BY <1>26 DEF RemoteChange, TypeOK
  <2>2. remote[k] + 1 \in 1 .. MaxVersion
    BY <2>1, BoundAssumption
  <2>3. remote' \in [Keys -> 1 .. MaxVersion]
    BY <1>26, <2>1, <2>2 DEF RemoteChange
  <2> QED BY <1>26, <2>3 DEF RemoteChange, TypeOK
<1>27. CASE StoreDown
  BY <1>27, FaultType DEF StoreDown, TypeOK
<1>28. CASE StoreUp
  BY <1>28 DEF StoreUp, TypeOK
<1>29. CASE UNCHANGED vars
  BY <1>29 DEF vars, TypeOK
<1> QED
  BY <1>1, <1>2, <1>3, <1>4, <1>5, <1>6, <1>7, <1>8, <1>9, <1>10, <1>11, <1>12,
     <1>13, <1>14, <1>15, <1>16, <1>17, <1>18, <1>20, <1>21, <1>22, <1>23, <1>24,
     <1>25, <1>26, <1>27, <1>28, <1>29
  DEF Next, Reconcile, Failure, Environment

\* Every variable keeps its type: the shapes of the resource, of its cached and
\* working copies, of the Secret and of the variables of Reconcile.
THEOREM TypeCorrect == Spec => []TypeOK
<1>1. Init => TypeOK
  BY InitType
<1>2. TypeOK /\ [Next]_vars => TypeOK'
  BY TypeStep
<1> QED BY <1>1, <1>2, PTL DEF Spec
=============================================================================
