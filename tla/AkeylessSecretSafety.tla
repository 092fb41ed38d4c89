------------------------ MODULE AkeylessSecretSafety ------------------------
(***************************************************************************)
(* The safety theorems of the AkeylessSecret controller, from the types    *)
(* proved in AkeylessSecretProofs and one inductive invariant.             *)
(***************************************************************************)
EXTENDS AkeylessSecretProofs

-----------------------------------------------------------------------------
(***************************************************************************)
(* The inductive invariant behind SyncedMeansApplied, EventCovered and     *)
(* NeverAbandoned.  It says how far each copy of the resource may lag      *)
(* behind the API server, and what the data of a running sync is worth.    *)
(***************************************************************************)

\* A request that the recorded refresh covers.
Covers(r) == r.force > NoAnnotation /\ r.refresh > r.force

\* The cache is an earlier state of the resource, and never earlier than the
\* generation the status speaks of.
CacheInv ==
    /\ watch = "synced" => cache = api
    /\ cache.gen <= api.gen
    /\ cache.gen = api.gen => cache.spec = api.spec
    /\ api.synced <= cache.gen
    /\ cache.deleting => api.deleting
    /\ ~cache.present => ~api.present

\* So is the copy of a running call, and one that is not stale is current.
CopyInv ==
    pc # "idle" =>
        /\ api.synced <= copy.gen
        /\ copy.gen <= cache.gen
        /\ copy.gen = api.gen => copy.spec = api.spec
        /\ ~copyStale => copy.gen = api.gen

\* The data of a running sync: nothing before the fetch, then the keys of the
\* spec that have been read, at last all of them, in the Secret.
DataInv ==
    /\ pc \in {"idle", "finalizer", "target", "check"} => data = Nothing
    /\ pc = "fetch" => Entries(data) = copy.spec.keys \ todo
    /\ pc = "version" =>
          \E k \in todo : Entries(data) = (copy.spec.keys \ todo) \cup {k}
    /\ pc \in {"fetch", "version"} => todo \subseteq copy.spec.keys
    /\ pc = "restart" =>
          /\ applied.gen = copy.gen
          /\ applied.data = data
          /\ Entries(data) = copy.spec.keys

\* A value read by a sync whose copy is current, or while a covered request is
\* recorded, is not older than the items were at the last request.
EventInv ==
    /\ api.refresh <= Stored(Now)
    /\ \A k \in Keys : notified[k] <= remote[k]
    /\ (pc # "idle" /\ (~copyStale \/ Covers(api))) =>
          \A k \in Entries(data) : data[k] >= notified[k]

IndInv ==
    /\ TypeOK
    /\ CacheInv
    /\ CopyInv
    /\ DataInv
    /\ EventInv
    /\ SyncedMeansApplied
    /\ EventCovered
    /\ NeverAbandoned

-----------------------------------------------------------------------------
(* Facts about the operators *)

\* A delay Reconcile returns is positive, so that it is always a request.
LEMMA RequeuePositive ==
    ASSUME NEW r \in Resource
    PROVE  requeueAfter(r) \in Nat \ {0}
<1> DEFINE c == refreshConfig(r)
<1>1. c.syncInterval \in Nat /\ c.defaultPoll = 0 /\ c.refresh \in Int
  BY NowFacts, TimeAssumption DEF refreshConfig, Resource, Times
<1>2. PollInterval \in Nat \ {0} /\ DefaultSyncInterval \in Nat \ {0}
  BY IntervalAssumption
<1> HIDE DEF c
<1>3. Interval(c) \in Nat \ {0}
  BY <1>1, <1>2 DEF Interval
<1>4. RequeueAfter(c, Now) \in Nat \ {0}
  BY <1>1, <1>3, NowFacts DEF RequeueAfter
<1> QED BY <1>4 DEF c, requeueAfter

\* After a request for a delay one is pending.
LEMMA RequeueSets ==
    ASSUME timer \in Nat \cup {NoTimer}, NEW d \in Nat \ {0}, Requeue(d)
    PROVE  timer' # NoTimer
BY DEF Requeue, AddAfter, NoTimer

\* After a retry with back-off one is pending.
LEMMA RateLimitedSets ==
    ASSUME timer \in Nat \cup {NoTimer}, AddRateLimited
    PROVE  timer' # NoTimer
BY DEF AddRateLimited, AddAfter, NoTimer

\* The times and the generation of a resource are integers.
LEMMA ResourceInts ==
    ASSUME NEW r \in Resource
    PROVE  r.gen \in Int /\ r.synced \in Int /\ r.refresh \in Int /\ r.force \in Int
<1>1. r.gen \in 1 .. MaxGen /\ r.synced \in 0 .. MaxGen
  BY DEF Resource
<1>2. r.refresh \in 0 .. Now /\ r.force \in (0 .. Now) \cup {-1}
  BY DEF Resource, Times, Unparsable
<1> QED BY <1>1, <1>2

\* Ageing changes the two times of a resource and nothing else, keeps the later
\* one later, and never reaches the present.
LEMMA AgedKeeps ==
    ASSUME NEW r \in Resource
    PROVE  /\ Aged(r).gen = r.gen /\ Aged(r).spec = r.spec
           /\ Aged(r).synced = r.synced /\ Aged(r).present = r.present
           /\ Aged(r).deleting = r.deleting
           /\ Covers(Aged(r)) => Covers(r)
           /\ r.refresh <= Stored(Now) => Aged(r).refresh <= Stored(Now)
<1>1. /\ Aged(r).gen = r.gen /\ Aged(r).spec = r.spec
      /\ Aged(r).synced = r.synced /\ Aged(r).present = r.present
      /\ Aged(r).deleting = r.deleting
      /\ Aged(r).refresh = Older(r.refresh, r.force)
      /\ Aged(r).force = Older(r.force, r.refresh)
  BY DEF Aged, Resource
<1>2. r.refresh \in Int /\ r.force \in Int
  BY ResourceInts
<1>3. Covers(Aged(r)) => Covers(r)
  BY <1>1, <1>2 DEF Covers, Older, Later, Second, NoAnnotation
<1>4. r.refresh <= Stored(Now) => Aged(r).refresh <= Stored(Now)
  BY <1>1, <1>2, NowFacts, TimeAssumption DEF Older, Later, Second
<1> QED BY <1>1, <1>3, <1>4

-----------------------------------------------------------------------------
\* Every step keeps CacheInv: the cache is the API server's resource, or a
\* watch event is under way.
LEMMA CacheStep ==
    ASSUME IndInv, [Next]_vars
    PROVE  CacheInv'
<1> USE DEF crVars, qVars, extVars, recVars, ghosts
<1>0. /\ api \in Resource /\ cache \in Resource /\ copy \in Resource
      /\ api.gen \in Int /\ cache.gen \in Int /\ copy.gen \in Int /\ api.synced \in Int
  BY ResourceInts DEF IndInv, TypeOK
<1>1. CASE UNCHANGED crVars
  BY <1>1 DEF IndInv, CacheInv
<1>2. ASSUME NEW r \in Resource, Write(r), cache' = cache,
             r.gen = api.gen, r.spec = api.spec, r.synced \in {api.synced, copy.gen},
             r.deleting = api.deleting, r.present = api.present, pc # "idle"
      PROVE  CacheInv'
  BY <1>0, <1>2 DEF Write, IndInv, CacheInv, CopyInv
<1>3. CASE markFailed(copy) /\ pc # "idle"
  BY <1>0, <1>1, <1>2, <1>3 DEF markFailed, IndInv, TypeOK, Resource
<1>4. CASE AddFinalizer
  BY <1>0, <1>1, <1>2, <1>4 DEF AddFinalizer, Resource
<1>5. CASE Decide
  BY <1>1, <1>3, <1>5 DEF Decide
<1>6. CASE CheckFails \/ FetchFails \/ RestartFails
  BY <1>3, <1>6 DEF CheckFails, FetchFails, RestartFails, Fails
<1>7. CASE UpdateStatus
  <2>1. SyncedStatus(api) \in Resource /\ SyncedStatus(api).gen = api.gen
        /\ SyncedStatus(api).spec = api.spec /\ SyncedStatus(api).synced = copy.gen
        /\ SyncedStatus(api).deleting = api.deleting
        /\ SyncedStatus(api).present = api.present
    BY <1>0, NowFacts, GenType DEF SyncedStatus, IndInv, TypeOK, Resource
  <2> QED BY <1>1, <1>2, <1>7, <2>1 DEF UpdateStatus
<1>8. ASSUME NEW r \in Resource, OutsideWrite(r), r.synced = api.synced,
             \/ r.gen = api.gen + 1
             \/ r.gen = api.gen /\ r.spec = api.spec,
             api.deleting => r.deleting, r.present => api.present
      PROVE  CacheInv'
  BY <1>0, <1>8 DEF OutsideWrite, Write, IndInv, CacheInv
<1>9. CASE SpecChange
  <2>1. ASSUME NEW s \in Specs, api.gen < MaxGen
        PROVE  [api EXCEPT !.gen = api.gen + 1, !.spec = s] \in Resource
    <3>1. api.gen + 1 \in 1 .. MaxGen
      BY <1>0, <2>1, GenType
    <3> QED BY <1>0, <3>1 DEF Resource
  <2> QED BY <1>0, <1>8, <1>9, <2>1 DEF SpecChange, Resource
<1>10. CASE Webhook
  BY <1>0, <1>1, <1>8, <1>10, NowFacts DEF Webhook, Resource
<1>11. CASE Annotate
  BY <1>0, <1>8, <1>11 DEF Annotate, Resource
<1>12. CASE Delete \/ StripFinalizer
  BY <1>0, <1>8, <1>12 DEF Delete, StripFinalizer, Resource
<1>13. CASE InformerSync \/ Crash
  <2>1. api' = api /\ cache' = api
    BY <1>13 DEF InformerSync, Crash
  <2>2. api.synced <= api.gen
    BY <1>0 DEF IndInv, CacheInv
  <2> QED BY <1>0, <2>1, <2>2 DEF CacheInv
<1>14. CASE Tick
  BY <1>0, <1>14, AgedKeeps DEF Tick, IndInv, CacheInv
<1> QED
  BY <1>1, <1>4, <1>5, <1>6, <1>7, <1>9, <1>10, <1>11, <1>12, <1>13, <1>14
  DEF Next, Reconcile, Failure, Environment, Begin, TargetFails, CheckVersion,
      CheckDone, FetchValue, FetchVersion, Apply, Restart, TimerFires, EditSecret,
      CollectSecret, SetSecret, RemoteChange, StoreDown, StoreUp, vars

\* The copy of a running call.
LEMMA CopyStep ==
    ASSUME IndInv, [Next]_vars
    PROVE  CopyInv'
<1> USE DEF crVars, qVars, extVars, recVars, ghosts
<1>0. /\ api \in Resource /\ cache \in Resource /\ copy \in Resource
      /\ api.gen \in Int /\ cache.gen \in Int /\ copy.gen \in Int /\ api.synced \in Int
  BY ResourceInts DEF IndInv, TypeOK
<1>1. CASE pc' = "idle"
  BY <1>1 DEF CopyInv
<1>2. CASE /\ pc # "idle"
           /\ UNCHANGED <<api, cache, copyStale>>
           /\ copy'.gen = copy.gen /\ copy'.spec = copy.spec
  BY <1>2 DEF IndInv, CopyInv
<1>3. CASE Begin
  <2>1. CASE pc' # "idle"
    <3>1. UNCHANGED <<api, cache>> /\ copy' = cache /\ copyStale' = (watch # "synced")
      BY <1>3, <2>1 DEF Begin, Done
    <3>2. cache.gen <= cache.gen
      BY <1>0
    <3> QED BY <3>1, <3>2, Zenon DEF CopyInv, CacheInv, IndInv
  <2> QED BY <1>1, <2>1
<1>4. CASE AddFinalizer
  <2>1. CASE pc' = "target"
    <3>1. /\ api' = [api EXCEPT !.finalizer = TRUE] /\ cache' = cache
          /\ copy' = [copy EXCEPT !.finalizer = TRUE] /\ copyStale' = copyStale
          /\ pc # "idle"
      BY <1>4, <2>1 DEF AddFinalizer, Done, Write
    <3>2. /\ api'.gen = api.gen /\ api'.spec = api.spec /\ api'.synced = api.synced
          /\ copy'.gen = copy.gen /\ copy'.spec = copy.spec
      BY <1>0, <3>1 DEF Resource
    <3> QED BY <3>1, <3>2 DEF IndInv, CopyInv
  <2> QED BY <1>1, <1>4, <2>1 DEF AddFinalizer, Done
<1>5. CASE Decide
  BY <1>1, <1>2, <1>5 DEF Decide, Done
<1>6. CASE CheckDone
  <2>1. ASSUME copy' = [copy EXCEPT !.versions = Merged(copy.versions, vers)]
        PROVE  copy'.gen = copy.gen /\ copy'.spec = copy.spec
    BY <1>0, <2>1 DEF Resource
  <2> QED BY <1>1, <1>2, <1>6, <2>1 DEF CheckDone, Done
<1>7. CASE CheckFails \/ TargetFails \/ FetchFails \/ RestartFails \/ UpdateStatus \/ Crash
  BY <1>1, <1>7
  DEF CheckFails, TargetFails, FetchFails, RestartFails, UpdateStatus, Crash, Fails, Done
<1>8. ASSUME NEW r, OutsideWrite(r), r.synced = api.synced, r.gen \in Int,
             \/ r.gen = api.gen + 1
             \/ r.gen = api.gen /\ r.spec = api.spec
      PROVE  CopyInv'
  <2>1. api' = r /\ UNCHANGED <<cache, copy, pc>> /\ copyStale' = (pc # "idle")
    BY <1>8 DEF OutsideWrite, Write
  <2> SUFFICES ASSUME pc # "idle"
               PROVE  /\ r.synced <= copy.gen /\ copy.gen <= cache.gen
                      /\ copy.gen = r.gen => copy.spec = r.spec
    BY <2>1, Zenon DEF CopyInv
  <2> QED BY <1>0, <1>8 DEF CacheInv, CopyInv, IndInv
<1>9. CASE SpecChange
  <2>1. PICK s \in Specs : OutsideWrite([api EXCEPT !.gen = api.gen + 1, !.spec = s])
    BY <1>9 DEF SpecChange
  <2> DEFINE r == [api EXCEPT !.gen = api.gen + 1, !.spec = s]
  <2>2. r.gen = api.gen + 1 /\ r.synced = api.synced /\ r.gen \in Int
    BY <1>0 DEF Resource
  <2> QED BY <1>8, <2>1, <2>2
<1>10. CASE Webhook
  <2>1. CASE pc # "idle" /\ UNCHANGED <<crVars, recVars>>
    BY <1>2, <2>1
  <2> QED BY <1>0, <1>1, <1>8, <1>10, <2>1 DEF Webhook, Resource
<1>11. CASE Annotate
  BY <1>0, <1>8, <1>11 DEF Annotate, Resource
<1>12. CASE Delete \/ StripFinalizer
  BY <1>0, <1>8, <1>12 DEF Delete, StripFinalizer, Resource
<1>13. CASE InformerSync
  <2>1. UNCHANGED <<api, copy, copyStale, pc>> /\ cache' = api
    BY <1>13 DEF InformerSync
  <2>2. copy.gen <= cache.gen /\ cache.gen <= api.gen => copy.gen <= api.gen
    BY <1>0
  <2> QED BY <2>1, <2>2, Zenon DEF IndInv, CacheInv, CopyInv
<1>14. CASE Tick
  BY <1>0, <1>14, AgedKeeps DEF Tick, IndInv, CopyInv
<1>15. CASE UNCHANGED <<api, cache, copy, copyStale, pc>>
  BY <1>15 DEF IndInv, CopyInv
<1> QED
  BY <1>2, <1>3, <1>4, <1>5, <1>6, <1>7, <1>9, <1>10, <1>11, <1>12, <1>13, <1>14, <1>15
  DEF Next, Reconcile, Failure, Environment, CheckVersion, FetchValue, FetchVersion,
      Apply, Restart, TimerFires, EditSecret, CollectSecret, SetSecret, RemoteChange,
      StoreDown, StoreUp, vars

\* The data of a running sync.
LEMMA DataStep ==
    ASSUME IndInv, [Next]_vars
    PROVE  DataInv'
<1> USE DEF crVars, qVars, extVars, recVars, ghosts
<1>0. /\ copy \in Resource /\ DOMAIN data = Keys /\ copy.spec.keys \subseteq Keys
      /\ todo \subseteq (IF pc = "restart" THEN Targets ELSE Keys)
      /\ Entries(Nothing) = {}
  BY SpecAssumption DEF IndInv, TypeOK, Resource, Entries, Nothing
<1>1. CASE pc' = "idle" /\ data' = Nothing
  BY <1>1 DEF DataInv
<1>2. CASE UNCHANGED <<recVars, applied>>
  BY <1>2 DEF IndInv, DataInv
<1>3. CASE Begin
  BY <1>1, <1>3 DEF Begin, Done, IndInv, DataInv
<1>4. CASE AddFinalizer
  BY <1>1, <1>4 DEF AddFinalizer, Done, IndInv, DataInv
<1>5. CASE Decide
  BY <1>0, <1>1, <1>5 DEF Decide, Done, IndInv, DataInv
<1>6. CASE CheckDone
  <2>1. ASSUME copy' = [copy EXCEPT !.versions = Merged(copy.versions, vers)]
        PROVE  copy'.spec = copy.spec
    BY <1>0, <2>1 DEF Resource
  <2> QED BY <1>0, <1>1, <1>6, <2>1 DEF CheckDone, Done, IndInv, DataInv
<1>7. CASE CheckFails \/ TargetFails \/ FetchFails \/ RestartFails \/ UpdateStatus \/ Crash
  BY <1>1, <1>7
  DEF CheckFails, TargetFails, FetchFails, RestartFails, UpdateStatus, Crash, Fails, Done
<1>8. ASSUME NEW k \in Keys, CheckVersion(k)
      PROVE  DataInv'
  BY <1>8 DEF CheckVersion, IndInv, DataInv
<1>9. ASSUME NEW k \in Keys, FetchValue(k)
      PROVE  DataInv'
  <2>1. remote[k] # None
    BY BoundAssumption DEF IndInv, TypeOK, None
  <2>2. Entries(data') = Entries(data) \cup {k}
    BY <1>0, <1>9, <2>1 DEF FetchValue, Entries, IndInv, TypeOK
  <2> QED BY <1>9, <2>2 DEF FetchValue, IndInv, DataInv
<1>10. ASSUME NEW k \in Keys, FetchVersion(k)
       PROVE  DataInv'
  <2>1. PICK j \in todo : Entries(data) = (copy.spec.keys \ todo) \cup {j}
    BY <1>10 DEF FetchVersion, IndInv, DataInv
  <2>2. k \in Entries(data)
    BY <1>0, <1>10 DEF FetchVersion, Entries
  <2>3. j = k
    BY <1>10, <2>1, <2>2 DEF FetchVersion
  <2>4. todo \subseteq copy.spec.keys
    BY <1>10 DEF FetchVersion, IndInv, DataInv
  <2> QED BY <1>10, <2>1, <2>3, <2>4 DEF FetchVersion, DataInv
<1>11. CASE Apply
  BY <1>11 DEF Apply, IndInv, DataInv
<1>12. ASSUME NEW t \in Targets, Restart(t)
       PROVE  DataInv'
  BY <1>12 DEF Restart, IndInv, DataInv
<1>13. CASE Tick
  BY <1>0, <1>13, AgedKeeps DEF Tick, IndInv, DataInv
<1>14. CASE UNCHANGED <<pc, copy, existing, todo, data, vers, applied>>
  BY <1>14 DEF IndInv, DataInv
<1> QED
  BY <1>2, <1>3, <1>4, <1>5, <1>6, <1>7, <1>8, <1>9, <1>10, <1>11, <1>12, <1>13, <1>14
  DEF Next, Reconcile, Failure, Environment, InformerSync, TimerFires, SpecChange,
      Webhook, Annotate, Delete, StripFinalizer, OutsideWrite, EditSecret,
      CollectSecret, SetSecret, RemoteChange, StoreDown, StoreUp, vars

\* How a step may change the times of the resource in the API server.
LEMMA TimesStep ==
    ASSUME IndInv, [Next]_vars
    PROVE  \/ api'.refresh = api.refresh /\ api'.force = api.force
           \/ UpdateStatus /\ ~copyStale /\ api' = SyncedStatus(api)
           \/ Tick /\ api' = Aged(api)
           \/ /\ Webhook \/ Annotate
              /\ api'.refresh = api.refresh /\ api'.force \in {Stored(Now), Unparsable}
              /\ copyStale' = (pc # "idle")
<1> USE DEF crVars, qVars, extVars, recVars, ghosts
<1>0. api \in Resource
  BY DEF IndInv, TypeOK
<1>1. CASE api' = api
  BY <1>1
<1>2. CASE markFailed(copy)
  BY <1>0, <1>1, <1>2 DEF markFailed, Write, Resource
<1>3. CASE AddFinalizer
  BY <1>0, <1>1, <1>3 DEF AddFinalizer, Write, Resource
<1>4. CASE Decide
  BY <1>1, <1>2, <1>4 DEF Decide
<1>5. CASE CheckFails \/ FetchFails \/ RestartFails
  BY <1>2, <1>5 DEF CheckFails, FetchFails, RestartFails, Fails
<1>6. CASE UpdateStatus
  BY <1>1, <1>6 DEF UpdateStatus, Write
<1>7. CASE SpecChange
  BY <1>0, <1>7 DEF SpecChange, OutsideWrite, Write, Resource
<1>8. CASE Webhook
  BY <1>0, <1>1, <1>8 DEF Webhook, OutsideWrite, Write, Resource
<1>9. CASE Annotate
  BY <1>0, <1>9 DEF Annotate, OutsideWrite, Write, Resource
<1>10. CASE Delete \/ StripFinalizer
  BY <1>0, <1>10 DEF Delete, StripFinalizer, OutsideWrite, Write, Resource
<1>11. CASE Tick
  BY <1>11 DEF Tick
<1> QED
  BY <1>1, <1>3, <1>4, <1>5, <1>6, <1>7, <1>8, <1>9, <1>10, <1>11
  DEF Next, Reconcile, Failure, Environment, Begin, TargetFails, CheckVersion,
      CheckDone, FetchValue, FetchVersion, Apply, Restart, InformerSync, TimerFires,
      Crash, EditSecret, CollectSecret, SetSecret, RemoteChange, StoreDown, StoreUp, vars

\* A step never makes a request covered, except by a completed sync.
LEMMA CoversStep ==
    ASSUME IndInv, [Next]_vars, Covers(api')
    PROVE  /\ ~Webhook /\ ~Annotate
           /\ Covers(api) \/ (UpdateStatus /\ ~copyStale)
<1>0. api \in Resource /\ api.refresh \in Int /\ api.force \in Int
  BY ResourceInts DEF IndInv, TypeOK
<1>1. ASSUME Webhook \/ Annotate PROVE FALSE
  <2>1. /\ api'.refresh = api.refresh
        /\ api'.force = Stored(Now) \/ api'.force = Unparsable
    BY <1>0, <1>1
    DEF Webhook, Annotate, OutsideWrite, Write, Resource, crVars
  <2>2. api.refresh <= Stored(Now)
    BY DEF IndInv, EventInv
  <2> QED BY <1>0, <2>1, <2>2, NowFacts, TimeAssumption
          DEF Covers, Unparsable, NoAnnotation, Second
<1>2. Tick => Covers(api)
  BY <1>0, AgedKeeps DEF Tick
<1> QED BY <1>1, <1>2, TimesStep DEF Covers

\* Every step keeps EventInv: what the running sync has read covers the
\* requests it will declare covered.
LEMMA EventStep ==
    ASSUME IndInv, [Next]_vars
    PROVE  EventInv'
<1> USE DEF crVars, qVars, extVars, recVars, ghosts
<1>0. /\ api \in Resource /\ api.refresh \in Int /\ Stored(Now) \in Int
      /\ remote \in [Keys -> Int] /\ notified \in [Keys -> Int] /\ data \in [Keys -> Int]
  BY ResourceInts, NowFacts, BoundAssumption
  DEF IndInv, TypeOK, Versions, None, Times
<1>1. api'.refresh <= Stored(Now)
  <2>1. api.refresh <= Stored(Now)
    BY DEF IndInv, EventInv
  <2>2. SyncedStatus(api).refresh = Stored(Now)
    BY <1>0 DEF SyncedStatus, Resource
  <2> QED BY <1>0, <2>1, <2>2, AgedKeeps, TimesStep
<1>2. ASSUME NEW k \in Keys
      PROVE  notified'[k] <= remote'[k]
  <2>1. notified[k] <= remote[k]
    BY DEF IndInv, EventInv
  <2>2. \/ UNCHANGED <<notified, remote>>
        \/ notified' = remote /\ remote' = remote
        \/ notified' = notified /\ \E j \in Keys : RemoteChange(j)
    BY Zenon
    DEF Next, Reconcile, Failure, Environment, Begin, AddFinalizer, Decide,
           CheckDone, CheckFails, CheckVersion, FetchValue, FetchVersion, Apply,
           UpdateStatus, Restart, TargetFails, FetchFails, RestartFails, Fails,
           InformerSync, TimerFires, Tick, Crash, SpecChange, Webhook, Annotate,
           Delete, StripFinalizer, OutsideWrite, EditSecret, CollectSecret, SetSecret,
           RemoteChange, StoreDown, StoreUp, vars
  <2>3. ASSUME NEW j \in Keys, RemoteChange(j)
        PROVE  remote[k] <= remote'[k] /\ remote'[k] \in Int
    BY <1>0, <2>3 DEF RemoteChange
  <2> QED BY <1>0, <2>1, <2>2, <2>3
<1>3. ASSUME pc' # "idle", ~copyStale' \/ Covers(api'), NEW k \in Entries(data')
      PROVE  data'[k] >= notified'[k]
  <2>1. CASE data' = Nothing
    BY <1>3, <2>1 DEF Entries, Nothing
  <2>2. CASE /\ pc # "idle" /\ UNCHANGED <<data, notified>>
             /\ copyStale' = copyStale \/ copyStale'
    <3>1. ~copyStale \/ Covers(api)
      BY <1>3, <2>2, CoversStep
    <3> QED BY <1>3, <2>2, <3>1 DEF IndInv, EventInv
  <2>3. ASSUME NEW j \in Keys, FetchValue(j)
        PROVE  data'[k] >= notified'[k]
    <3>1. /\ UNCHANGED <<notified, copyStale, api>> /\ pc # "idle"
          /\ data' = [data EXCEPT ![j] = remote[j]]
      BY <2>3 DEF FetchValue
    <3>2. notified[j] <= remote[j]
      BY DEF IndInv, EventInv
    <3>3. CASE k = j
      BY <1>0, <3>1, <3>2, <3>3
    <3>4. CASE k # j
      <4>1. k \in Entries(data) /\ data'[k] = data[k]
        BY <1>0, <1>3, <3>1, <3>4 DEF Entries
      <4>2. ~copyStale \/ Covers(api)
        BY <1>3, <3>1
      <4> QED BY <3>1, <4>1, <4>2 DEF IndInv, EventInv
    <3> QED BY <3>3, <3>4
  <2>4. CASE Begin \/ AddFinalizer \/ Decide \/ CheckDone
    <3>1. data = Nothing
      BY <2>4 DEF Begin, AddFinalizer, Decide, CheckDone, IndInv, DataInv
    <3> QED BY <2>1, <2>4, <3>1 DEF Begin, AddFinalizer, Decide, CheckDone, Done
  <2>5. CASE Webhook \/ Annotate
    <3>1. ~Covers(api') /\ pc' = pc
      BY <2>5, CoversStep DEF Webhook, Annotate, OutsideWrite
    <3>2. UNCHANGED <<recVars, notified>>
      BY <1>3, <2>5, <3>1 DEF Webhook, Annotate, OutsideWrite
    <3> QED BY <1>3, <2>2, <3>1, <3>2
  <2>6. CASE SpecChange \/ Delete \/ StripFinalizer
    BY <1>3, <2>2, <2>6 DEF SpecChange, Delete, StripFinalizer, OutsideWrite
  <2>7. CASE pc' = "idle"
    BY <1>3, <2>7
  <2>8. CASE UNCHANGED <<pc, copyStale, data, notified>>
    BY <1>3, <2>2, <2>8
  <2>9. CASE Apply \/ \E j \in Keys : FetchVersion(j)
    BY <2>2, <2>9 DEF Apply, FetchVersion
  <2> QED
    BY <2>3, <2>4, <2>5, <2>6, <2>7, <2>8, <2>9
    DEF Next, Reconcile, Failure, Environment, CheckFails, CheckVersion,
        UpdateStatus, Restart, TargetFails, FetchFails, RestartFails, Fails, Done,
        InformerSync, TimerFires, Tick, Crash, EditSecret, CollectSecret, SetSecret,
        RemoteChange, StoreDown, StoreUp, vars
<1> QED BY <1>1, <1>2, <1>3 DEF EventInv

\* Every step keeps EventCovered.
LEMMA CoveredStep ==
    ASSUME IndInv, [Next]_vars
    PROVE  EventCovered'
<1> USE DEF crVars, qVars, extVars, recVars, ghosts
<1> SUFFICES ASSUME Covers(api'), NEW k \in Entries(applied.data)'
             PROVE  applied'.data[k] >= notified'[k]
  BY DEF EventCovered, Covers
<1>1. ~Webhook /\ ~Annotate /\ (Covers(api) \/ (UpdateStatus /\ ~copyStale))
  BY CoversStep
<1>2. CASE Apply
  <2>1. applied' = [gen |-> copy.gen, data |-> data] /\ UNCHANGED <<notified, api>>
        /\ pc = "fetch"
    BY <1>2 DEF Apply
  <2> QED BY <2>1 DEF IndInv, EventInv
<1>3. CASE UNCHANGED <<applied, notified>>
  <2>1. CASE Covers(api)
    BY <1>3, <2>1 DEF IndInv, EventCovered, Covers
  <2>2. CASE UpdateStatus /\ ~copyStale
    <3>1. pc = "restart"
      BY <2>2 DEF UpdateStatus
    <3>2. applied.data = data
      BY <3>1 DEF IndInv, DataInv
    <3> QED BY <1>3, <2>2, <3>1, <3>2 DEF IndInv, EventInv
  <2> QED BY <1>1, <2>1, <2>2
<1>4. CASE UpdateStatus \/ \E j \in Keys : FetchVersion(j)
  BY <1>3, <1>4 DEF UpdateStatus, FetchVersion
<1> QED
  BY <1>1, <1>2, <1>3, <1>4
  DEF Next, Reconcile, Failure, Environment, Begin, AddFinalizer, Decide,
      CheckDone, CheckFails, CheckVersion, FetchValue, Restart, TargetFails,
      FetchFails, RestartFails, Fails, InformerSync, TimerFires, Tick, Crash,
      SpecChange, Delete, StripFinalizer, OutsideWrite, EditSecret, CollectSecret,
      SetSecret, RemoteChange, StoreDown, StoreUp, vars

\* Every step keeps SyncedMeansApplied.
LEMMA SyncedStep ==
    ASSUME IndInv, [Next]_vars
    PROVE  SyncedMeansApplied'
<1> USE DEF crVars, qVars, extVars, recVars, ghosts
<1>0. /\ api \in Resource /\ copy \in Resource /\ cache \in Resource
      /\ api.gen \in Int /\ copy.gen \in Int /\ cache.gen \in Int
      /\ api.synced \in Int
  BY ResourceInts DEF IndInv, TypeOK
<1>1. CASE Apply
  <2>1. applied' = [gen |-> copy.gen, data |-> data] /\ UNCHANGED api
        /\ pc = "fetch" /\ todo = {}
    BY <1>1 DEF Apply
  <2>2. Entries(data) = copy.spec.keys
    BY <2>1 DEF IndInv, DataInv
  <2>3. api.synced = api.gen => copy.gen = api.gen /\ copy.spec = api.spec
    BY <1>0, <2>1 DEF IndInv, CopyInv, CacheInv
  <2> QED BY <2>1, <2>2, <2>3 DEF SyncedMeansApplied
<1>2. CASE UpdateStatus /\ api' # api
  <2>1. /\ api' = SyncedStatus(api) /\ ~copyStale /\ pc = "restart"
        /\ UNCHANGED applied
    BY <1>2 DEF UpdateStatus, Write
  <2>2. copy.gen = api.gen /\ copy.spec = api.spec
    BY <2>1 DEF IndInv, CopyInv
  <2>3. api'.gen = api.gen /\ api'.spec = api.spec
    BY <1>0, <2>1 DEF SyncedStatus, Resource
  <2> QED BY <2>1, <2>2, <2>3 DEF SyncedMeansApplied, IndInv, DataInv
<1>3. CASE /\ UNCHANGED applied
           /\ api'.gen = api.gen /\ api'.spec = api.spec /\ api'.synced = api.synced
  BY <1>3 DEF IndInv, SyncedMeansApplied
<1>4. CASE markFailed(copy) /\ UNCHANGED applied
  BY <1>0, <1>3, <1>4 DEF markFailed, Write, Resource
<1>5. CASE AddFinalizer
  BY <1>0, <1>3, <1>5 DEF AddFinalizer, Write, Resource
<1>6. CASE Decide
  BY <1>3, <1>4, <1>6 DEF Decide
<1>7. CASE CheckFails \/ FetchFails \/ RestartFails
  BY <1>4, <1>7 DEF CheckFails, FetchFails, RestartFails, Fails
<1>8. CASE SpecChange
  <2>1. api'.gen = api.gen + 1 /\ api'.synced = api.synced
    BY <1>0, <1>8 DEF SpecChange, OutsideWrite, Write, Resource
  <2>2. api.synced <= api.gen
    BY <1>0 DEF IndInv, CacheInv
  <2> QED BY <1>0, <2>1, <2>2 DEF SyncedMeansApplied
<1>9. CASE Webhook \/ Annotate \/ Delete \/ StripFinalizer
  BY <1>0, <1>3, <1>9
  DEF Webhook, Annotate, Delete, StripFinalizer, OutsideWrite, Write, Resource
<1>10. CASE Tick
  BY <1>0, <1>3, <1>10, AgedKeeps DEF Tick
<1>11. CASE UNCHANGED <<api, applied>>
  BY <1>3, <1>11
<1>12. CASE UpdateStatus
  BY <1>2, <1>11, <1>12 DEF UpdateStatus
<1> QED
  BY <1>1, <1>5, <1>6, <1>7, <1>8, <1>9, <1>10, <1>11, <1>12
  DEF Next, Reconcile, Failure, Environment, Begin, TargetFails, CheckVersion,
      CheckDone, FetchValue, FetchVersion, Restart, InformerSync, TimerFires,
      Crash, EditSecret, CollectSecret, SetSecret, RemoteChange, StoreDown, StoreUp, vars

\* Every step keeps NeverAbandoned.
LEMMA AbandonedStep ==
    ASSUME IndInv, [Next]_vars
    PROVE  NeverAbandoned'
<1> USE DEF crVars, qVars, extVars, recVars, ghosts
<1>0. /\ api \in Resource /\ copy \in Resource /\ cache \in Resource
      /\ timer \in Nat \cup {NoTimer}
  BY DEF IndInv, TypeOK
<1>1. CASE timer' # NoTimer \/ queued' \/ watch' = "pending" \/ pc' # "idle"
  BY <1>1 DEF NeverAbandoned
<1>2. CASE Begin
  <2>1. CASE cache.present /\ ~cache.deleting
    BY <1>1, <1>2, <2>1 DEF Begin
  <2>2. CASE ~(cache.present /\ ~cache.deleting)
    BY <1>2, <2>2 DEF Begin, NeverAbandoned, IndInv, CacheInv
  <2> QED BY <2>1, <2>2
<1>3. CASE AddFinalizer
  BY <1>0, <1>1, <1>3, RateLimitedSets DEF AddFinalizer
<1>4. CASE Decide
  <2>1. StoreRetry \in Nat \ {0} /\ requeueAfter(copy) \in Nat \ {0}
    BY <1>0, TimeAssumption, RequeuePositive
  <2>2. Requeue(StoreRetry) \/ Requeue(requeueAfter(copy)) \/ pc' # "idle"
    BY <1>4 DEF Decide
  <2> QED BY <1>0, <1>1, <2>1, <2>2, RequeueSets
<1>5. CASE CheckDone
  BY <1>0, <1>1, <1>5, RequeuePositive, RequeueSets DEF CheckDone
<1>6. CASE CheckFails \/ TargetFails \/ FetchFails \/ RestartFails
  BY <1>0, <1>1, <1>6, RateLimitedSets
  DEF CheckFails, TargetFails, FetchFails, RestartFails, Fails
<1>7. CASE UpdateStatus
  <2>1. SyncedStatus(copy) \in Resource
    BY <1>0, NowFacts, GenType DEF SyncedStatus, IndInv, TypeOK, Resource
  <2>2. requeueAfter(SyncedStatus(copy)) \in Nat \ {0}
    BY <2>1, RequeuePositive
  <2>3. Requeue(requeueAfter(SyncedStatus(copy))) \/ AddRateLimited
    BY <1>7 DEF UpdateStatus
  <2> QED BY <1>0, <1>1, <2>2, <2>3, RequeueSets, RateLimitedSets
<1>8. CASE InformerSync \/ TimerFires \/ Crash
  BY <1>1, <1>8
  DEF InformerSync, TimerFires, Crash, IndInv, NeverAbandoned
<1>9. ASSUME NEW r, OutsideWrite(r), r.present => api.present, api.deleting => r.deleting
      PROVE  NeverAbandoned'
  BY <1>9 DEF OutsideWrite, Write, IndInv, NeverAbandoned
<1>10. CASE SpecChange
  BY <1>0, <1>9, <1>10 DEF SpecChange, Resource
<1>11. CASE Annotate \/ Delete \/ StripFinalizer
  BY <1>0, <1>9, <1>11 DEF Annotate, Delete, StripFinalizer, Resource
<1>12. CASE Webhook
  <2>1. CASE UNCHANGED <<crVars, qVars, recVars>>
    BY <2>1 DEF IndInv, NeverAbandoned
  <2>2. CASE OutsideWrite([api EXCEPT !.force = Stored(Now)])
    BY <1>0, <1>9, <2>2 DEF Resource
  <2> QED BY <1>12, <2>1, <2>2 DEF Webhook
<1>13. CASE Tick
  <2>1. /\ api'.present = api.present /\ api'.deleting = api.deleting
        /\ UNCHANGED <<pc, queued, watch>>
    BY <1>0, <1>13, AgedKeeps DEF Tick
  <2>2. timer # NoTimer => timer' # NoTimer
    BY <1>0, <1>13 DEF Tick, Later, Second, NoTimer
  <2> QED BY <2>1, <2>2 DEF IndInv, NeverAbandoned
<1>14. CASE UNCHANGED <<api, queued, timer, watch, pc>>
  BY <1>14 DEF IndInv, NeverAbandoned
<1>15. CASE Apply \/ \E j \in Keys : FetchValue(j) \/ FetchVersion(j)
  BY <1>1, <1>15 DEF Apply, FetchValue, FetchVersion
<1> QED
  BY <1>2, <1>3, <1>4, <1>5, <1>6, <1>7, <1>8, <1>10, <1>11, <1>12, <1>13, <1>14, <1>15
  DEF Next, Reconcile, Failure, Environment, CheckVersion, Restart, EditSecret,
      CollectSecret, SetSecret, RemoteChange, StoreDown, StoreUp, vars

\* The initial states satisfy the inductive invariant.
LEMMA IndInit ==
    ASSUME Init
    PROVE  IndInv
<1>0. TypeOK
  BY InitType
<1>1. PICK s \in Specs : api = Created(s)
  BY DEF Init
<1>2. /\ api.gen = 1 /\ api.synced = 0 /\ api.refresh = 0 /\ api.force = 0
      /\ cache = api /\ pc = "idle" /\ data = Nothing /\ queued
      /\ remote = [k \in Keys |-> 1] /\ notified = [k \in Keys |-> -1]
  BY <1>1 DEF Init, Created, ZeroTime, NoAnnotation, Nothing, None
<1>3. CacheInv
  BY <1>2 DEF CacheInv
<1>4. CopyInv /\ NeverAbandoned /\ DataInv /\ SyncedMeansApplied
  BY <1>2 DEF CopyInv, NeverAbandoned, DataInv, SyncedMeansApplied
<1>5. EventInv /\ EventCovered
  BY <1>2, NowFacts, TimeAssumption DEF EventInv, EventCovered, NoAnnotation, Second
<1> QED BY <1>0, <1>3, <1>4, <1>5 DEF IndInv

\* The inductive invariant holds in every reachable state of the controller.
THEOREM Inductive == Spec => []IndInv
<1>1. Init => IndInv
  BY IndInit
<1>2. IndInv /\ [Next]_vars => IndInv'
  BY TypeStep, CacheStep, CopyStep, DataStep, EventStep, CoveredStep, SyncedStep,
     AbandonedStep DEF IndInv
<1> QED BY <1>1, <1>2, PTL DEF Spec

\* A status that says that the current generation is synced is never ahead of
\* the Secret: the last write was made from that very spec, whatever changes,
\* failures and crashes happened during the sync.
THEOREM StatusIsHonest == Spec => []SyncedMeansApplied
BY Inductive, PTL DEF IndInv

\* A force-sync request that ForceSyncPending takes for served was served: the
\* Secret was written with values at least as recent as the request.
THEOREM RequestsAreServed == Spec => []EventCovered
BY Inductive, PTL DEF IndInv

\* Every return path of Reconcile leaves a live resource scheduled: there is a
\* queue entry, a delayed add or a watch event under way.
THEOREM ResourcesAreScheduled == Spec => []NeverAbandoned
BY Inductive, PTL DEF IndInv

-----------------------------------------------------------------------------
(***************************************************************************)
(* The restarts.  A failure between the write of the Secret and the last   *)
(* restart is one the controller does not recover from, and an edit is one *)
(* the pods may have seen; until the first of them the pods of every       *)
(* target have read what the Secret holds whenever the controller rests.   *)
(***************************************************************************)

\* No failure, crash or outage yet, and no edit of the Secret.
Undisturbed == faults = 0 /\ edits = 0

\* The Secret carries the hash of its data, or none when it is not managed.
HashInv ==
    /\ secret.managed => secret.hash = secret.data
    /\ ~secret.managed => secret.hash = NoHash

\* The pods of all but the targets still to restart have the Secret's data.
PodsInv ==
    secret.managed =>
        \A t \in Targets : (pc = "restart" /\ t \in todo) \/ pods[t] = secret.data

\* The hash a running sync compares with is that of the data the pods have: a
\* Secret that is collected during the sync leaves both as they are.
ExistingInv ==
    (pc \in {"check", "fetch", "version"} /\ existing.hash # NoHash) =>
        \A t \in Targets : pods[t] = existing.hash

RolloutInv == Undisturbed => HashInv /\ PodsInv /\ ExistingInv

\* An unmanaged Secret has no hash, so the first write restarts every target,
\* and a hash that is the data's own is one the pods have read.
LEMMA RestartsSuffice ==
    ASSUME TypeOK, ExistingInv, pc = "fetch", NEW t \in Targets,
           t \notin RestartsNeeded(existing, data)
    PROVE  pods[t] = data
<1>1. existing.hash = data
  BY DEF RestartsNeeded, ObjectHash
<1>2. pods[t] \in [Keys -> Values] /\ data \in [Keys -> Versions]
  BY DEF TypeOK
<1>3. CASE existing.hash # NoHash
  BY <1>1, <1>3 DEF ExistingInv
<1>4. CASE existing.hash = NoHash
  <2>1. Keys = {}
    <3>1. \A k \in Keys : data[k] = Unhashed /\ data[k] \in Versions
      BY <1>1, <1>2, <1>4 DEF NoHash
    <3>2. Unhashed \notin Versions
      BY BoundAssumption DEF Unhashed, Versions, None
    <3> QED BY <3>1, <3>2
  <2> QED BY <1>2, <2>1
<1> QED BY <1>3, <1>4

\* Initially there is no managed Secret.
LEMMA RolloutInit == Init => RolloutInv
<1> SUFFICES ASSUME Init PROVE RolloutInv
  OBVIOUS
<1>1. ~secret.managed /\ secret.hash = NoHash /\ pc = "idle"
  BY DEF Init, UserSecret, NoSecret
<1> QED BY <1>1 DEF RolloutInv, HashInv, PodsInv, ExistingInv

\* Every step keeps the invariant, or is the first disturbance.
LEMMA RolloutStep ==
    ASSUME TypeOK, RolloutInv, [Next]_vars
    PROVE  RolloutInv'
<1> SUFFICES ASSUME Undisturbed' PROVE (HashInv /\ PodsInv /\ ExistingInv)'
  BY DEF RolloutInv
<1>0. faults \in Nat /\ edits \in Nat
  BY BoundAssumption DEF TypeOK
<1>1. ~Fault
  BY <1>0 DEF Fault, Undisturbed
<1>2. CASE UNCHANGED <<secret, pods, pc, todo, existing, faults, edits>>
  BY <1>2 DEF Undisturbed, RolloutInv, HashInv, PodsInv, ExistingInv
<1>3. CASE /\ UNCHANGED <<secret, pods, existing, faults, edits>>
           /\ pc # "restart" /\ pc' # "restart"
           /\ pc' \in {"check", "fetch", "version"} => pc \in {"check", "fetch", "version"}
  BY <1>3 DEF Undisturbed, RolloutInv, HashInv, PodsInv, ExistingInv
<1>4. CASE /\ UNCHANGED <<secret, pods, faults, edits>> /\ Done
           /\ pc = "restart" => todo = {}
  BY <1>4 DEF Undisturbed, RolloutInv, HashInv, PodsInv, ExistingInv, Done
<1>5. CASE Begin \/ AddFinalizer \/ CheckDone \/ UpdateStatus
  BY <1>1, <1>3, <1>4, <1>5 DEF Begin, AddFinalizer, CheckDone, UpdateStatus, extVars
<1>6. CASE \E k \in Keys : CheckVersion(k) \/ FetchValue(k) \/ FetchVersion(k)
  BY <1>1, <1>3, <1>6 DEF CheckVersion, FetchValue, FetchVersion, extVars
<1>7. CASE CheckFails \/ Failure
  BY <1>1, <1>4, <1>7 DEF CheckFails, Fails, Failure, TargetFails, FetchFails, RestartFails
<1>8. CASE Decide
  <2>1. UNCHANGED <<secret, pods, faults, edits>> /\ pc = "target"
    BY <1>8 DEF Decide, extVars
  <2>2. CASE Done
    BY <1>4, <2>1, <2>2
  <2>3. CASE existing' = secret /\ pc' \in {"check", "fetch"}
    <3>1. HashInv /\ PodsInv
      BY <2>1 DEF RolloutInv, Undisturbed
    <3>2. (HashInv /\ PodsInv)'
      BY <2>1, <2>3, <3>1 DEF HashInv, PodsInv
    <3>3. ExistingInv'
      BY <2>1, <2>3, <3>1 DEF HashInv, PodsInv, ExistingInv
    <3> QED BY <3>2, <3>3
  <2> QED BY <1>8, <2>2, <2>3 DEF Decide
<1>9. CASE Apply
  <2>1. HashInv /\ PodsInv /\ ExistingInv
    BY <1>9 DEF RolloutInv, Undisturbed, Apply, extVars
  <2>2. /\ secret'.managed /\ secret'.hash = data /\ secret'.data = data
        /\ pods' = pods /\ pc = "fetch" /\ pc' = "restart"
        /\ todo' = RestartsNeeded(existing, data)
    BY <1>9 DEF Apply, ManagedSecret, ObjectHash
  <2>3. \A t \in Targets : t \in todo' \/ pods[t] = data
    BY <2>1, <2>2, RestartsSuffice
  <2> QED BY <2>2, <2>3 DEF HashInv, PodsInv, ExistingInv
<1>10. CASE \E t \in Targets : Restart(t)
  <2>1. PICK t \in Targets : Restart(t)
    BY <1>10
  <2>2. HashInv /\ PodsInv
    BY <2>1 DEF RolloutInv, Undisturbed, Restart, extVars
  <2>3. /\ pods' = [pods EXCEPT ![t] = secret.data] /\ todo' = todo \ {t}
        /\ pc = "restart" /\ pc' = "restart" /\ secret' = secret
    BY <2>1 DEF Restart
  <2>4. \A u \in Targets : pods'[u] = IF u = t THEN secret.data ELSE pods[u]
    BY <2>3 DEF TypeOK
  <2> QED BY <2>2, <2>3, <2>4 DEF HashInv, PodsInv, ExistingInv
<1>11. CASE EditSecret
  BY <1>0, <1>11 DEF EditSecret, Undisturbed
<1>12. CASE CollectSecret
  <2>1. ~secret'.managed /\ secret'.hash = NoHash
    BY <1>12 DEF CollectSecret, SetSecret, NoSecret
  <2>2. UNCHANGED <<pods, pc, existing, faults, edits>>
    BY <1>12 DEF CollectSecret, SetSecret, recVars
  <2> QED BY <2>1, <2>2 DEF RolloutInv, Undisturbed, HashInv, PodsInv, ExistingInv
<1>13. CASE Crash \/ StoreDown
  BY <1>1, <1>13 DEF Crash, StoreDown
<1>14. CASE SpecChange \/ Webhook \/ Annotate \/ Delete \/ StripFinalizer
  BY <1>2, <1>14
  DEF SpecChange, Webhook, Annotate, Delete, StripFinalizer, OutsideWrite, recVars
<1>15. CASE InformerSync \/ TimerFires \/ Tick \/ StoreUp \/ \E k \in Keys : RemoteChange(k)
  BY <1>2, <1>15
  DEF InformerSync, TimerFires, Tick, StoreUp, RemoteChange, extVars, recVars
<1>16. CASE UNCHANGED vars
  BY <1>2, <1>16 DEF vars, extVars, recVars
<1> QED
  BY <1>5, <1>6, <1>7, <1>8, <1>9, <1>10, <1>11, <1>12, <1>13, <1>14, <1>15, <1>16
  DEF Next, Reconcile, Environment

\* Until the first failure, crash, outage or edit the restarts follow the data,
\* whatever the spec, the items, the requests and the deletion of the resource
\* do during a sync.  The run restart_lost shows that one failure breaks it.
THEOREM RestartsFollowData == Spec => [](Undisturbed => RolloutFollows)
<1>1. Init => TypeOK /\ RolloutInv
  BY InitType, RolloutInit
<1>2. TypeOK /\ RolloutInv /\ [Next]_vars => (TypeOK /\ RolloutInv)'
  BY TypeStep, RolloutStep
<1>3. RolloutInv => (Undisturbed => RolloutFollows)
  BY DEF RolloutInv, PodsInv, RolloutFollows
<1> QED BY <1>1, <1>2, <1>3, PTL DEF Spec
=============================================================================
