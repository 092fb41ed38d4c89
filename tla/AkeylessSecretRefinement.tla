---------------------- MODULE AkeylessSecretRefinement ----------------------
(***************************************************************************)
(* The AkeylessSecret controller implements SecretSync: the initial states *)
(* map to initial states, and every step maps to a step of SecretSync or   *)
(* leaves its variables as they are.                                       *)
(***************************************************************************)
EXTENDS AkeylessSecretSafety

\* What keeps the writes in order: no copy of the resource is of an earlier
\* generation than the last write, and the values of a running sync were read
\* after it.
WriteInv ==
    /\ applied.gen <= cache.gen
    /\ pc # "idle" => applied.gen <= copy.gen
    /\ \A k \in Keys : applied.data[k] <= remote[k] /\ data[k] <= remote[k]
    /\ \A k \in Entries(data) : applied.data[k] <= data[k]

\* The generations and versions that are compared are integers.
LEMMA IntFacts ==
    ASSUME TypeOK
    PROVE  /\ api \in Resource /\ copy \in Resource /\ cache \in Resource
           /\ api.gen \in Int /\ copy.gen \in Int /\ cache.gen \in Int
           /\ applied.gen \in Int /\ applied.data \in [Keys -> Int]
           /\ data \in [Keys -> Int] /\ remote \in [Keys -> Int]
           /\ notified \in [Keys -> Int]
           /\ applied = [gen |-> applied.gen, data |-> applied.data]
<1>1. Versions \subseteq Int /\ 1 .. MaxVersion \subseteq Int /\ 0 .. MaxGen \subseteq Int
  BY BoundAssumption DEF Versions, None
<1> QED BY <1>1, ResourceInts DEF TypeOK

\* Every step keeps the writes in order.
LEMMA WriteStep ==
    ASSUME IndInv, WriteInv, [Next]_vars
    PROVE  WriteInv'
<1> USE DEF crVars, qVars, extVars, recVars, ghosts
<1>0. /\ api.gen \in Int /\ copy.gen \in Int /\ cache.gen \in Int
      /\ applied.gen \in Int /\ applied.data \in [Keys -> Int]
      /\ data \in [Keys -> Int] /\ remote \in [Keys -> Int]
      /\ cache \in Resource /\ copy \in Resource
  BY IntFacts DEF IndInv
<1>1. ASSUME UNCHANGED <<remote, applied>>, data' = data \/ data' = Nothing
      PROVE  /\ \A k \in Keys : applied'.data[k] <= remote'[k] /\ data'[k] <= remote'[k]
             /\ \A k \in Entries(data') : applied'.data[k] <= data'[k]
  <2>1. CASE data' = data
    BY <1>1, <2>1 DEF WriteInv
  <2>2. CASE data' = Nothing
    <3>1. Entries(data') = {} /\ \A k \in Keys : data'[k] = -1 /\ 1 <= remote[k]
      BY <2>2 DEF Entries, Nothing, None, IndInv, TypeOK
    <3> QED BY <1>0, <1>1, <3>1 DEF WriteInv
  <2> QED BY <1>1, <2>1, <2>2
<1>2. CASE Begin
  <2>1. pc' # "idle" => copy' = cache
    BY <1>2 DEF Begin, Done
  <2>2. UNCHANGED <<cache, remote, applied>> /\ (data' = data \/ data' = Nothing)
    BY <1>2 DEF Begin, Done
  <2> QED BY <1>1, <2>1, <2>2 DEF WriteInv
<1>3. CASE /\ UNCHANGED <<cache, remote, applied>> /\ (data' = data \/ data' = Nothing)
           /\ pc' # "idle" => pc # "idle" /\ copy'.gen = copy.gen
  BY <1>1, <1>3 DEF WriteInv
<1>4. CASE AddFinalizer
  BY <1>0, <1>3, <1>4 DEF AddFinalizer, Done, Write, Resource
<1>5. CASE Decide \/ CheckDone
  BY <1>0, <1>3, <1>5 DEF Decide, CheckDone, Done, Resource
<1>6. CASE CheckFails \/ TargetFails \/ FetchFails \/ RestartFails \/ UpdateStatus
  BY <1>3, <1>6
  DEF CheckFails, TargetFails, FetchFails, RestartFails, UpdateStatus, Fails, Done, markFailed
<1>7. ASSUME NEW j \in Keys, FetchValue(j)
      PROVE  WriteInv'
  <2>1. /\ UNCHANGED <<cache, remote, applied, copy>> /\ pc # "idle" /\ pc' # "idle"
        /\ data' = [data EXCEPT ![j] = remote[j]]
    BY <1>7 DEF FetchValue
  <2>2. \A k \in Keys : data'[k] = IF k = j THEN remote[j] ELSE data[k]
    BY <1>0, <2>1
  <2>3. \A k \in Entries(data') : k = j \/ k \in Entries(data)
    BY <1>0, <2>1, <2>2 DEF Entries
  <2>4. Entries(data') \subseteq Keys
    BY <1>0, <2>1 DEF Entries
  <2>5. \A k \in Keys : applied'.data[k] <= remote'[k] /\ data'[k] <= remote'[k]
    BY <1>0, <2>1, <2>2 DEF WriteInv
  <2>6. ASSUME NEW k \in Entries(data') PROVE applied'.data[k] <= data'[k]
    BY <1>0, <2>1, <2>2, <2>3, <2>4, <2>6 DEF WriteInv
  <2>7. applied'.gen <= cache'.gen /\ (pc' # "idle" => applied'.gen <= copy'.gen)
    BY <2>1 DEF WriteInv
  <2> QED BY <2>5, <2>6, <2>7 DEF WriteInv
<1>8. CASE Apply
  <2>1. /\ UNCHANGED <<cache, remote, data, copy>> /\ pc # "idle"
        /\ applied'.gen = copy.gen /\ applied'.data = data
    BY <1>8 DEF Apply
  <2>2. copy.gen <= cache.gen
    BY <2>1 DEF IndInv, CopyInv
  <2> QED BY <1>0, <2>1, <2>2 DEF WriteInv, Entries
<1>9. CASE \/ \E j \in Keys : FetchVersion(j) \/ CheckVersion(j)
           \/ \E t \in Targets : Restart(t)
  BY <1>3, <1>9 DEF FetchVersion, CheckVersion, Restart
<1>10. CASE InformerSync
  <2>1. cache' = api /\ UNCHANGED <<remote, applied, data, pc, copy>>
    BY <1>10 DEF InformerSync
  <2>2. cache.gen <= api.gen
    BY DEF IndInv, CacheInv
  <2> QED BY <1>0, <1>1, <2>1, <2>2 DEF WriteInv
<1>11. CASE Crash
  <2>1. cache' = api /\ UNCHANGED <<remote, applied>> /\ data' = Nothing /\ pc' = "idle"
    BY <1>11 DEF Crash, Done
  <2>2. cache.gen <= api.gen
    BY DEF IndInv, CacheInv
  <2> QED BY <1>0, <1>1, <2>1, <2>2 DEF WriteInv
<1>12. CASE Tick
  <2>1. /\ cache'.gen = cache.gen /\ copy'.gen = copy.gen
        /\ UNCHANGED <<remote, applied, data, pc>>
    BY <1>0, <1>12, AgedKeeps DEF Tick
  <2> QED BY <1>1, <2>1 DEF WriteInv
<1>13. ASSUME NEW j \in Keys, RemoteChange(j)
       PROVE  WriteInv'
  <2>1. /\ UNCHANGED <<cache, applied, data, pc, copy>>
        /\ \A k \in Keys : remote[k] <= remote'[k] /\ remote'[k] \in Int
    BY <1>0, <1>13 DEF RemoteChange
  <2> QED BY <1>0, <2>1 DEF WriteInv
<1>14. CASE UNCHANGED <<cache, remote, applied, data, pc, copy>>
  BY <1>3, <1>14
<1> QED
  BY <1>2, <1>4, <1>5, <1>6, <1>7, <1>8, <1>9, <1>10, <1>11, <1>12, <1>13, <1>14
  DEF Next, Reconcile, Failure, Environment, TimerFires, SpecChange, Webhook,
      Annotate, Delete, StripFinalizer, OutsideWrite, EditSecret, CollectSecret,
      SetSecret, StoreDown, StoreUp, vars

-----------------------------------------------------------------------------
\* The entries of a map are the same at both levels.
LEMMA EntriesAgree ==
    ASSUME NEW d \in [Keys -> Int]
    PROVE  Sync!Entries(d) = Entries(d)
BY DEF Sync!Entries, Sync!None, Entries, None

\* Ageing neither opens nor closes a request.
LEMMA AgedOpen ==
    ASSUME NEW r \in Resource
    PROVE  /\ Aged(r).force = Unparsable <=> r.force = Unparsable
           /\ (Aged(r).force > NoAnnotation /\ Aged(r).refresh <= Aged(r).force)
                <=> (r.force > NoAnnotation /\ r.refresh <= r.force)
<1>1. /\ Aged(r).refresh = Older(r.refresh, r.force)
      /\ Aged(r).force = Older(r.force, r.refresh)
  BY DEF Aged, Resource
<1>2. r.refresh \in Int /\ r.force \in Int /\ 0 <= r.refresh
  BY ResourceInts DEF Resource, Times
<1> QED BY <1>1, <1>2 DEF Older, Later, Second, NoAnnotation, Unparsable

\* A step that leaves the generation, the items of the spec, the synced
\* generation and the two times of the resource alone, and neither writes the
\* Secret nor changes an item nor asks, is no step of SecretSync.
LEMMA Stutter ==
    ASSUME UNCHANGED <<remote, applied, notified>>,
           api'.gen = api.gen, api'.spec = api.spec, api'.synced = api.synced,
           api'.refresh = api.refresh, api'.force = api.force
    PROVE  UNCHANGED Sync!vars
BY DEF Sync!vars, OpenRequest

\* Every step of the controller is a step of SecretSync.
LEMMA SyncStep ==
    ASSUME IndInv, WriteInv, [Next]_vars
    PROVE  [Sync!Next]_(Sync!vars)
<1> USE DEF crVars, qVars, extVars, recVars, ghosts
<1>0. /\ api \in Resource /\ copy \in Resource /\ cache \in Resource
      /\ api.gen \in Int /\ copy.gen \in Int /\ cache.gen \in Int
      /\ applied.gen \in Int /\ applied.data \in [Keys -> Int]
      /\ data \in [Keys -> Int] /\ remote \in [Keys -> Int]
      /\ notified \in [Keys -> Int]
  BY IntFacts DEF IndInv
<1>1. CASE UNCHANGED <<api, remote, applied, notified>>
  BY <1>1, Stutter
<1>2. CASE markFailed(copy) /\ UNCHANGED <<remote, applied, notified>>
  BY <1>0, <1>1, <1>2, Stutter DEF markFailed, Write, Resource
<1>3. CASE AddFinalizer
  BY <1>0, <1>1, <1>3, Stutter DEF AddFinalizer, Write, Resource
<1>4. CASE Decide
  BY <1>1, <1>2, <1>4 DEF Decide
<1>5. CASE CheckFails \/ FetchFails \/ RestartFails
  BY <1>2, <1>5 DEF CheckFails, FetchFails, RestartFails, Fails
<1>6. CASE Apply
  <2>1. /\ applied' = [gen |-> copy.gen, data |-> data]
        /\ UNCHANGED <<api, remote, notified>> /\ pc = "fetch" /\ todo = {}
    BY <1>6 DEF Apply
  <2>2. /\ applied.gen <= copy.gen /\ copy.gen <= api.gen
        /\ copy.gen = api.gen => copy.spec = api.spec
    BY <1>0, <2>1 DEF WriteInv, IndInv, CopyInv, CacheInv
  <2>3. Entries(data) = copy.spec.keys
    BY <2>1 DEF IndInv, DataInv
  <2>4. Sync!Snapshot(data)
    BY <1>0, EntriesAgree DEF Sync!Snapshot, WriteInv, Entries
  <2>5. Sync!Publish(copy.gen, data)
    BY <1>0, <2>1, <2>2, <2>3, <2>4, EntriesAgree DEF Sync!Publish, OpenRequest
  <2>6. copy.gen \in 0 .. api.gen /\ data \in [Keys -> (1 .. MaxVersion) \cup {Sync!None}]
    BY <1>0, <2>2 DEF IndInv, TypeOK, Versions, None, Sync!None, Resource
  <2> QED BY <2>5, <2>6 DEF Sync!Next
<1>7. CASE UpdateStatus /\ api' # api
  <2>1. /\ api' = SyncedStatus(api) /\ ~copyStale /\ pc = "restart"
        /\ UNCHANGED <<remote, applied, notified>>
    BY <1>7 DEF UpdateStatus, Write
  <2>2. copy.gen = api.gen
    BY <2>1 DEF IndInv, CopyInv
  <2>3. applied.gen = api.gen /\ applied.data = data
    BY <2>1, <2>2 DEF IndInv, DataInv
  <2>4. \A k \in Entries(applied.data) : notified[k] <= applied.data[k]
    BY <1>0, <2>1, <2>3 DEF IndInv, EventInv, Entries
  <2>5. /\ api'.gen = api.gen /\ api'.spec = api.spec /\ api'.synced = api.gen
        /\ api'.force = api.force
    BY <1>0, <2>1, <2>2 DEF SyncedStatus, Resource
  <2>6. \/ OpenRequest' = OpenRequest
        \/ /\ \A k \in Sync!Entries(applied.data) : OpenRequest[k] <= applied.data[k]
           /\ OpenRequest' = Sync!Nothing
    <3>1. OpenRequest' \in {notified, Nothing} /\ OpenRequest \in {notified, Nothing}
      BY <2>1 DEF OpenRequest
    <3>2. OpenRequest' = notified => OpenRequest = notified
      <4>1. api.refresh <= Stored(Now) /\ api'.refresh = Stored(Now)
        BY <1>0, <2>1 DEF IndInv, EventInv, SyncedStatus, Resource
      <4>2. api.refresh \in Int /\ api.force \in Int /\ Stored(Now) \in Int
        BY <1>0, ResourceInts, NowFacts DEF Times
      <4> QED BY <2>5, <4>1, <4>2 DEF OpenRequest
    <3>3. Nothing = Sync!Nothing
      BY DEF Nothing, Sync!Nothing, None, Sync!None
    <3> QED BY <1>0, <2>4, <3>1, <3>2, <3>3, EntriesAgree
  <2>7. Sync!Record
    BY <2>1, <2>3, <2>5, <2>6 DEF Sync!Record
  <2> QED BY <2>7 DEF Sync!Next
<1>8. CASE UpdateStatus /\ api' = api
  BY <1>1, <1>8 DEF UpdateStatus
<1>9. CASE SpecChange
  <2>1. PICK s \in Specs : api' = [api EXCEPT !.gen = api.gen + 1, !.spec = s]
    BY <1>9 DEF SpecChange, OutsideWrite, Write
  <2>2. UNCHANGED <<remote, applied, notified>>
    BY <1>9 DEF SpecChange, OutsideWrite
  <2>3. /\ api'.gen = api.gen + 1 /\ api'.spec = s /\ api'.synced = api.synced
        /\ api'.refresh = api.refresh /\ api'.force = api.force
    BY <1>0, <2>1 DEF Resource
  <2>4. s.keys \in SUBSET Keys
    BY SpecAssumption
  <2>5. Sync!ChangeSpec
    BY <2>2, <2>3, <2>4 DEF Sync!ChangeSpec, OpenRequest
  <2> QED BY <2>5 DEF Sync!Next
<1>10. CASE (Webhook \/ Annotate) /\ notified' = remote /\ UNCHANGED <<remote, applied>>
  <2>1. CASE UNCHANGED <<crVars, notified>>
    BY <1>10, <1>1, <2>1
  <2>2. CASE OutsideWrite([api EXCEPT !.force = Stored(Now)])
             \/ OutsideWrite([api EXCEPT !.force = Unparsable])
    <3>1. /\ api'.gen = api.gen /\ api'.spec = api.spec /\ api'.synced = api.synced
          /\ api'.refresh = api.refresh
          /\ api'.force = Stored(Now) \/ api'.force = Unparsable
      BY <1>0, <2>2 DEF OutsideWrite, Write, Resource
    <3>2. Stored(Now) > NoAnnotation /\ api.refresh <= Stored(Now)
      BY NowFacts, TimeAssumption DEF NoAnnotation, IndInv, EventInv, Second
    <3>3. OpenRequest' = remote
      BY <1>10, <3>1, <3>2 DEF OpenRequest
    <3>4. Sync!Ask
      BY <1>10, <3>1, <3>3 DEF Sync!Ask
    <3> QED BY <3>4 DEF Sync!Next
  <2> QED BY <1>10, <2>1, <2>2 DEF Webhook, Annotate
<1>11. CASE Webhook \/ Annotate
  <2>1. (notified' = remote \/ UNCHANGED <<api, notified>>) /\ UNCHANGED <<remote, applied>>
    BY <1>11 DEF Webhook, Annotate, OutsideWrite
  <2> QED BY <1>1, <1>10, <1>11, <2>1
<1>12. CASE Delete \/ StripFinalizer
  <2>1. UNCHANGED <<remote, applied, notified>>
    BY <1>12 DEF Delete, StripFinalizer, OutsideWrite
  <2>2. /\ api'.gen = api.gen /\ api'.spec = api.spec /\ api'.synced = api.synced
        /\ api'.refresh = api.refresh /\ api'.force = api.force
    BY <1>0, <1>12 DEF Delete, StripFinalizer, OutsideWrite, Write, Resource
  <2> QED BY <2>1, <2>2, Stutter
<1>13. CASE Tick
  <2>1. api' = Aged(api) /\ UNCHANGED <<remote, applied, notified>>
    BY <1>13 DEF Tick
  <2>2. OpenRequest' = OpenRequest
    BY <1>0, <2>1, AgedOpen DEF OpenRequest
  <2> QED BY <1>0, <2>1, <2>2, AgedKeeps DEF Sync!vars
<1>14. ASSUME NEW k \in Keys, RemoteChange(k)
       PROVE  Sync!Next
  <2>1. Sync!ChangeItem(k)
    BY <1>14 DEF RemoteChange, Sync!ChangeItem, OpenRequest
  <2> QED BY <2>1 DEF Sync!Next
<1> QED
  BY <1>1, <1>3, <1>4, <1>5, <1>6, <1>7, <1>8, <1>9, <1>11, <1>12, <1>13, <1>14
  DEF Next, Reconcile, Failure, Environment, Begin, TargetFails, CheckVersion,
      CheckDone, FetchValue, FetchVersion, Restart, InformerSync, TimerFires,
      Crash, EditSecret, CollectSecret, SetSecret, StoreDown, StoreUp, vars

\* The initial states of the controller are initial states of SecretSync.
LEMMA SyncInit ==
    ASSUME Init
    PROVE  Sync!Init /\ WriteInv
<1>1. PICK s \in Specs : api = Created(s)
  BY DEF Init
<1>2. /\ api.gen = 1 /\ api.synced = 0 /\ api.refresh = 0 /\ api.force = 0
      /\ api.spec = s /\ cache = api /\ pc = "idle" /\ data = Nothing
      /\ remote = [k \in Keys |-> 1]
      /\ applied = [gen |-> 0, data |-> Nothing] /\ notified = Nothing
  BY <1>1 DEF Init, Created, ZeroTime, NoAnnotation
<1>3. s.keys \in SUBSET Keys
  BY SpecAssumption
<1>4. Nothing = Sync!Nothing /\ Entries(data) = {} /\ \A k \in Keys : Nothing[k] = -1
  BY <1>2 DEF Nothing, Sync!Nothing, None, Sync!None, Entries
<1>5. OpenRequest = Sync!Nothing
  BY <1>2, <1>4 DEF OpenRequest, Unparsable, NoAnnotation
<1> QED BY <1>2, <1>3, <1>4, <1>5 DEF Sync!Init, WriteInv

\* The controller implements SecretSync: whatever changes, fails or crashes, no
\* write of the Secret goes back to an earlier generation or an older value, the
\* status names a generation only after a write of that generation, and a request
\* is closed only by values at least as recent.
THEOREM SyncImplemented == Spec => ImplementsSync
<1>1. Init => Sync!Init /\ WriteInv
  BY SyncInit
<1>2. IndInv /\ WriteInv /\ [Next]_vars => WriteInv'
  BY WriteStep
<1>3. IndInv /\ WriteInv /\ [Next]_vars => [Sync!Next]_(Sync!vars)
  BY SyncStep
<1>4. Spec => []IndInv
  BY Inductive
<1> QED BY <1>1, <1>2, <1>3, <1>4, PTL DEF Spec, ImplementsSync, Sync!Spec
=============================================================================
