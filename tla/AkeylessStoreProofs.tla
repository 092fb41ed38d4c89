------------------------ MODULE AkeylessStoreProofs ------------------------
(***************************************************************************)
(* Theorems of AkeylessStore: the types, and that a consumer's client      *)
(* always belongs to the spec it has read.                                 *)
(***************************************************************************)
EXTENDS AkeylessStore, TLAPS

\* The placeholder between two calls is a store.
LEMMA NoStoreType == NoStore \in Store /\ NoStore.spec \in Specs
<1>1. (CHOOSE s \in Specs : TRUE) \in Specs
  BY StoreSpecAssumption
<1>2. 1 \in 1 .. MaxGen
  BY StoreBoundAssumption
<1> QED BY <1>1, <1>2 DEF NoStore, NewStore, Store

\* A condition and a later time leave a store a store.
LEMMA StoreUpdates ==
    ASSUME NEW s \in Store, NEW v \in {"True", "False"}
    PROVE  /\ setStoreCondition(s, v) \in Store
           /\ [s EXCEPT !.since = "past"] \in Store
           /\ [s EXCEPT !.since = "past"].spec = s.spec
BY DEF setStoreCondition, Store

\* A fault spends one of the MaxFaults.
LEMMA StoreFault ==
    ASSUME faults \in 0 .. MaxFaults, Fault
    PROVE  faults' \in 0 .. MaxFaults
BY StoreBoundAssumption DEF Fault

\* A delayed add leaves a delay up to the interval, or none.
LEMMA StoreDelay ==
    ASSUME timer \in NoTimer .. RequeueInterval, AddAfter(RequeueInterval)
    PROVE  timer' \in NoTimer .. RequeueInterval
BY StoreBoundAssumption DEF AddAfter, NoTimer

\* The client NewClient returns, and an entry that has become outdated, are
\* clients.
LEMMA ClientTypes ==
    ASSUME TypeOK
    PROVE  /\ NewClient \in SUBSET Client
           /\ NewClient # {}
           /\ {[e EXCEPT !.current = FALSE] : e \in clients} \in SUBSET Client
<1>1. cache.spec \in Specs /\ ca \in 1 .. MaxCA /\ clients \in SUBSET Client
  BY DEF TypeOK, Store
<1>2. [current |-> TRUE, spec |-> cache.spec, ca |-> ca] \in Client
  BY <1>1 DEF Client
<1>3. Cached \in SUBSET Client
  BY <1>1 DEF Cached
<1>4. \A e \in clients : [e EXCEPT !.current = FALSE] \in Client
  BY <1>1 DEF Client
<1> QED BY <1>2, <1>3, <1>4 DEF NewClient, newClient

\* The initial states have the types.
LEMMA StoreInitType ==
    ASSUME Init
    PROVE  TypeOK
<1>1. PICK s \in Specs : store = NewStore(s)
  BY DEF Init
<1>2. store \in Store
  BY <1>1, StoreBoundAssumption DEF NewStore, Store
<1>3. /\ ca \in 1 .. MaxCA /\ faults \in 0 .. MaxFaults
      /\ timer \in NoTimer .. RequeueInterval
  BY StoreBoundAssumption DEF Init, NoTimer
<1> QED BY <1>2, <1>3, NoStoreType DEF Init, TypeOK

\* Every step keeps the types.
LEMMA StoreTypeStep ==
    ASSUME TypeOK, [Next]_vars
    PROVE  TypeOK'
<1> USE DEF objVars, qVars, recVars, useVars, extVars
<1>1. CASE Begin
  BY <1>1 DEF Begin, TypeOK
<1>2. CASE Validate
  BY <1>2, StoreFault DEF Validate, TypeOK
<1>3. CASE Patch
  <2>1. store' \in Store /\ lag' \in BOOLEAN /\ faults' \in 0 .. MaxFaults
    BY <1>3, StoreUpdates, StoreFault DEF Patch, PatchStatus, TypeOK
  <2>2. timer' \in NoTimer .. RequeueInterval
    BY <1>3, StoreDelay DEF Patch, RequeueStore, TypeOK
  <2> QED BY <1>3, <2>1, <2>2, NoStoreType DEF Patch, TypeOK
<1>4. CASE EnsureStoreReady
  BY <1>4 DEF EnsureStoreReady, TypeOK
<1>5. CASE ResolveStore
  <2>1. cache.spec \in Specs
    BY DEF TypeOK, Store
  <2> QED BY <1>5, <2>1, ClientTypes, StoreFault DEF ResolveStore, TypeOK
<1>6. CASE Release
  BY <1>6, NoStoreType DEF Release, TypeOK
<1>7. CASE InformerSync
  BY <1>7, ClientTypes DEF InformerSync, TypeOK
<1>8. CASE TimerFires
  BY <1>8, StoreBoundAssumption DEF TimerFires, TypeOK, NoTimer
<1>9. CASE Tick
  <2>1. timer' \in NoTimer .. RequeueInterval
    BY <1>9, StoreBoundAssumption DEF Tick, TypeOK, NoTimer
  <2>2. store' \in Store /\ cache' \in Store /\ copy' \in Store
    BY <1>9, StoreUpdates DEF Tick, TypeOK
  <2> QED BY <1>9, <2>1, <2>2 DEF Tick, TypeOK
<1>10. CASE Crash
  <2>1. timer' \in NoTimer .. RequeueInterval
    BY <1>10, StoreBoundAssumption DEF Crash, NoTimer
  <2>2. faults' \in 0 .. MaxFaults
    BY <1>10, StoreFault DEF Crash, TypeOK
  <2> QED BY <1>10, <2>1, <2>2, NoStoreType DEF Crash, TypeOK
<1>11. CASE SpecChange
  <2>1. PICK s \in Specs : store' = [store EXCEPT !.spec = s, !.gen = @ + 1]
    BY <1>11 DEF SpecChange
  <2>2. store.gen \in 1 .. MaxGen /\ store.gen < MaxGen
    BY <1>11 DEF SpecChange, TypeOK, Store
  <2>3. store.gen + 1 \in 1 .. MaxGen
    BY <2>2, StoreBoundAssumption
  <2>4. store' \in Store
    BY <2>1, <2>3 DEF TypeOK, Store
  <2> QED BY <1>11, <2>4 DEF SpecChange, TypeOK
<1>12. CASE CAChange
  BY <1>12, StoreBoundAssumption DEF CAChange, TypeOK
<1>13. CASE GatewayDown
  BY <1>13, StoreFault DEF GatewayDown, TypeOK
<1>14. CASE GatewayUp
  BY <1>14 DEF GatewayUp, TypeOK
<1>15. CASE UNCHANGED vars
  BY <1>15 DEF vars, TypeOK
<1> QED
  BY <1>1, <1>2, <1>3, <1>4, <1>5, <1>6, <1>7, <1>8, <1>9, <1>10, <1>11, <1>12, <1>13,
     <1>14, <1>15
  DEF Next, Reconcile, Consume

\* The store, its copies, the work queue, the client cache and a consumer's
\* client keep their types, for every set of store specs.
THEOREM StoreTypeCorrect == Spec => []TypeOK
<1>1. Init => TypeOK
  BY StoreInitType
<1>2. TypeOK /\ [Next]_vars => TypeOK'
  BY StoreTypeStep
<1> QED BY <1>1, <1>2, PTL DEF Spec

-----------------------------------------------------------------------------
\* What makes ClientMatchesStore inductive: an entry of the client cache that
\* counts for the cached version of the store has the spec of that version.
EntriesMatch == \A e \in clients : e.current => e.spec = cache.spec

\* Every step keeps the client cache and the consumer's client in line.
LEMMA ClientStep ==
    ASSUME TypeOK, EntriesMatch, ClientMatchesStore, [Next]_vars
    PROVE  EntriesMatch' /\ ClientMatchesStore'
<1> USE DEF objVars, qVars, recVars, useVars, extVars
<1>1. CASE ResolveStore
  <2>1. \A e \in NewClient : e.spec = cache.spec
    BY DEF NewClient, newClient, Cached, EntriesMatch
  <2> QED BY <1>1, <2>1 DEF ResolveStore, EntriesMatch, ClientMatchesStore
<1>2. CASE InformerSync
  <2>1. \A e \in clients : [e EXCEPT !.current = FALSE].current = FALSE
    BY DEF TypeOK, Client
  <2> QED BY <1>2, <2>1 DEF InformerSync, EntriesMatch, ClientMatchesStore
<1>3. CASE Tick
  <2>1. cache'.spec = cache.spec
    BY <1>3, StoreUpdates DEF Tick, TypeOK
  <2> QED BY <1>3, <2>1 DEF Tick, EntriesMatch, ClientMatchesStore
<1>4. CASE Crash \/ Release
  BY <1>4 DEF Crash, Release, EntriesMatch, ClientMatchesStore
<1>5. CASE UNCHANGED <<cache, clients, read, using>>
  BY <1>5 DEF EntriesMatch, ClientMatchesStore
<1> QED
  BY <1>1, <1>2, <1>3, <1>4, <1>5
  DEF Next, Reconcile, Consume, Begin, Validate, Patch, EnsureStoreReady, TimerFires,
      SpecChange, CAChange, GatewayDown, GatewayUp, vars

\* A secret controller never talks to Akeyless with a client of another spec than
\* the one it has read: looking up clients by resource version (akeyless.go:116)
\* is enough, whatever interleaving of spec changes, cache updates, status
\* patches, failures and restarts there was.
THEOREM ClientsAreCurrent == Spec => []ClientMatchesStore
<1>1. Init => EntriesMatch /\ ClientMatchesStore
  BY DEF Init, EntriesMatch, ClientMatchesStore
<1>2. TypeOK /\ EntriesMatch /\ ClientMatchesStore /\ [Next]_vars
        => EntriesMatch' /\ ClientMatchesStore'
  BY ClientStep
<1> QED BY <1>1, <1>2, StoreTypeCorrect, PTL DEF Spec
=============================================================================
