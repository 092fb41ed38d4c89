------------------------ MODULE ExternalSecretProofs ------------------------
(***************************************************************************)
(* Theorems about the ExternalSecret controller, for every value of the    *)
(* constants: any set of resources and of targets, any specs with which    *)
(* they begin and to which users change them, both settings of the read    *)
(* from the API server, and any number of changes and failures.            *)
(***************************************************************************)
EXTENDS ExternalSecret, TLAPS

Objects == Secret \cup {NoSecret}

\* A reconcile knows the Secret it merges into, and none of its orphans is its target.
WriteOK(r) ==
    r.pc = "write" =>
       /\ r.seen.spec.creation # "None"
       /\ r.seen.spec.creation = "Merge" => r.target.exists
       /\ r.seen.spec.target \notin r.orphans

Reconciles == {Idle} \cup Writing \cup Ending

\* The type invariant, with its parts named.
Typed ==
    /\ es \in [Es -> Resource]
    /\ status \in [Es -> [ready : {"none", "true", "false"}, rv : 0 .. MaxChanges + 1]]
    /\ provider \in [Es -> 0 .. MaxVersion]
    /\ secret \in [Targets -> Objects] /\ partial \in [Targets -> Objects]
    /\ full \in [Targets -> Objects]
    /\ queued \subseteq Es /\ timer \subseteq Es /\ due \subseteq Es
    /\ run \in [Es -> Reconciles]
    /\ \A e \in Es : WriteOK(run[e])
    /\ changes \in 0 .. MaxChanges /\ faults \in 0 .. MaxFaults
    /\ \A e \in Es : es[e].gen <= changes + 1

\* Typed is the type invariant the runs check.
LEMMA TypedIsTypeOK == TypeOK <=> Typed
BY DEF TypeOK, Typed, WriteOK, Objects, Reconciles

-----------------------------------------------------------------------------
(* The objects *)

\* A Secret that is not there has no owner and no data.
LEMMA NoSecretFacts ==
    /\ NoSecret \in Objects
    /\ NoSecret.exists = FALSE /\ NoSecret.owner = NoOne
BY DEF NoSecret, Objects

\* What any object has.
LEMMA ObjectFacts ==
    ASSUME NEW s \in Objects
    PROVE  /\ s.exists \in BOOLEAN /\ s.user \in BOOLEAN /\ s.hashed \in BOOLEAN
           /\ s.managed \in BOOLEAN
           /\ s.owner \in Es \cup {NoOne} /\ s.label \in Es \cup {NoOne}
           /\ s.data \in [Es -> 0 .. MaxVersion]
           /\ s.exists => s \in Secret
           /\ ~s.exists => s = NoSecret
<1>1. CASE s \in Secret
  BY <1>1 DEF Secret
<1>2. CASE s = NoSecret
  BY <1>2, ExternalBoundAssumption DEF NoSecret
<1> QED BY <1>1, <1>2 DEF Objects

\* mutationFunc makes a Secret, and leaves alone the reference of another owner
\* unless the policy is Owner.
LEMMA MutateType ==
    ASSUME NEW e \in Es, NEW spec \in Specs, NEW s \in Objects, NEW value \in 0 .. MaxVersion
    PROVE  Mutate(e, spec, s, value) \in Secret
<1>1. /\ s.user \in BOOLEAN /\ s.owner \in Es \cup {NoOne}
      /\ s.data \in [Es -> 0 .. MaxVersion] /\ 0 \in 0 .. MaxVersion
  BY ObjectFacts, ExternalBoundAssumption
<1>2. [o \in Es |-> IF o = e THEN value
                    ELSE IF spec.creation = "Merge" THEN s.data[o] ELSE 0]
        \in [Es -> 0 .. MaxVersion]
  BY <1>1
<1>3. (spec.creation = "Merge" /\ s.user) \in BOOLEAN
  OBVIOUS
<1>4. /\ (IF spec.creation = "Owner" THEN e
          ELSE IF s.owner = e THEN NoOne ELSE s.owner) \in Es \cup {NoOne}
      /\ (IF spec.creation = "Owner" THEN e ELSE NoOne) \in Es \cup {NoOne}
  BY <1>1
<1> QED BY <1>2, <1>3, <1>4 DEF Mutate, Secret

\* Where a reconcile stands tells what it has read.
LEMMA RunFacts ==
    ASSUME NEW r \in Reconciles
    PROVE  /\ r.pc = "write" => r \in Writing
           /\ r.pc = "status" => r \in Ending
           /\ r.pc \in {"idle", "write", "status"}
BY DEF Reconciles, Idle, Writing, Ending

\* A reconcile that ends, or that has ended, has nothing to say of a write.
LEMMA EndType ==
    ASSUME Typed, NEW e \in Es, NEW r \in {Idle} \cup Ending, run' = [run EXCEPT ![e] = r]
    PROVE  run' \in [Es -> Reconciles] /\ \A o \in Es : WriteOK(run'[o])
<1>1. r \in Reconciles /\ WriteOK(r)
  BY DEF Reconciles, Idle, Ending, WriteOK
<1> QED BY <1>1 DEF Typed

\* The ends of a reconcile that has written, or could not.
LEMMA EndingType ==
    ASSUME NEW seen \in Resource, NEW ready \in {"true", "false"}, NEW again \in BOOLEAN
    PROVE  [pc |-> "status", seen |-> seen, ready |-> ready, again |-> again] \in Ending
BY DEF Ending

\* One Secret changes.
LEMMA SecretType ==
    ASSUME Typed, NEW t \in Targets, NEW s \in Objects, secret' = [secret EXCEPT ![t] = s]
    PROVE  secret' \in [Targets -> Objects]
BY DEF Typed

\* A failure spends one of the MaxFaults.
LEMMA FaultType ==
    ASSUME Typed, Fault
    PROVE  faults' \in 0 .. MaxFaults
BY ExternalBoundAssumption DEF Typed, Fault

\* A change spends one of the MaxChanges.
LEMMA ChangeType ==
    ASSUME Typed, Change
    PROVE  /\ changes' \in 0 .. MaxChanges
           /\ changes' = changes + 1 /\ changes + 1 <= MaxChanges
BY ExternalBoundAssumption DEF Typed, Change

\* The target of a resource, and what the spec of one may be.
LEMMA SpecFacts ==
    ASSUME NEW r \in Resource
    PROVE  /\ r.spec \in Specs /\ r.spec.target \in Targets
           /\ r.gen \in 1 .. MaxChanges + 1 /\ r.fin \in BOOLEAN
           /\ r.state \in {"live", "deleting", "gone"}
           /\ r.spec.interval \in BOOLEAN
BY ExternalSpecAssumption DEF Resource

-----------------------------------------------------------------------------
(* The type invariant is inductive. *)

\* The initial states have their types.
LEMMA InitTyped ==
    ASSUME Init
    PROVE  Typed
<1>1. PICK spec \in [Es -> Specs] :
         es = [e \in Es |-> [state |-> "live", spec |-> spec[e], gen |-> 1, fin |-> FALSE]]
  BY DEF Init
<1>2. 1 \in 1 .. MaxChanges + 1 /\ 0 \in 0 .. MaxChanges + 1 /\ 1 \in 0 .. MaxVersion
  BY ExternalBoundAssumption
<1>3. es \in [Es -> Resource] /\ \A e \in Es : es[e].gen = 1
  BY <1>1, <1>2 DEF Resource
<1>4. secret \in [Targets -> Objects] /\ partial = secret /\ full = secret
  BY NoSecretFacts DEF Init
<1>5. run \in [Es -> Reconciles] /\ \A e \in Es : WriteOK(run[e])
  BY DEF Init, Reconciles, WriteOK, Idle
<1>6. changes \in 0 .. MaxChanges /\ faults \in 0 .. MaxFaults /\ changes = 0
  BY ExternalBoundAssumption DEF Init
<1>7. \A e \in Es : es[e].gen <= changes + 1
  BY <1>3, <1>6
<1>8. status \in [Es -> [ready : {"none", "true", "false"}, rv : 0 .. MaxChanges + 1]]
  BY <1>2 DEF Init
<1>9. provider \in [Es -> 0 .. MaxVersion] /\ queued \subseteq Es /\ timer \subseteq Es
      /\ due \subseteq Es
  BY <1>2 DEF Init
<1> QED BY <1>3, <1>4, <1>5, <1>6, <1>7, <1>8, <1>9 DEF Typed

\* The first steps of a reconcile.
LEMMA BeginTyped ==
    ASSUME Typed, NEW e \in Es,
           ReconcileGone(e) \/ Cleanup(e) \/ AddFinalizer(e) \/ LabelTarget(e) \/ Skip(e)
    PROVE  Typed'
<1> DEFINE t == Target(e)
<1>1. es[e] \in Resource /\ t \in Targets /\ secret[t] \in Objects
  BY SpecFacts DEF Typed, Target
<1>2. CASE ReconcileGone(e)
  BY <1>2 DEF Typed, ReconcileGone, caches, bounds
<1>3. CASE Cleanup(e)
  <2>1. secret' \in [Targets -> Objects]
    BY <1>1, <1>3, NoSecretFacts, SecretType DEF Cleanup, Typed
  <2>2. es' \in [Es -> Resource] /\ \A o \in Es : es'[o].gen = es[o].gen
    BY <1>1, <1>3 DEF Cleanup, Resource, Typed
  <2> QED BY <1>3, <2>1, <2>2 DEF Typed, Cleanup, caches, bounds
<1>4. CASE AddFinalizer(e)
  <2>1. es' \in [Es -> Resource] /\ \A o \in Es : es'[o].gen = es[o].gen
    BY <1>1, <1>4 DEF AddFinalizer, Resource, Typed
  <2> QED BY <1>4, <2>1 DEF Typed, AddFinalizer, caches, bounds
<1>5. CASE LabelTarget(e)
  <2>1. secret[t] \in Secret
    BY <1>1, <1>5, ObjectFacts DEF LabelTarget
  <2>2. [secret[t] EXCEPT !.managed = TRUE] \in Objects
    BY <2>1 DEF Secret, Objects
  <2>3. secret' = [secret EXCEPT ![t] = [secret[t] EXCEPT !.managed = TRUE]]
    BY <1>5 DEF LabelTarget
  <2>4. secret' \in [Targets -> Objects]
    BY <1>1, <2>2, <2>3, SecretType
  <2> QED BY <1>5, <2>4 DEF Typed, LabelTarget, caches, bounds
<1>6. CASE Skip(e)
  BY <1>6 DEF Typed, Skip, caches, bounds
<1> QED BY <1>2, <1>3, <1>4, <1>5, <1>6

\* The read of the provider.
LEMMA FetchTyped ==
    ASSUME Typed, NEW e \in Es,
           FetchFails(e) \/ NoData(e) \/ NothingToWrite(e) \/ StartWrite(e)
    PROVE  Typed'
<1> DEFINE t == Target(e)
<1>1. /\ es[e] \in Resource /\ t \in Targets /\ secret[t] \in Objects
      /\ partial[t] \in Objects /\ provider[e] \in 0 .. MaxVersion
  BY SpecFacts DEF Typed, Target
<1>2. Done(e) \in Ending /\ \A again \in BOOLEAN : Failed(e, again) \in Ending
  BY <1>1, EndingType DEF Done, Failed
<1>3. CASE FetchFails(e)
  <2>1. run' \in [Es -> Reconciles] /\ \A o \in Es : WriteOK(run'[o])
    BY <1>2, <1>3, EndType DEF FetchFails
  <2>2. faults' \in 0 .. MaxFaults
    BY <1>3, FaultType DEF FetchFails
  <2> QED BY <1>3, <2>1, <2>2 DEF Typed, FetchFails, caches
<1>4. CASE NoData(e)
  <2>1. PICK r \in Ending : run' = [run EXCEPT ![e] = r]
    BY <1>2, <1>4 DEF NoData
  <2>2. run' \in [Es -> Reconciles] /\ \A o \in Es : WriteOK(run'[o])
    BY <2>1, EndType
  <2>3. secret' \in [Targets -> Objects]
    BY <1>1, <1>4, NoSecretFacts, SecretType DEF NoData, Typed
  <2> QED BY <1>4, <2>2, <2>3 DEF Typed, NoData, caches, bounds
<1>5. CASE NothingToWrite(e)
  <2>1. run' \in [Es -> Reconciles] /\ \A o \in Es : WriteOK(run'[o])
    BY <1>2, <1>5, EndType DEF NothingToWrite
  <2> QED BY <1>5, <2>1 DEF Typed, NothingToWrite, caches, bounds
<1>6. CASE StartWrite(e)
  <2> DEFINE orphans == IF es[e].spec.creation = "Owner" THEN Orphans(e) ELSE {}
             r == [pc |-> "write", seen |-> es[e], target |-> partial[t],
                   value |-> provider[e], orphans |-> orphans]
  <2>1. orphans \subseteq Targets /\ t \notin orphans
    BY DEF Orphans
  <2> HIDE DEF orphans
  <2>2. r \in Writing
    BY <1>1, <2>1 DEF Writing, Objects
  <2>3. WriteOK(r)
    BY <1>6, <2>1 DEF WriteOK, StartWrite, Target
  <2>4. run' = [run EXCEPT ![e] = r]
    BY <1>6 DEF StartWrite, StartWriteWith, orphans
  <2>5. run' \in [Es -> Reconciles] /\ \A o \in Es : WriteOK(run'[o])
    BY <2>2, <2>3, <2>4 DEF Typed, Reconciles
  <2> QED BY <1>6, <2>5 DEF Typed, StartWrite, StartWriteWith, caches, bounds
<1> QED BY <1>3, <1>4, <1>5, <1>6

\* The write of the Secret and of the status.
LEMMA WriteTyped ==
    ASSUME Typed, NEW e \in Es,
           \/ DeleteOrphan(e) \/ WriteSecret(e) \/ WriteNothing(e) \/ WriteOwned(e)
           \/ WriteConflict(e) \/ WriteFails(e) \/ UpdateStatus(e)
    PROVE  Typed'
<1>1. run[e] \in Reconciles /\ WriteOK(run[e])
  BY DEF Typed
<1>2. /\ run[e].pc = "write" => run[e] \in Writing
      /\ run[e].pc = "status" => run[e] \in Ending
  BY <1>1, RunFacts
<1>3. ASSUME run[e].pc = "write"
      PROVE  /\ run[e].seen \in Resource /\ run[e].target \in Objects
             /\ run[e].value \in 0 .. MaxVersion /\ run[e].orphans \subseteq Targets
             /\ run[e].seen.spec \in Specs /\ run[e].seen.spec.target \in Targets
  <2>1. run[e].seen \in Resource
    BY <1>2, <1>3 DEF Writing
  <2> QED BY <1>2, <1>3, <2>1, SpecFacts DEF Writing, Objects
<1>4. ASSUME run[e].pc = "write", NEW ready \in {"true", "false"}, NEW again \in BOOLEAN,
             run' = [run EXCEPT ![e] = [pc |-> "status", seen |-> run[e].seen,
                                        ready |-> ready, again |-> again]]
      PROVE  run' \in [Es -> Reconciles] /\ \A o \in Es : WriteOK(run'[o])
  BY <1>3, <1>4, EndingType, EndType
<1>5. CASE DeleteOrphan(e)
  <2>1. PICK t \in run[e].orphans :
           /\ secret' = [secret EXCEPT ![t] = NoSecret]
           /\ run' = [run EXCEPT ![e] = [run[e] EXCEPT !.orphans = run[e].orphans \ {t}]]
    BY <1>5 DEF DeleteOrphan
  <2>2. run[e] \in Writing /\ run[e].orphans \subseteq Targets
    BY <1>2, <1>3, <1>5 DEF DeleteOrphan
  <2>3. secret' \in [Targets -> Objects]
    BY <2>1, <2>2, NoSecretFacts, SecretType
  <2> DEFINE r == [run[e] EXCEPT !.orphans = run[e].orphans \ {t}]
  <2>4. r \in Writing /\ WriteOK(r)
    BY <1>1, <2>2 DEF Writing, WriteOK
  <2>5. run' \in [Es -> Reconciles] /\ \A o \in Es : WriteOK(run'[o])
    BY <2>1, <2>4 DEF Typed, Reconciles
  <2> QED BY <1>5, <2>3, <2>5 DEF Typed, DeleteOrphan, caches, bounds
<1>6. CASE WriteSecret(e)
  <2>1. run[e].pc = "write"
    BY <1>6 DEF WriteSecret, MustWrite, Writes
  <2>2. Wanted(e) \in Objects
    BY <1>3, <2>1, MutateType DEF Wanted, Objects
  <2>3. secret' \in [Targets -> Objects]
    BY <1>3, <1>6, <2>1, <2>2, SecretType DEF WriteSecret
  <2>4. run' \in [Es -> Reconciles] /\ \A o \in Es : WriteOK(run'[o])
    BY <1>4, <1>6, <2>1 DEF WriteSecret
  <2> QED BY <1>6, <2>3, <2>4 DEF Typed, WriteSecret, caches, bounds
<1>7. CASE WriteNothing(e) \/ WriteOwned(e)
  <2>1. run' \in [Es -> Reconciles] /\ \A o \in Es : WriteOK(run'[o])
    BY <1>4, <1>7 DEF WriteNothing, WriteOwned, Writes
  <2> QED BY <1>7, <2>1 DEF Typed, WriteNothing, WriteOwned, caches, bounds
<1>8. CASE WriteConflict(e)
  <2>1. run' \in [Es -> Reconciles] /\ \A o \in Es : WriteOK(run'[o])
    BY <1>8, EndType DEF WriteConflict
  <2> QED BY <1>8, <2>1 DEF Typed, WriteConflict, caches, bounds
<1>9. CASE WriteFails(e)
  <2>1. run' \in [Es -> Reconciles] /\ \A o \in Es : WriteOK(run'[o])
    BY <1>4, <1>9 DEF WriteFails
  <2>2. faults' \in 0 .. MaxFaults
    BY <1>9, FaultType DEF WriteFails, Typed
  <2> QED BY <1>9, <2>1, <2>2 DEF Typed, WriteFails, caches
<1>10. CASE UpdateStatus(e)
  <2>1. run[e] \in Ending /\ run[e].seen \in Resource /\ run[e].seen.gen \in 1 .. MaxChanges + 1
    BY <1>2, <1>10, SpecFacts DEF UpdateStatus, Ending
  <2>2. run' \in [Es -> Reconciles] /\ \A o \in Es : WriteOK(run'[o])
    BY <1>10, EndType DEF UpdateStatus
  <2>3. faults' \in 0 .. MaxFaults
    BY <1>10, FaultType DEF UpdateStatus, Typed
  <2>4. run[e].seen.gen \in 0 .. MaxChanges + 1
    BY <2>1, ExternalBoundAssumption
  <2>5. status' \in [Es -> [ready : {"none", "true", "false"}, rv : 0 .. MaxChanges + 1]]
    BY <1>10, <2>1, <2>4 DEF UpdateStatus, Typed, Ending
  <2>6. queued' \subseteq Es /\ timer' \subseteq Es /\ due' \subseteq Es
    BY <1>10 DEF UpdateStatus, Typed
  <2> QED BY <1>10, <2>2, <2>3, <2>5, <2>6 DEF Typed, UpdateStatus, caches
<1> QED BY <1>5, <1>6, <1>7, <1>8, <1>9, <1>10

\* The caches, the garbage collector, time and crashes.
LEMMA WorldTyped ==
    ASSUME Typed,
           \/ \E e \in Es : Fire(e)
           \/ \E t \in Targets : PartialFollows(t) \/ FullFollows(t) \/ GarbageCollect(t)
           \/ Crash
    PROVE  Typed'
<1>1. ASSUME NEW e \in Es, Fire(e)
      PROVE  Typed'
  BY <1>1 DEF Typed, Fire, caches, bounds
<1>2. ASSUME NEW t \in Targets, PartialFollows(t)
      PROVE  Typed'
  <2>1. partial' \in [Targets -> Objects]
    BY <1>2 DEF Typed, PartialFollows
  <2>2. queued' \subseteq Es
    BY <1>2 DEF Typed, PartialFollows, findObjectsForSecret
  <2> QED BY <1>2, <2>1, <2>2 DEF Typed, PartialFollows, bounds
<1>3. ASSUME NEW t \in Targets, FullFollows(t)
      PROVE  Typed'
  BY <1>3 DEF Typed, FullFollows, bounds
<1>4. ASSUME NEW t \in Targets, GarbageCollect(t)
      PROVE  Typed'
  <2>1. secret' \in [Targets -> Objects]
    BY <1>4, NoSecretFacts, SecretType DEF GarbageCollect
  <2> QED BY <1>4, <2>1 DEF Typed, GarbageCollect, caches, bounds
<1>5. ASSUME Crash
      PROVE  Typed'
  <2>1. run' \in [Es -> Reconciles] /\ \A o \in Es : WriteOK(run'[o])
    BY <1>5 DEF Crash, Reconciles, WriteOK, Idle
  <2>2. faults' \in 0 .. MaxFaults
    BY <1>5, FaultType DEF Crash
  <2> QED BY <1>5, <2>1, <2>2 DEF Typed, Crash
<1> QED BY <1>1, <1>2, <1>3, <1>4, <1>5

\* What users do.
LEMMA UserTyped ==
    ASSUME Typed, User
    PROVE  Typed'
<1>1. ASSUME NEW e \in Es, ChangeSpec(e)
      PROVE  Typed'
  <2>1. PICK s \in Specs :
           es' = [es EXCEPT ![e] = [es[e] EXCEPT !.spec = s, !.gen = es[e].gen + 1]]
    BY <1>1 DEF ChangeSpec
  <2>2. changes' \in 0 .. MaxChanges /\ changes' = changes + 1 /\ changes + 1 <= MaxChanges
    BY <1>1, ChangeType DEF ChangeSpec
  <2>3. es[e] \in Resource /\ es[e].gen \in Int /\ 1 <= es[e].gen /\ es[e].gen <= changes + 1
    BY SpecFacts, ExternalBoundAssumption DEF Typed
  <2>4. es[e].gen + 1 \in 1 .. MaxChanges + 1 /\ es[e].gen + 1 <= changes' + 1
    BY <2>2, <2>3, ExternalBoundAssumption DEF Typed
  <2>5. [es[e] EXCEPT !.spec = s, !.gen = es[e].gen + 1] \in Resource
    BY <2>3, <2>4 DEF Resource
  <2>6. es' \in [Es -> Resource]
    BY <2>1, <2>5 DEF Typed
  <2>7. ASSUME NEW o \in Es
        PROVE  es'[o].gen <= changes' + 1
    <3>1. CASE o = e
      BY <2>1, <2>3, <2>4, <3>1 DEF Typed, Resource
    <3>2. CASE o # e
      <4>1. es'[o] = es[o]
        BY <2>1, <3>2 DEF Typed
      <4>2. es[o].gen \in Int /\ es[o].gen <= changes + 1 /\ changes \in Int
        BY SpecFacts, ExternalBoundAssumption DEF Typed
      <4> QED BY <2>2, <4>1, <4>2
    <3> QED BY <3>1, <3>2
  <2> QED BY <1>1, <2>2, <2>6, <2>7 DEF Typed, ChangeSpec, caches
<1>2. ASSUME NEW e \in Es, DeleteEs(e)
      PROVE  Typed'
  <2>1. changes' \in 0 .. MaxChanges /\ changes' = changes + 1
    BY <1>2, ChangeType DEF DeleteEs
  <2>2. es' \in [Es -> Resource] /\ \A o \in Es : es'[o].gen = es[o].gen
    BY <1>2 DEF DeleteEs, Resource, Typed
  <2>3. ASSUME NEW o \in Es
        PROVE  es'[o].gen <= changes' + 1
    <3>1. es[o].gen \in Int /\ es[o].gen <= changes + 1 /\ changes \in Int
      BY SpecFacts, ExternalBoundAssumption DEF Typed
    <3> QED BY <2>1, <2>2, <3>1
  <2> QED BY <1>2, <2>1, <2>2, <2>3 DEF Typed, DeleteEs, caches
<1>3. ASSUME changes' \in 0 .. MaxChanges, changes' = changes + 1, Typed, UNCHANGED es
      PROVE  \A o \in Es : es'[o].gen <= changes' + 1
  <2> SUFFICES ASSUME NEW o \in Es
               PROVE  es'[o].gen <= changes' + 1
    OBVIOUS
  <2>1. es[o].gen \in Int /\ es[o].gen <= changes + 1 /\ changes \in Int
    BY SpecFacts, ExternalBoundAssumption DEF Typed
  <2> QED BY <1>3, <2>1
<1>4. ASSUME NEW e \in Es, ChangeProvider(e)
      PROVE  Typed'
  <2>1. changes' \in 0 .. MaxChanges /\ changes' = changes + 1
    BY <1>4, ChangeType DEF ChangeProvider
  <2>2. \A o \in Es : es'[o].gen <= changes' + 1
    BY <1>3, <1>4, <2>1 DEF ChangeProvider
  <2> QED BY <1>4, <2>1, <2>2 DEF Typed, ChangeProvider, caches
<1>5. ASSUME NEW t \in Targets, ChangeSecret(t)
      PROVE  Typed'
  <2>1. changes' \in 0 .. MaxChanges /\ changes' = changes + 1
    BY <1>5, ChangeType DEF ChangeSecret
  <2>2. \A o \in Es : es'[o].gen <= changes' + 1
    BY <1>3, <1>5, <2>1 DEF ChangeSecret
  <2> DEFINE s == IF secret[t].exists
                  THEN [secret[t] EXCEPT !.user = ~secret[t].user, !.hashed = FALSE]
                  ELSE [NoSecret EXCEPT !.exists = TRUE, !.user = TRUE]
  <2>3. s \in Objects
    <3>1. secret[t] \in Objects
      BY DEF Typed
    <3>2. CASE secret[t].exists
      <4>1. secret[t] \in Secret
        BY <3>1, <3>2, ObjectFacts
      <4> QED BY <3>2, <4>1 DEF Secret, Objects
    <3>3. CASE ~secret[t].exists
      <4>1. [e \in Es |-> 0] \in [Es -> 0 .. MaxVersion]
        BY ExternalBoundAssumption
      <4>2. s = [exists |-> TRUE, data |-> [e \in Es |-> 0], user |-> TRUE,
                 hashed |-> FALSE, managed |-> FALSE, owner |-> NoOne, label |-> NoOne]
        BY <3>3 DEF NoSecret
      <4> QED BY <4>1, <4>2 DEF Secret, Objects
    <3> QED BY <3>2, <3>3
  <2>4. secret' = [secret EXCEPT ![t] = s]
    BY <1>5 DEF ChangeSecret
  <2>5. secret' \in [Targets -> Objects]
    BY <2>3, <2>4, SecretType
  <2> QED BY <1>5, <2>1, <2>2, <2>5 DEF Typed, ChangeSecret, caches
<1>6. ASSUME NEW t \in Targets, RemoveSecret(t)
      PROVE  Typed'
  <2>1. changes' \in 0 .. MaxChanges /\ changes' = changes + 1
    BY <1>6, ChangeType DEF RemoveSecret
  <2>2. \A o \in Es : es'[o].gen <= changes' + 1
    BY <1>3, <1>6, <2>1 DEF RemoveSecret
  <2>3. secret' \in [Targets -> Objects]
    BY <1>6, NoSecretFacts, SecretType DEF RemoveSecret
  <2> QED BY <1>6, <2>1, <2>2, <2>3 DEF Typed, RemoveSecret, caches
<1> QED BY <1>1, <1>2, <1>4, <1>5, <1>6 DEF User

\* Every step keeps the types.
LEMMA NextTyped ==
    ASSUME Typed, [Next]_vars
    PROVE  Typed'
<1>1. ASSUME NEW e \in Es, Reconcile(e)
      PROVE  Typed'
  BY <1>1, BeginTyped, FetchTyped, WriteTyped DEF Reconcile
<1>2. CASE UNCHANGED vars
  BY <1>2 DEF Typed, vars
<1> QED BY <1>1, <1>2, WorldTyped, UserTyped DEF Next

\* Every reachable state of the controller has its type, whatever the sets of resources,
\* targets and specs: a reconcile past the read of the provider has a target that may be
\* merged into and that is not among the orphans it deletes
\* (externalsecret_controller.go:511-549, 877-897).
THEOREM ExternalTypeCorrect == Spec => []TypeOK
<1>1. Init => TypeOK
  BY InitTyped, TypedIsTypeOK
<1>2. TypeOK /\ [Next]_vars => Typed'
  BY NextTyped, TypedIsTypeOK
<1>3. Typed' => TypeOK'
  BY DEF TypeOK, Typed, WriteOK, Objects, Reconciles
<1> QED BY <1>1, <1>2, <1>3, PTL DEF Spec

-----------------------------------------------------------------------------
(* Who may take a Secret *)

\* What NoTakeover says of one step and one Secret.
KeepsOwner(t) ==
    (secret[t].owner # NoOne /\ secret'[t].exists) =>
       \/ secret'[t].owner = secret[t].owner
       \/ run'[secret[t].owner] # run[secret[t].owner]

\* The write of a reconcile: the Secret it replaces is the one it has read, and that one
\* is its own or nobody's.
LEMMA WriteKeepsOwner ==
    ASSUME Typed, NEW e \in Es, WriteSecret(e), NEW t \in Targets
    PROVE  KeepsOwner(t)
<1> DEFINE u == run[e].seen.spec.target
<1>1. run[e].pc = "write" /\ secret[u] = run[e].target /\ secret[u].owner \in {e, NoOne}
  BY DEF WriteSecret, MustWrite, Writes, OwnedByOther
<1>2. CASE t # u
  BY <1>2 DEF WriteSecret, KeepsOwner, Typed
<1>3. CASE t = u
  <2>1. run'[e].pc = "status"
    BY DEF WriteSecret, Typed
  <2> QED BY <1>1, <1>3, <2>1 DEF KeepsOwner
<1> QED BY <1>2, <1>3

\* The other changes of a Secret delete it or keep its owner.
LEMMA DeleteKeepsOwner ==
    ASSUME Typed, NEW u \in Targets, secret' = [secret EXCEPT ![u] = NoSecret],
           NEW t \in Targets
    PROVE  KeepsOwner(t)
BY NoSecretFacts DEF KeepsOwner, Typed

\* A step never makes a Secret that has an owner another's, unless the reconcile of the
\* owner takes that very step: a write whose cache is stale, or one that races the write
\* of the owner, fails instead (externalsecret_controller.go:805, 1003).
THEOREM SecretsAreNotTakenOver == Spec => NoTakeover
<1>1. ASSUME Typed, [Next]_vars, NEW t \in Targets
      PROVE  KeepsOwner(t)
  <2> USE <1>1
  <2>1. CASE UNCHANGED secret
    BY <2>1 DEF KeepsOwner
  <2>2. ASSUME NEW e \in Es, Reconcile(e)
        PROVE  KeepsOwner(t)
    <3>1. es[e] \in Resource /\ Target(e) \in Targets
      BY SpecFacts DEF Typed, Target
    <3>2. CASE Cleanup(e)
      BY <2>1, <3>1, <3>2, DeleteKeepsOwner DEF Cleanup
    <3>3. CASE LabelTarget(e)
      <4>1. secret[Target(e)] \in Secret
        BY <3>1, <3>3, ObjectFacts DEF LabelTarget, Typed
      <4>2. secret'[t].owner = secret[t].owner
        BY <3>1, <3>3, <4>1 DEF LabelTarget, Typed, Secret
      <4> QED BY <4>2 DEF KeepsOwner
    <3>4. CASE NoData(e)
      BY <2>1, <3>1, <3>4, DeleteKeepsOwner DEF NoData
    <3>5. CASE DeleteOrphan(e)
      <4>1. run[e] \in Writing
        BY <3>5, RunFacts DEF Typed, DeleteOrphan
      <4>2. run[e].orphans \subseteq Targets
        BY <4>1 DEF Writing
      <4> QED BY <3>5, <4>2, DeleteKeepsOwner DEF DeleteOrphan
    <3>6. CASE WriteSecret(e)
      BY <3>6, WriteKeepsOwner
    <3> QED
      BY <2>1, <2>2, <3>2, <3>3, <3>4, <3>5, <3>6
      DEF Reconcile, ReconcileGone, AddFinalizer, Skip, FetchFails, NothingToWrite,
          StartWrite, StartWriteWith, WriteNothing, WriteOwned, WriteConflict, WriteFails,
          UpdateStatus
  <2>3. ASSUME NEW u \in Targets, GarbageCollect(u) \/ RemoveSecret(u)
        PROVE  KeepsOwner(t)
    BY <2>3, DeleteKeepsOwner DEF GarbageCollect, RemoveSecret
  <2>4. ASSUME NEW u \in Targets, ChangeSecret(u)
        PROVE  KeepsOwner(t)
    <3>1. secret[t] \in Objects
      BY DEF Typed
    <3>2. CASE t = u /\ secret[t].exists
      <4>1. secret[t] \in Secret
        BY <3>1, <3>2, ObjectFacts
      <4>2. secret'[t].owner = secret[t].owner
        BY <2>4, <3>2, <4>1 DEF ChangeSecret, Typed, Secret
      <4> QED BY <4>2 DEF KeepsOwner
    <3>3. CASE t = u /\ ~secret[t].exists
      <4>1. secret[t] = NoSecret
        BY <3>1, <3>3, ObjectFacts
      <4> QED BY <4>1, NoSecretFacts DEF KeepsOwner
    <3>4. CASE t # u
      BY <2>4, <3>4 DEF ChangeSecret, Typed, KeepsOwner
    <3> QED BY <3>2, <3>3, <3>4
  <2>5. CASE UNCHANGED vars
    BY <2>1, <2>5 DEF vars
  <2> QED
    BY <2>1, <2>2, <2>3, <2>4, <2>5
    DEF Next, User, Fire, PartialFollows, FullFollows, ChangeSpec, DeleteEs,
        ChangeProvider, Crash
<1>2. TypeOK /\ [Next]_vars =>
         [\A t \in Targets :
            (secret[t].owner # NoOne /\ secret'[t].exists) =>
               \/ secret'[t].owner = secret[t].owner
               \/ run'[secret[t].owner] # run[secret[t].owner]]_vars
  BY <1>1, TypedIsTypeOK DEF KeepsOwner
<1> QED BY <1>2, ExternalTypeCorrect, PTL DEF Spec, NoTakeover
=============================================================================
