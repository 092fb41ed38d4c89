-------------------------- MODULE PushSecretProofs --------------------------
(***************************************************************************)
(* Theorems about the PushSecret controller and the items the Akeyless     *)
(* provider writes for it, for every value of the constants: any sources,  *)
(* stores, items, properties and specs, and any number of changes by       *)
(* users, of writes by others and of failures and crashes.                 *)
(***************************************************************************)
EXTENDS PushSecret, TLAPS

Object == Item \cup {NoItem}

-----------------------------------------------------------------------------
(* Items *)

\* What an item that is not there has, and one that is.
LEMMA ObjectFacts ==
    ASSUME NEW item \in Object
    PROVE  /\ item.map \in [Names -> 0 .. MaxVersion]
           /\ item.exists \in BOOLEAN /\ item.tagged \in BOOLEAN
           /\ item.exists => item \in Item
           /\ ~item.exists => item = NoItem
           /\ NoItem.map \in [Names -> 0 .. MaxVersion]
           /\ \A p \in Names : NoItem.map[p] = 0
           /\ NoItem.exists = FALSE /\ NoItem.tagged = FALSE
<1>1. /\ NoItem.map = [p \in Names |-> 0]
      /\ NoItem.exists = FALSE /\ NoItem.tagged = FALSE
  BY DEF NoItem
<1>2. 0 \in 0 .. MaxVersion
  BY PushBoundAssumption
<1>3. NoItem.map \in [Names -> 0 .. MaxVersion] /\ \A p \in Names : NoItem.map[p] = 0
  BY <1>1, <1>2
<1>4. CASE item \in Item
  BY <1>1, <1>3, <1>4 DEF Item
<1>5. CASE item = NoItem
  BY <1>1, <1>3, <1>5
<1> QED BY <1>4, <1>5 DEF Object

\* An item is there if one of its properties has a value.
LEMMA ItemType ==
    ASSUME NEW map \in [Names -> 0 .. MaxVersion], NEW tagged \in BOOLEAN,
           NEW p \in Names, map[p] # 0
    PROVE  [exists |-> TRUE, tagged |-> tagged, map |-> map] \in Item
<1>1. map # NoItem.map
  BY DEF NoItem
<1> QED BY <1>1 DEF Item

\* PushSecret sets the property of the entry, or every key of the Secret, and keeps the
\* rest of what it was given.
LEMMA PushFacts ==
    ASSUME NEW item \in Object, NEW data, DOMAIN data \subseteq Names \ {Other},
           \A k \in DOMAIN data : data[k] \in 1 .. MaxVersion,
           NEW entry \in Entry, entry.key \in DOMAIN data
    PROVE  LET new == PushSecret(item, data, entry)
           IN  /\ new \in Item /\ new.exists
               /\ new.tagged = (item.tagged \/ ~item.exists)
               /\ entry.prop # Whole => new.map[entry.prop] # 0
               /\ \A p \in Names :
                     \/ new.map[p] = item.map[p]
                     \/ p # Other /\ new.map[p] # 0 /\ entry.prop \in {p, Whole}
<1> DEFINE map == PushedMap(item, data, entry)
           new == PushSecret(item, data, entry)
<1>1. item.map \in [Names -> 0 .. MaxVersion] /\ item.tagged \in BOOLEAN
      /\ item.exists \in BOOLEAN
  BY ObjectFacts
<1>2. \A k \in DOMAIN data : data[k] \in 0 .. MaxVersion /\ data[k] # 0
  BY PushBoundAssumption
<1>3. /\ entry.prop \in (Names \ {Other}) \cup {Whole}
      /\ Other \in Names /\ Whole \notin Names
  BY PushSpecAssumption, WholeAssumption DEF Entry, RefProps
<1>4. /\ map \in [Names -> 0 .. MaxVersion]
      /\ entry.prop # Whole => map[entry.prop] # 0
      /\ entry.prop = Whole => map[entry.key] # 0
      /\ \A p \in Names :
            \/ map[p] = item.map[p]
            \/ p # Other /\ map[p] # 0 /\ entry.prop \in {p, Whole}
  BY <1>1, <1>2, <1>3 DEF PushedMap
<1> HIDE DEF map
<1>5. \E p \in Names : map[p] # 0
  BY <1>3, <1>4
<1>6. new = [exists |-> TRUE, tagged |-> item.tagged \/ ~item.exists, map |-> map]
  BY DEF PushSecret, map
<1>7. new \in Item
  BY <1>1, <1>4, <1>5, <1>6, ItemType
<1> QED BY <1>4, <1>6, <1>7

\* DeleteSecret takes the item, or one property, and the item with its last one.
LEMMA DeleteFacts ==
    ASSUME NEW item \in Item, NEW prop \in RefProps
    PROVE  LET new == DeleteSecret(item, prop)
           IN  /\ new \in Object
               /\ new.tagged => item.tagged
               /\ \A p \in Names : new.map[p] # 0 => p # prop /\ new.map[p] = item.map[p]
               /\ prop = Whole => new = NoItem
               /\ prop # Whole => \A p \in Names \ {prop} : new.map[p] = item.map[p]
               /\ prop # Whole =>
                     ((\E p \in Names \ {prop} : item.map[p] # 0) => new.exists)
<1> DEFINE map == Without(item.map, prop)
           new == DeleteSecret(item, prop)
<1>1. item \in Object /\ item.map \in [Names -> 0 .. MaxVersion] /\ item.tagged \in BOOLEAN
      /\ item.exists = TRUE
  BY ObjectFacts DEF Object, Item
<1>2. /\ map \in [Names -> 0 .. MaxVersion]
      /\ \A p \in Names : map[p] = IF p = prop THEN 0 ELSE item.map[p]
  BY <1>1, PushBoundAssumption DEF Without
<1>3. /\ NoItem.map \in [Names -> 0 .. MaxVersion] /\ \A p \in Names : NoItem.map[p] = 0
      /\ NoItem.exists = FALSE /\ NoItem.tagged = FALSE /\ NoItem \in Object
  BY ObjectFacts, <1>1 DEF Object
<1> HIDE DEF map
<1>4. CASE prop = Whole \/ map = NoItem.map
  <2>1. new = NoItem
    BY <1>4 DEF DeleteSecret, map
  <2>2. ASSUME prop # Whole, NEW p \in Names \ {prop}
        PROVE  item.map[p] = 0
    BY <1>2, <1>3, <1>4, <2>2
  <2> QED BY <1>3, <2>1, <2>2
<1>5. CASE ~(prop = Whole \/ map = NoItem.map)
  <2>1. new = [item EXCEPT !.map = map]
    BY <1>5 DEF DeleteSecret, map
  <2>2. new \in Item /\ new.map = map /\ new.tagged = item.tagged /\ new.exists
    BY <1>1, <1>2, <1>5, <2>1 DEF Item
  <2> QED BY <1>2, <1>5, <2>2 DEF Object
<1> QED BY <1>4, <1>5

-----------------------------------------------------------------------------
(* References, entries and the phases of a reconcile *)

\* The entries of a spec are Entries, and their references are Refs.
LEMMA TargetType ==
    ASSUME NEW spec \in Specs, NEW s \in Sources, NEW stores \in SUBSET Stores
    PROVE  Targets(spec, s, stores) \subseteq Target
<1>1. spec.data \subseteq Entry
  BY PushSpecAssumption DEF SpecType
<1>2. SourceKeys[s] \subseteq Keys
  BY DEF Keys
<1>3. ASSUME spec.dataTo, NEW k \in SourceKeys[s]
      PROVE  [key |-> k, item |-> k, prop |-> Whole] \in Entry
  BY <1>2, <1>3, PushSpecAssumption DEF Entry, RefProps
<1>4. Entries(spec, s) \subseteq Entry
  BY <1>1, <1>3 DEF Entries
<1> QED BY <1>4 DEF Targets, Target

\* A target has a reference.
LEMMA RefType ==
    ASSUME NEW t \in Target
    PROVE  /\ RefOf(t) \in Refs
           /\ RefOf(t).store = t.store /\ RefOf(t).item = t.entry.item
           /\ RefOf(t).prop = t.entry.prop
           /\ t.entry \in Entry /\ t.store \in Stores
BY DEF RefOf, Refs, Target, Entry

\* The parts of a reference.
LEMMA RefFacts ==
    ASSUME NEW r \in Refs
    PROVE  /\ r.store \in Stores /\ r.item \in Items /\ r.prop \in RefProps
           /\ r.prop # Other /\ (r.prop # Whole => r.prop \in Names)
BY PushSpecAssumption, WholeAssumption DEF Refs, RefProps

\* A reference is to an item, there or not.
LEMMA ItemAtType ==
    ASSUME remote \in [Stores -> [Items -> Object]], NEW r \in Refs
    PROVE  ItemAt(r) \in Object
BY RefFacts DEF ItemAt

\* Where a reconcile stands tells what it knows.
LEMMA PhaseFacts ==
    ASSUME NEW r \in Phases
    PROVE  /\ r.pc \in {"idle", "push", "pushWrite", "delete", "deleteWrite", "patch"}
           /\ r.pc = "idle" => r = Idle
           /\ r.pc = "push" => r \in Pushing
           /\ r.pc = "pushWrite" => r \in PushWriting
           /\ r.pc = "delete" => r \in Deleting
           /\ r.pc = "deleteWrite" => r \in DeleteWriting
           /\ r.pc = "patch" => r \in Patching
           /\ r.touched \in SUBSET Refs
BY DEF Phases, Idle, Pushing, PushWriting, Deleting, DeleteWriting, Patching

\* What a reconcile has read and done.
LEMMA JobFacts ==
    ASSUME NEW j \in Job
    PROVE  /\ j.spec \in Specs /\ j.gen \in 1 .. MaxChanges + 1 /\ j.stores \subseteq Stores
           /\ j.version \in [Sources -> 0 .. MaxVersion] /\ j.secret \in Sources
           /\ j.left \subseteq Sources /\ j.out \subseteq Refs /\ j.all \subseteq Refs
           /\ \A s \in j.left \cup {j.secret} : j.version[s] \in 1 .. MaxVersion
<1>1. /\ j.version \in [Sources -> 0 .. MaxVersion] /\ j.secret \in Sources
      /\ j.left \subseteq Sources
      /\ \A s \in j.left \cup {j.secret} : j.version[s] # 0
  BY DEF Job
<1>2. ASSUME NEW s \in j.left \cup {j.secret}
      PROVE  j.version[s] \in 1 .. MaxVersion
  <2>1. j.version[s] \in 0 .. MaxVersion /\ j.version[s] # 0
    BY <1>1
  <2> QED BY <2>1, PushBoundAssumption
<1> QED BY <1>1, <1>2 DEF Job

\* Nothing has been pushed.
LEMMA NoJobFacts == NoJob.stores = {} /\ NoJob.out = {} /\ NoJob.all = {}
BY DEF NoJob

\* What the deletions know of the pushes.
LEMMA DeleteJob ==
    ASSUME NEW j \in Job \cup {NoJob}
    PROVE  j.stores \subseteq Stores /\ j.out \subseteq Refs /\ j.all \subseteq Refs
BY JobFacts, NoJobFacts

\* What a Secret pushes.
LEMMA DataFacts ==
    ASSUME NEW j \in Job, run.job = j
    PROVE  /\ DOMAIN Data = SourceKeys[j.secret] /\ DOMAIN Data \subseteq Names \ {Other}
           /\ \A k \in DOMAIN Data : Data[k] \in 1 .. MaxVersion
<1>1. j.secret \in Sources /\ j.version[j.secret] \in 1 .. MaxVersion
  BY JobFacts
<1>2. SourceKeys[j.secret] \subseteq Keys
  BY <1>1 DEF Keys
<1> QED BY <1>1, <1>2, PushSpecAssumption DEF Data

\* A patch that is about to be made.
LEMMA PatchType ==
    ASSUME NEW st \in Status, NEW again \in BOOLEAN, NEW after \in BOOLEAN,
           NEW touched \in SUBSET Refs
    PROVE  /\ Patch(st, again, after, touched) \in Phases
           /\ Patch(st, again, after, touched) \in Patching
           /\ Patch(st, again, after, touched).pc = "patch"
BY DEF Patch, Patching, Phases

\* The status of a failure.
LEMMA FailedType ==
    ASSUME status \in Status, NEW synced \in SUBSET Refs
    PROVE  /\ markAsFailed(synced) \in Status
           /\ markAsFailed(synced).synced = synced /\ markAsFailed(synced).ready = "false"
BY DEF markAsFailed, Status

\* Failures are bounded.
LEMMA FaultType ==
    ASSUME faults \in 0 .. MaxFaults, Fault
    PROVE  faults' \in 0 .. MaxFaults
BY PushBoundAssumption DEF Fault

\* So are the changes users make.
LEMMA ChangeType ==
    ASSUME changes \in 0 .. MaxChanges, Change
    PROVE  /\ changes' \in 0 .. MaxChanges /\ changes' = changes + 1
           /\ changes + 1 <= MaxChanges
BY PushBoundAssumption DEF Change

-----------------------------------------------------------------------------
(* Steps of the provider *)

\* The entry being written, and the item it makes.
LEMMA PushWriteFacts ==
    ASSUME TypeOK, run.pc = "pushWrite"
    PROVE  /\ run.job \in Job /\ run.cur \in Target /\ run.cur \in run.todo
           /\ run.todo \subseteq Target
           /\ run.seen \in Object /\ RefOf(run.cur) \in Refs
           /\ ItemAt(RefOf(run.cur)) \in Object
           /\ LET new == PushSecret(run.seen, Data, run.cur.entry)
              IN  /\ new \in Item /\ new.exists
                  /\ new.tagged = (run.seen.tagged \/ ~run.seen.exists)
                  /\ run.cur.entry.prop # Whole => new.map[run.cur.entry.prop] # 0
                  /\ \A p \in Names :
                        \/ new.map[p] = run.seen.map[p]
                        \/ p # Other /\ new.map[p] # 0 /\ run.cur.entry.prop \in {p, Whole}
<1>1. run \in PushWriting
  BY PhaseFacts DEF TypeOK
<1>2. /\ run.job \in Job /\ run.cur \in Target /\ run.seen \in Object
      /\ run.todo \subseteq Target
  BY <1>1 DEF PushWriting, Object
<1>3. run.cur \in run.todo /\ run.cur.entry.key \in SourceKeys[run.job.secret]
  BY DEF TypeOK, RunOK
<1>4. RefOf(run.cur) \in Refs /\ run.cur.entry \in Entry
  BY <1>2, RefType
<1>5. ItemAt(RefOf(run.cur)) \in Object
  BY <1>4, ItemAtType DEF TypeOK, Object
<1>6. /\ run.cur.entry.key \in DOMAIN Data /\ DOMAIN Data \subseteq Names \ {Other}
      /\ \A k \in DOMAIN Data : Data[k] \in 1 .. MaxVersion
  BY <1>2, <1>3, DataFacts
<1> QED BY <1>2, <1>3, <1>4, <1>5, <1>6, PushFacts

\* The reference being deleted, and what becomes of its item.
LEMMA DeleteWriteFacts ==
    ASSUME TypeOK, run.pc = "deleteWrite"
    PROVE  /\ run.cur \in Refs /\ run.cur \in run.todo /\ run.seen \in Item
           /\ ItemAt(run.cur) \in Object
           /\ DeleteSecret(run.seen, run.cur.prop) \in Object
<1>1. run \in DeleteWriting
  BY PhaseFacts DEF TypeOK
<1>2. run.cur \in Refs /\ run.seen \in Item /\ run.cur \in run.todo
  BY <1>1 DEF DeleteWriting, TypeOK, RunOK
<1>3. ItemAt(run.cur) \in Object
  BY <1>2, ItemAtType DEF TypeOK, Object
<1> QED BY <1>2, <1>3, RefFacts, DeleteFacts

\* An item is replaced, and the others are left alone.
LEMMA UpdateFacts ==
    ASSUME remote \in [Stores -> [Items -> Object]], NEW s \in Stores, NEW k \in Items,
           NEW item \in Object, remote' = [remote EXCEPT ![s][k] = item]
    PROVE  /\ remote' \in [Stores -> [Items -> Object]]
           /\ \A st \in Stores, i \in Items :
                 remote'[st][i] = IF st = s /\ i = k THEN item ELSE remote[st][i]
OBVIOUS

\* A write changes one item.
LEMMA PutFacts ==
    ASSUME remote \in [Stores -> [Items -> Object]], NEW r \in Refs, NEW item \in Object,
           Put(r, item)
    PROVE  /\ remote' \in [Stores -> [Items -> Object]]
           /\ \A st \in Stores, i \in Items :
                 remote'[st][i] = IF st = r.store /\ i = r.item THEN item ELSE remote[st][i]
BY RefFacts, UpdateFacts DEF Put

-----------------------------------------------------------------------------
(* The type invariant is inductive. *)

RunTyped == run \in Phases /\ RunOK(run)

\* Between reconciles, and when nothing is left but the patch, there is nothing to say
\* of a write.
LEMMA EndTyped ==
    ASSUME run' = Idle \/ run' \in Patching
    PROVE  RunTyped'
BY DEF RunTyped, RunOK, Phases, Idle, Patching

\* A reconcile keeps what it knows while the status is the same.
LEMMA SameRunTyped ==
    ASSUME TypeOK, UNCHANGED <<run, status>>
    PROVE  RunTyped'
BY DEF TypeOK, RunTyped, RunOK

\* The finalizer and the state change, the spec does not.
LEMMA ObjectType ==
    ASSUME obj \in Resource, DropFinalizer
    PROVE  obj' \in Resource /\ obj'.gen = obj.gen /\ obj'.spec = obj.spec
BY DEF DropFinalizer, Resource

\* The initial states.
LEMMA InitTyped ==
    ASSUME Init
    PROVE  TypeOK
<1>1. /\ 0 \in 0 .. MaxChanges /\ 0 \in 0 .. MaxFaults /\ 0 \in 0 .. MaxChanges + 1
      /\ 1 \in 1 .. MaxChanges + 1 /\ 1 \in 0 .. MaxVersion /\ 1 <= 0 + 1
  BY PushBoundAssumption
<1>2. obj \in Resource /\ obj.gen = 1
  BY <1>1, PushSpecAssumption DEF Init, Resource
<1>3. status \in Status
  BY <1>1 DEF Init, Status
<1>4. run \in Phases /\ RunOK(run)
  BY DEF Init, Phases, RunOK, Idle
<1> QED BY <1>1, <1>2, <1>3, <1>4 DEF Init, TypeOK

\* The steps before the first call of the provider.
LEMMA BeginTyped ==
    ASSUME TypeOK,
           \/ ReconcileGone \/ AddFinalizer \/ SkipRefresh \/ SourceDeleted
           \/ ResolveFails \/ NoStores \/ NothingSelected \/ StartPush \/ StartCleanup
    PROVE  TypeOK'
<1>1. obj \in Resource /\ status \in Status /\ obj.gen <= changes + 1
  BY DEF TypeOK
<1>2. /\ obj.spec \in Specs /\ obj.gen \in 1 .. MaxChanges + 1 /\ obj.spec.interval \in BOOLEAN
      /\ status.synced \in SUBSET Refs
  BY <1>1, PushSpecAssumption DEF Resource, Status, SpecType
<1>3. CASE ReconcileGone
  <2>1. RunTyped'
    BY <1>3, SameRunTyped DEF ReconcileGone
  <2> QED BY <1>3, <2>1 DEF ReconcileGone, TypeOK, RunTyped, cluster, ends, bounds
<1>4. CASE AddFinalizer
  <2>1. RunTyped'
    BY <1>4, SameRunTyped DEF AddFinalizer
  <2>2. obj' \in Resource /\ obj'.gen = obj.gen
    BY <1>1, <1>4 DEF AddFinalizer, Resource
  <2> QED BY <1>4, <2>1, <2>2 DEF AddFinalizer, TypeOK, RunTyped, cluster, ends, bounds, work
<1>5. CASE SkipRefresh
  <2>1. RunTyped'
    BY <1>5, SameRunTyped DEF SkipRefresh
  <2>2. obj' \in Resource /\ obj'.gen = obj.gen
    BY <1>1, <1>5, ObjectType DEF SkipRefresh
  <2>3. timer' \in BOOLEAN
    BY <1>5 DEF SkipRefresh
  <2> QED BY <1>5, <2>1, <2>2, <2>3 DEF SkipRefresh, TypeOK, RunTyped, cluster, ends, bounds
<1>6. CASE NoStores
  <2>1. RunTyped'
    BY <1>6, SameRunTyped DEF NoStores
  <2>2. obj' \in Resource /\ obj'.gen = obj.gen
    BY <1>1, <1>6, ObjectType DEF NoStores
  <2> QED BY <1>6, <2>1, <2>2 DEF NoStores, TypeOK, RunTyped, cluster, ends, bounds
<1>7. ASSUME NEW why \in {"source", "cleanup"}, run' = DeleteAll(why), UNCHANGED status
      PROVE  RunTyped'
  BY <1>2, <1>7 DEF DeleteAll, RunTyped, Phases, Deleting, RunOK, NoJob
<1>8. CASE SourceDeleted
  <2>1. RunTyped'
    BY <1>7, <1>8 DEF SourceDeleted
  <2>2. obj' \in Resource /\ obj'.gen = obj.gen
    BY <1>1, <1>8, ObjectType DEF SourceDeleted
  <2> QED BY <1>8, <2>1, <2>2 DEF SourceDeleted, TypeOK, RunTyped, cluster, ends, bounds
<1>9. CASE ResolveFails
  <2>1. RunTyped'
    BY <1>1, <1>2, <1>9, FailedType, PatchType, EndTyped DEF ResolveFails
  <2>2. obj' \in Resource /\ obj'.gen = obj.gen
    BY <1>1, <1>9, ObjectType DEF ResolveFails
  <2>3. faults' \in 0 .. MaxFaults
    BY <1>9, FaultType DEF ResolveFails, TypeOK
  <2> QED BY <1>9, <2>1, <2>2, <2>3 DEF ResolveFails, TypeOK, RunTyped, cluster, ends
<1>10. CASE NothingSelected
  <2>1. [synced |-> {}, ready |-> "true", rv |-> obj.gen] \in Status
    <3>1. obj.gen \in 0 .. MaxChanges + 1
      BY <1>2, PushBoundAssumption
    <3> QED BY <3>1 DEF Status
  <2>2. RunTyped'
    BY <1>2, <1>10, <2>1, PatchType, EndTyped DEF NothingSelected
  <2>3. obj' \in Resource /\ obj'.gen = obj.gen
    BY <1>1, <1>10, ObjectType DEF NothingSelected
  <2>4. lost' \subseteq Refs
    BY <1>2, <1>10 DEF NothingSelected, TypeOK
  <2> QED BY <1>10, <2>2, <2>3, <2>4 DEF NothingSelected, TypeOK, RunTyped, cluster, ends, bounds
<1>11. CASE StartPush
  <2>1. PICK s \in Selected :
           run' = [pc |-> "push", touched |-> {},
                   job |-> [spec |-> obj.spec, gen |-> obj.gen, stores |-> ActiveStores,
                            version |-> source, secret |-> s, left |-> Selected \ {s},
                            out |-> {}, all |-> {}],
                   todo |-> Targets(obj.spec, s, ActiveStores)]
    BY <1>11 DEF StartPush
  <2>2. ActiveStores \subseteq Stores /\ Selected \subseteq Sources
        /\ \A q \in Selected : source[q] # 0
    BY <1>2, PushSpecAssumption DEF ActiveStores, Selected, SpecType
  <2> DEFINE job == [spec |-> obj.spec, gen |-> obj.gen, stores |-> ActiveStores,
                     version |-> source, secret |-> s, left |-> Selected \ {s},
                     out |-> {}, all |-> {}]
  <2>3. job \in Job
    BY <1>2, <2>2 DEF Job, TypeOK
  <2>4. Targets(obj.spec, s, ActiveStores) \subseteq Target
    BY <1>2, <2>2, TargetType
  <2>5. run' \in Pushing
    BY <2>1, <2>3, <2>4 DEF Pushing
  <2>6. RunTyped'
    BY <2>1, <2>5 DEF RunTyped, RunOK, Phases
  <2>7. obj' \in Resource /\ obj'.gen = obj.gen
    BY <1>1, <1>11, ObjectType DEF StartPush
  <2> QED BY <1>11, <2>6, <2>7 DEF StartPush, TypeOK, RunTyped, cluster, bounds
<1>12. CASE StartCleanup
  <2>1. RunTyped'
    BY <1>7, <1>12 DEF StartCleanup
  <2> QED BY <1>12, <2>1 DEF StartCleanup, TypeOK, RunTyped, cluster, ends, bounds
<1> QED BY <1>3, <1>4, <1>5, <1>6, <1>8, <1>9, <1>10, <1>11, <1>12

\* An entry counts as pushed.
LEMMA PushedTyped ==
    ASSUME TypeOK, NEW t \in Target, NEW written \in SUBSET Refs,
           run.pc \in {"push", "pushWrite"}, run' = Pushed(t, written), UNCHANGED status
    PROVE  /\ RunTyped' /\ run'.pc = "push" /\ run'.todo = run.todo \ {t}
           /\ run'.job = [run.job EXCEPT !.out = run.job.out \cup {RefOf(t)}]
           /\ run'.touched = run.touched \cup written
<1>1. /\ run.job \in Job /\ run.todo \subseteq Target /\ run.touched \subseteq Refs
      /\ run.todo \subseteq Targets(run.job.spec, run.job.secret, run.job.stores)
  BY PhaseFacts DEF TypeOK, Pushing, PushWriting, RunOK
<1> DEFINE job == [run.job EXCEPT !.out = run.job.out \cup {RefOf(t)}]
<1>2. job \in Job /\ job.spec = run.job.spec /\ job.secret = run.job.secret
      /\ job.stores = run.job.stores
  BY <1>1, RefType DEF Job
<1>3. run' = [pc |-> "push", job |-> job, todo |-> run.todo \ {t},
              touched |-> run.touched \cup written]
  BY DEF Pushed
<1> HIDE DEF job
<1>4. run' \in Pushing
  BY <1>1, <1>2, <1>3 DEF Pushing
<1>5. RunTyped'
  BY <1>1, <1>2, <1>3, <1>4 DEF RunTyped, RunOK, Phases
<1> QED BY <1>3, <1>5 DEF job

\* PushSecretToProviders.
LEMMA PushTyped ==
    ASSUME TypeOK, PushRead \/ PushWrite \/ PushFails
    PROVE  TypeOK'
<1>1. CASE PushRead
  <2>1. run \in Pushing
    BY <1>1, PhaseFacts DEF TypeOK, PushRead
  <2>2. PICK t \in run.todo :
           /\ secretKeyExists(t)
           /\ \/ run' = Pushed(t, {})
              \/ run' = [pc |-> "pushWrite", job |-> run.job, todo |-> run.todo,
                         touched |-> run.touched, cur |-> t, seen |-> ItemAt(RefOf(t))]
    BY <1>1 DEF PushRead
  <2>3. t \in Target /\ RefOf(t) \in Refs
    BY <2>1, RefType DEF Pushing
  <2>4. CASE run' = Pushed(t, {})
    <3>1. run.pc = "push" /\ UNCHANGED status /\ {} \in SUBSET Refs
      BY <1>1 DEF PushRead
    <3>2. RunTyped'
      BY <2>3, <2>4, <3>1, PushedTyped
    <3> QED BY <1>1, <3>2 DEF PushRead, TypeOK, RunTyped, work, cluster, ends, bounds
  <2>5. CASE run' # Pushed(t, {})
    <3>1. run' = [pc |-> "pushWrite", job |-> run.job, todo |-> run.todo,
                  touched |-> run.touched, cur |-> t, seen |-> ItemAt(RefOf(t))]
      BY <2>2, <2>5
    <3>2. ItemAt(RefOf(t)) \in Item \cup {NoItem}
      BY <2>3, ItemAtType DEF TypeOK, Object
    <3>3. run' \in PushWriting
      BY <2>1, <2>3, <3>1, <3>2 DEF Pushing, PushWriting
    <3>4. run.todo \subseteq Targets(run.job.spec, run.job.secret, run.job.stores)
      BY <1>1 DEF TypeOK, RunOK, PushRead
    <3>5. RunTyped'
      BY <2>2, <3>1, <3>3, <3>4 DEF RunTyped, RunOK, Phases, secretKeyExists
    <3> QED BY <1>1, <3>5 DEF PushRead, TypeOK, RunTyped, work, cluster, ends, bounds
  <2> QED BY <2>4, <2>5
<1>2. ASSUME run.pc = "pushWrite", WritePushed
      PROVE  remote' \in [Stores -> [Items -> Object]]
  <2>1. /\ RefOf(run.cur) \in Refs
        /\ PushSecret(run.seen, Data, run.cur.entry) \in Object
    BY <1>2, PushWriteFacts DEF Object
  <2> QED BY <1>2, <2>1, PutFacts DEF WritePushed, TypeOK, Object
<1>3. CASE PushWrite
  <2>1. run.cur \in Target /\ RefOf(run.cur) \in Refs
    BY <1>3, PushWriteFacts DEF PushWrite
  <2>2. RunTyped'
    BY <1>3, <2>1, PushedTyped DEF PushWrite
  <2>3. remote' \in [Stores -> [Items -> Object]]
    BY <1>2, <1>3 DEF PushWrite
  <2> QED BY <1>3, <2>2, <2>3 DEF PushWrite, TypeOK, RunTyped, Object, work, cluster, ends, bounds
<1>4. CASE PushFails
  <2>1. run.job \in Job /\ run.touched \subseteq Refs
    BY <1>4, PhaseFacts DEF TypeOK, PushFails, Pushing, PushWriting
  <2>2. run.job.out \subseteq Refs /\ run.job.all \subseteq Refs /\ status.synced \subseteq Refs
    BY <2>1, JobFacts DEF TypeOK, Status
  <2>3. mergeSecretState(run.job.out, status.synced) \in SUBSET Refs
    BY <2>2 DEF mergeSecretState
  <2>4. RunTyped'
    BY <1>4, <2>1, <2>3, FailedType, PatchType, EndTyped DEF PushFails, TypeOK
  <2>5. remote' \in [Stores -> [Items -> Object]]
    BY <1>2, <1>4 DEF PushFails, TypeOK, Object
  <2>6. run.pc = "pushWrite" => RefOf(run.cur) \in Refs
    BY PushWriteFacts
  <2>7. lost' \subseteq Refs
    BY <1>4, <2>2, <2>6 DEF PushFails, TypeOK
  <2>8. faults' \in 0 .. MaxFaults
    BY <1>4, FaultType DEF PushFails, TypeOK
  <2> QED BY <1>4, <2>4, <2>5, <2>7, <2>8 DEF PushFails, TypeOK, RunTyped, Object, work, cluster, ends
<1> QED BY <1>1, <1>3, <1>4

\* A deletion begins, or goes on with less to do.
LEMMA DeletedTyped ==
    ASSUME TypeOK, NEW r \in Refs, NEW written \in SUBSET Refs,
           run.pc \in {"delete", "deleteWrite"}, run' = Deleted(r, written), UNCHANGED status
    PROVE  /\ RunTyped' /\ run'.pc = "delete" /\ run'.todo = run.todo \ {r}
           /\ run'.why = run.why /\ run'.job = run.job
           /\ run'.touched = run.touched \cup written
           /\ run'.bad \subseteq run.bad
           /\ \A q \in run.bad \ run'.bad :
                 \/ q = r
                 \/ q.store \notin run.job.stores /\ q \notin run'.todo
<1>1. /\ run.job \in Job \cup {NoJob} /\ run.todo \subseteq Refs /\ run.touched \subseteq Refs
      /\ run.bad \subseteq Refs /\ run.why \in {"push", "source", "cleanup"}
  BY PhaseFacts DEF TypeOK, Deleting, DeleteWriting
<1> DEFINE todo == run.todo \ {r}
           done == IF r.store \in run.job.stores THEN {r}
                   ELSE {q \in run.bad : q.store = r.store /\ \A p \in todo : p.store # q.store}
<1>2. run' = [pc |-> "delete", why |-> run.why, job |-> run.job, todo |-> todo,
              bad |-> run.bad \ done, touched |-> run.touched \cup written]
  BY DEF Deleted
<1>3. \A q \in done : q = r \/ (q.store \notin run.job.stores /\ q \notin todo)
  OBVIOUS
<1> HIDE DEF done
<1>4. run' \in Deleting
  BY <1>1, <1>2 DEF Deleting
<1>5. RunTyped'
  BY <1>2, <1>4 DEF RunTyped, TypeOK, RunOK, Phases
<1> QED BY <1>2, <1>3, <1>5

\* DeleteSecretFromProviders.
LEMMA DeleteTyped ==
    ASSUME TypeOK, StartDelete \/ DeleteRead \/ DeleteWrite \/ DeleteFails
    PROVE  TypeOK'
<1>1. CASE StartDelete
  <2>1. run.job \in Job /\ run.touched \subseteq Refs
    BY <1>1, PhaseFacts DEF TypeOK, StartDelete, StartDeleteOf, Pushing
  <2>2. run.job.out \subseteq Refs /\ status.synced \subseteq Refs
    BY <2>1, JobFacts DEF TypeOK, Status
  <2>3. run' = [pc |-> "delete", why |-> "push", job |-> run.job,
                todo |-> status.synced \ run.job.out,
                bad |-> run.job.out \cup status.synced, touched |-> run.touched]
    BY <1>1 DEF StartDelete, StartDeleteOf, mergeSecretState
  <2>4. run' \in Deleting
    BY <2>1, <2>2, <2>3 DEF Deleting
  <2>5. run.job.spec.policy = "Delete" /\ UNCHANGED status
    BY <1>1 DEF StartDelete, StartDeleteOf
  <2>6. RunTyped'
    BY <2>1, <2>3, <2>4, <2>5 DEF RunTyped, RunOK, Phases
  <2> QED BY <1>1, <2>6 DEF StartDelete, StartDeleteOf, TypeOK, RunTyped, work, cluster, ends, bounds
<1>2. CASE DeleteRead
  <2>1. run \in Deleting
    BY <1>2, PhaseFacts DEF TypeOK, DeleteRead
  <2>2. PICK r \in run.todo :
           \/ /\ run' = Deleted(r, {}) /\ lost' \subseteq lost \cup {r}
              /\ (UNCHANGED faults \/ Fault)
           \/ /\ Deletable(ItemAt(r)) /\ UNCHANGED <<lost, faults>>
              /\ run' = [pc |-> "deleteWrite", why |-> run.why, job |-> run.job,
                         todo |-> run.todo, bad |-> run.bad, touched |-> run.touched,
                         cur |-> r, seen |-> ItemAt(r)]
    BY <1>2 DEF DeleteRead
  <2>3. r \in Refs
    BY <2>1 DEF Deleting
  <2>4. faults' \in 0 .. MaxFaults /\ lost' \subseteq Refs
    BY <2>2, <2>3, FaultType DEF TypeOK
  <2>5. RunTyped'
    <3>1. CASE run' = Deleted(r, {})
      <4>1. run.pc = "delete" /\ UNCHANGED status /\ {} \in SUBSET Refs
        BY <1>2 DEF DeleteRead
      <4> QED BY <2>3, <3>1, <4>1, DeletedTyped
    <3>2. CASE run' # Deleted(r, {})
      <4>1. ItemAt(r) \in Item
        BY <2>2, <2>3, <3>2, ItemAtType, ObjectFacts DEF TypeOK, Object, Deletable
      <4>2. run' \in DeleteWriting
        BY <2>1, <2>2, <2>3, <3>2, <4>1 DEF Deleting, DeleteWriting
      <4>3. run.pc = "delete" /\ UNCHANGED status
        BY <1>2 DEF DeleteRead
      <4> QED BY <2>2, <3>2, <4>2, <4>3 DEF RunTyped, TypeOK, RunOK, Phases
    <3> QED BY <3>1, <3>2
  <2> QED BY <1>2, <2>4, <2>5 DEF DeleteRead, TypeOK, RunTyped, work, cluster, ends
<1>3. ASSUME run.pc = "deleteWrite", Put(run.cur, DeleteSecret(run.seen, run.cur.prop))
      PROVE  remote' \in [Stores -> [Items -> Object]]
  BY <1>3, DeleteWriteFacts, PutFacts DEF TypeOK, Object
<1>4. CASE DeleteWrite
  <2>1. run.cur \in Refs /\ run.pc = "deleteWrite" /\ UNCHANGED status
    BY <1>4, DeleteWriteFacts DEF DeleteWrite
  <2>2. RunTyped'
    BY <1>4, <2>1, DeletedTyped DEF DeleteWrite
  <2>3. remote' \in [Stores -> [Items -> Object]]
    BY <1>3, <1>4 DEF DeleteWrite
  <2> QED BY <1>4, <2>2, <2>3 DEF DeleteWrite, TypeOK, RunTyped, Object, work, cluster, ends, bounds
<1>5. CASE DeleteFails
  <2>1. /\ run.job \in Job \cup {NoJob} /\ run.touched \subseteq Refs /\ run.bad \subseteq Refs
        /\ run.pc = "deleteWrite" => run.cur \in Refs
    BY <1>5, PhaseFacts DEF TypeOK, DeleteFails, Deleting, DeleteWriting
  <2>2. lost' \subseteq Refs
    BY <1>5, <2>1, DeleteJob DEF DeleteFails, TypeOK
  <2>3. remote' \in [Stores -> [Items -> Object]] /\ (run.pc # "deleteWrite" => remote' = remote)
    BY <1>3, <1>5 DEF DeleteFails, TypeOK, Object
  <2> DEFINE touched == run.touched \cup (IF remote' = remote THEN {} ELSE {run.cur})
  <2>4. touched \in SUBSET Refs
    BY <2>1, <2>3
  <2> HIDE DEF touched
  <2>5. run' = Patch(markAsFailed(run.bad), TRUE, FALSE, touched)
    BY <1>5 DEF DeleteFails, touched
  <2>6. markAsFailed(run.bad) \in Status
    BY <2>1, FailedType DEF TypeOK
  <2>7. RunTyped'
    BY <2>4, <2>5, <2>6, PatchType, EndTyped
  <2>8. faults' \in 0 .. MaxFaults
    BY <1>5, FaultType DEF DeleteFails, TypeOK
  <2> QED BY <1>5, <2>2, <2>3, <2>7, <2>8 DEF DeleteFails, TypeOK, RunTyped, Object, work, cluster, ends
<1> QED BY <1>1, <1>2, <1>4, <1>5

\* A Secret that is done has a job.
LEMMA SecretDoneFacts ==
    ASSUME TypeOK, SecretDone
    PROVE  /\ run.job \in Job /\ run.touched \subseteq Refs
           /\ run.pc \in {"push", "delete"} /\ run.todo = {}
           /\ run.pc = "delete" => run.why = "push" /\ run.job.spec.policy = "Delete"
           /\ run.pc = "push" => run.job.spec.policy # "Delete"
<1>1. CASE run.pc = "push"
  BY <1>1, PhaseFacts DEF TypeOK, SecretDone, Pushing
<1>2. CASE run.pc = "delete"
  BY <1>2, PhaseFacts DEF TypeOK, SecretDone, RunOK
<1> QED BY <1>1, <1>2 DEF SecretDone

\* The next Secret.
LEMMA NextSecretFacts ==
    ASSUME TypeOK, NextSecret
    PROVE  /\ RunTyped' /\ run'.pc = "push" /\ run'.touched = run.touched
           /\ run'.job.out = {} /\ run'.job.all = run.job.all \cup run.job.out
           /\ run'.job.spec = run.job.spec /\ run'.job.left \subseteq run.job.left
           /\ run.job.left # {}
<1>1. run.job \in Job /\ run.touched \subseteq Refs
  BY SecretDoneFacts DEF NextSecret
<1>2. PICK s \in run.job.left :
         run' = [pc |-> "push", touched |-> run.touched,
                 job |-> [run.job EXCEPT !.secret = s, !.left = run.job.left \ {s}, !.out = {},
                                         !.all = run.job.all \cup run.job.out],
                 todo |-> Targets(run.job.spec, s, run.job.stores)]
  BY DEF NextSecret, mergeSecretState
<1> DEFINE job == [run.job EXCEPT !.secret = s, !.left = run.job.left \ {s}, !.out = {},
                                  !.all = run.job.all \cup run.job.out]
<1>3. /\ run.job.left \subseteq Sources /\ run.job.spec \in Specs /\ run.job.stores \subseteq Stores
      /\ run.job.all \cup run.job.out \subseteq Refs
  BY <1>1, JobFacts
<1>4. /\ job \in Job /\ job.out = {} /\ job.all = run.job.all \cup run.job.out
      /\ job.spec = run.job.spec /\ job.left \subseteq run.job.left
      /\ job.stores = run.job.stores /\ job.secret = s
  BY <1>1, <1>3 DEF Job
<1>5. Targets(run.job.spec, s, run.job.stores) \subseteq Target
  BY <1>3, TargetType
<1> HIDE DEF job
<1>6. run' = [pc |-> "push", touched |-> run.touched, job |-> job,
              todo |-> Targets(run.job.spec, s, run.job.stores)]
  BY <1>2 DEF job
<1>7. run' \in Pushing
  BY <1>1, <1>4, <1>5, <1>6 DEF Pushing
<1>8. RunTyped'
  BY <1>4, <1>6, <1>7 DEF RunTyped, RunOK, Phases
<1> QED BY <1>4, <1>6, <1>8 DEF NextSecret

\* The end of a reconcile.
LEMMA EndStepTyped ==
    ASSUME TypeOK, NextSecret \/ PushDone \/ SourceDone \/ RemoveFinalizer \/ PatchStatus \/ Crash
    PROVE  TypeOK'
<1>1. run \in Phases /\ run.touched \in SUBSET Refs /\ status \in Status /\ lost \subseteq Refs
      /\ status.synced \in SUBSET Refs
  BY PhaseFacts DEF TypeOK, Status
<1>2. CASE NextSecret
  BY <1>2, NextSecretFacts
     DEF NextSecret, TypeOK, RunTyped, work, cluster, ends, bounds
<1>3. CASE PushDone
  <2> DEFINE synced == run.job.all \cup run.job.out
             st == [synced |-> synced, ready |-> "true", rv |-> run.job.gen]
  <2>1. run.job \in Job
    BY <1>3, SecretDoneFacts DEF PushDone
  <2>2. /\ synced \in SUBSET Refs /\ run.job.gen \in 1 .. MaxChanges + 1
        /\ run.job.spec \in Specs
    BY <2>1, JobFacts
  <2>3. run.job.gen \in 0 .. MaxChanges + 1 /\ run.job.spec.interval \in BOOLEAN
    BY <2>2, PushBoundAssumption, PushSpecAssumption DEF SpecType
  <2> HIDE DEF synced
  <2>4. st \in Status
    BY <2>2, <2>3 DEF Status
  <2>5. run' = Patch(st, FALSE, run.job.spec.interval, run.touched) /\ lost' \subseteq lost \cup status.synced
    BY <1>3 DEF PushDone, mergeSecretState, Forget, synced
  <2>6. RunTyped' /\ lost' \subseteq Refs
    BY <1>1, <2>3, <2>4, <2>5, PatchType, EndTyped
  <2> QED BY <1>3, <2>6 DEF PushDone, TypeOK, RunTyped, work, cluster, ends, bounds
<1>4. CASE SourceDone
  <2>1. [status EXCEPT !.synced = {}, !.ready = "sourceDeleted"] \in Status
    BY <1>1 DEF Status
  <2>2. RunTyped'
    BY <1>1, <1>4, <2>1, PatchType, EndTyped DEF SourceDone
  <2> QED BY <1>4, <2>2 DEF SourceDone, TypeOK, RunTyped, work, cluster, bounds
<1>5. CASE RemoveFinalizer
  <2>1. RunTyped'
    BY <1>1, <1>5, PatchType, EndTyped DEF RemoveFinalizer
  <2>2. obj' \in Resource /\ obj'.gen = obj.gen
    BY <1>5 DEF RemoveFinalizer, TypeOK, Resource
  <2>3. faults' \in 0 .. MaxFaults
    BY <1>5, FaultType DEF RemoveFinalizer, TypeOK
  <2> QED BY <1>5, <2>1, <2>2, <2>3 DEF RemoveFinalizer, TypeOK, RunTyped, work, cluster
<1>6. CASE PatchStatus
  <2>1. run.status \in Status /\ run.again \in BOOLEAN /\ run.after \in BOOLEAN
    BY <1>1, <1>6, PhaseFacts DEF PatchStatus, Patching
  <2>2. RunTyped'
    BY <1>6, EndTyped DEF PatchStatus
  <2>3. faults' \in 0 .. MaxFaults
    BY <1>6, FaultType DEF PatchStatus, TypeOK
  <2>4. lost' \subseteq Refs /\ status' \in Status /\ due' \in BOOLEAN
    BY <1>1, <1>6, <2>1 DEF PatchStatus, TypeOK
  <2>5. queued' \in BOOLEAN /\ timer' \in BOOLEAN
    BY <1>6 DEF PatchStatus
  <2> QED BY <1>6, <2>2, <2>3, <2>4, <2>5 DEF PatchStatus, TypeOK, RunTyped, cluster, ends
<1>7. CASE Crash
  <2>1. RunTyped'
    BY <1>7, EndTyped DEF Crash
  <2>2. faults' \in 0 .. MaxFaults
    BY <1>7, FaultType DEF Crash, TypeOK
  <2>3. queued' \in BOOLEAN
    BY <1>7 DEF Crash
  <2> QED BY <1>1, <1>7, <2>1, <2>2, <2>3 DEF Crash, TypeOK, RunTyped, cluster
<1> QED BY <1>2, <1>3, <1>4, <1>5, <1>6, <1>7

\* The value of the other writer.
LEMMA OtherFacts ==
    ASSUME TypeOK, NEW st \in Stores, NEW i \in Items, NEW item,
           item = [exists |-> TRUE, tagged |-> remote[st][i].tagged,
                   map |-> [remote[st][i].map EXCEPT ![Other] = 1]],
           remote' = [remote EXCEPT ![st][i] = item]
    PROVE  /\ remote' \in [Stores -> [Items -> Object]]
           /\ \A q \in Stores, j \in Items :
                 /\ remote'[q][j].tagged = remote[q][j].tagged
                 /\ remote[q][j].exists => remote'[q][j].exists
                 /\ \A p \in Names \ {Other} : remote'[q][j].map[p] = remote[q][j].map[p]
<1>1. remote \in [Stores -> [Items -> Object]] /\ remote[st][i] \in Object
  BY DEF TypeOK, Object
<1>2. remote[st][i].map \in [Names -> 0 .. MaxVersion] /\ remote[st][i].tagged \in BOOLEAN
  BY <1>1, ObjectFacts
<1> DEFINE map == [remote[st][i].map EXCEPT ![Other] = 1]
<1>3. Other \in Names /\ 1 \in 0 .. MaxVersion
  BY PushSpecAssumption, PushBoundAssumption
<1>4. /\ map \in [Names -> 0 .. MaxVersion] /\ map[Other] = 1
      /\ \A p \in Names \ {Other} : map[p] = remote[st][i].map[p]
  BY <1>2, <1>3
<1> HIDE DEF map
<1>5. item = [exists |-> TRUE, tagged |-> remote[st][i].tagged, map |-> map]
  BY DEF map
<1>6. /\ item \in Object /\ item.exists /\ item.tagged = remote[st][i].tagged
      /\ item.map = map
  BY <1>2, <1>3, <1>4, <1>5, ItemType DEF Object
<1>7. /\ remote' \in [Stores -> [Items -> Object]]
      /\ \A q \in Stores, j \in Items :
            remote'[q][j] = IF q = st /\ j = i THEN item ELSE remote[q][j]
  BY <1>1, <1>6, UpdateFacts
<1>8. ASSUME NEW q \in Stores, NEW j \in Items
      PROVE  /\ remote'[q][j].tagged = remote[q][j].tagged
             /\ remote[q][j].exists => remote'[q][j].exists
             /\ \A p \in Names \ {Other} : remote'[q][j].map[p] = remote[q][j].map[p]
  <2>1. CASE q = st /\ j = i
    BY <1>4, <1>6, <1>7, <2>1
  <2>2. CASE q # st \/ j # i
    BY <1>7, <2>2
  <2> QED BY <2>1, <2>2
<1> QED BY <1>7, <1>8

\* So every write of the other writer does.
LEMMA OtherWritesFacts ==
    ASSUME TypeOK, OtherWrites
    PROVE  /\ remote' \in [Stores -> [Items -> Object]]
           /\ \A q \in Stores, j \in Items :
                 /\ remote'[q][j].tagged = remote[q][j].tagged
                 /\ remote[q][j].exists => remote'[q][j].exists
                 /\ \A p \in Names \ {Other} : remote'[q][j].map[p] = remote[q][j].map[p]
<1>1. PICK st \in Stores, i \in Items :
         remote' = [remote EXCEPT ![st][i] =
                      [exists |-> TRUE, tagged |-> remote[st][i].tagged,
                       map |-> [remote[st][i].map EXCEPT ![Other] = 1]]]
  BY DEF OtherWrites
<1>2. PICK item : item = [exists |-> TRUE, tagged |-> remote[st][i].tagged,
                          map |-> [remote[st][i].map EXCEPT ![Other] = 1]]
  OBVIOUS
<1>3. remote' = [remote EXCEPT ![st][i] = item]
  BY <1>1, <1>2
<1> QED BY <1>2, <1>3, OtherFacts

\* Users, time and the other writer.
LEMMA WorldTyped ==
    ASSUME TypeOK,
           \/ ChangeSpec \/ DeleteObject \/ ChangeSource \/ RetireStore \/ OtherWrites
           \/ Elapse \/ Fire
    PROVE  TypeOK' 
<1>1. /\ obj \in Resource /\ obj.gen \in Int /\ 1 <= obj.gen /\ obj.gen <= changes + 1
      /\ changes \in Nat
  BY PushBoundAssumption DEF TypeOK, Resource
<1>2. ASSUME Change, obj'.gen = obj.gen
      PROVE  changes' \in 0 .. MaxChanges /\ obj'.gen <= changes' + 1
  BY <1>1, <1>2, ChangeType DEF TypeOK
<1>3. CASE ChangeSpec
  <2>1. PICK s \in Specs : obj' = [obj EXCEPT !.spec = s, !.gen = obj.gen + 1]
    BY <1>3 DEF ChangeSpec
  <2>2. changes' \in 0 .. MaxChanges /\ changes' = changes + 1 /\ changes + 1 <= MaxChanges
    BY <1>3, ChangeType DEF ChangeSpec, TypeOK
  <2>3. obj.gen + 1 \in 1 .. MaxChanges + 1 /\ obj.gen + 1 <= changes' + 1
    BY <1>1, <2>2, PushBoundAssumption
  <2>4. obj' \in Resource /\ obj'.gen = obj.gen + 1
    BY <1>1, <2>1, <2>3 DEF Resource
  <2>5. RunTyped'
    BY <1>3, SameRunTyped DEF ChangeSpec
  <2>6. obj'.gen <= changes' + 1
    BY <2>3, <2>4
  <2> QED BY <1>3, <2>2, <2>4, <2>5, <2>6 DEF ChangeSpec, TypeOK, RunTyped, cluster, ends
<1>4. CASE DeleteObject
  <2>1. obj' \in Resource /\ obj'.gen = obj.gen
    BY <1>1, <1>4 DEF DeleteObject, Resource
  <2>2. changes' \in 0 .. MaxChanges /\ obj'.gen <= changes' + 1
    BY <1>2, <1>4, <2>1 DEF DeleteObject
  <2>3. RunTyped'
    BY <1>4, SameRunTyped DEF DeleteObject
  <2> QED BY <1>4, <2>1, <2>2, <2>3 DEF DeleteObject, TypeOK, RunTyped, cluster, ends
<1>5. CASE ChangeSource
  <2>1. changes' \in 0 .. MaxChanges /\ obj'.gen <= changes' + 1
    BY <1>2, <1>5 DEF ChangeSource
  <2>2. RunTyped'
    BY <1>5, SameRunTyped DEF ChangeSource
  <2>3. source' \in [Sources -> 0 .. MaxVersion]
    <3>1. PICK s \in Sources, v \in {0} \cup 1 .. MaxVersion :
             source' = [source EXCEPT ![s] = v]
      BY <1>5 DEF ChangeSource
    <3>2. v \in 0 .. MaxVersion
      BY PushBoundAssumption
    <3> QED BY <3>1, <3>2 DEF TypeOK
  <2> QED BY <1>5, <2>1, <2>2, <2>3 DEF ChangeSource, TypeOK, RunTyped, work, ends
<1>6. CASE RetireStore
  <2>1. changes' \in 0 .. MaxChanges /\ obj'.gen <= changes' + 1
    BY <1>2, <1>6 DEF RetireStore
  <2>2. RunTyped'
    BY <1>6, SameRunTyped DEF RetireStore
  <2>3. store' \in [Stores -> {"used", "deleting"}]
    BY <1>6 DEF RetireStore, TypeOK
  <2> QED BY <1>6, <2>1, <2>2, <2>3 DEF RetireStore, TypeOK, RunTyped, work, ends
<1>7. CASE OtherWrites
  <2>1. changes' \in 0 .. MaxChanges /\ obj'.gen <= changes' + 1
    BY <1>2, <1>7 DEF OtherWrites
  <2>2. RunTyped'
    BY <1>7, SameRunTyped DEF OtherWrites
  <2>3. remote' \in [Stores -> [Items -> Object]]
    BY <1>7, OtherWritesFacts
  <2> QED BY <1>7, <2>1, <2>2, <2>3 DEF OtherWrites, TypeOK, RunTyped, Object, work, cluster, ends
<1>8. CASE Elapse
  <2>1. RunTyped'
    BY <1>8, SameRunTyped DEF Elapse
  <2> QED BY <1>8, <2>1 DEF Elapse, TypeOK, RunTyped, work, cluster, ends, bounds
<1>9. CASE Fire
  <2>1. RunTyped'
    BY <1>9, SameRunTyped DEF Fire
  <2> QED BY <1>9, <2>1 DEF Fire, TypeOK, RunTyped, cluster, ends, bounds
<1> QED BY <1>3, <1>4, <1>5, <1>6, <1>7, <1>8, <1>9

\* Every step keeps the types.
LEMMA NextTyped ==
    ASSUME TypeOK, [Next]_vars
    PROVE  TypeOK'
<1>1. CASE UNCHANGED vars
  <2>1. RunTyped'
    BY <1>1, SameRunTyped DEF vars
  <2> QED BY <1>1, <2>1 DEF TypeOK, RunTyped, vars
<1> QED
  BY <1>1, BeginTyped, PushTyped, DeleteTyped, EndStepTyped, WorldTyped DEF Next, Reconcile

\* Every reachable state has its type: an item is never left in Akeyless without a
\* property, whatever is pushed, deleted and written by others in between, and a reconcile
\* writes only entries it has still to push and deletes only references the status lists
\* and it has not pushed (pushsecret_controller.go:310-346, akeyless.go:519-562).
THEOREM PushTypeCorrect == Spec => []TypeOK
<1>1. Init => TypeOK
  BY InitTyped
<1>2. TypeOK /\ [Next]_vars => TypeOK'
  BY NextTyped
<1> QED BY <1>1, <1>2, PTL DEF Spec

-----------------------------------------------------------------------------
(* The value of the other writer *)

\* What OthersKept says of one step and one item.
KeepsOther(st, i) ==
    \/ OtherOf(remote'[st][i]) = OtherOf(remote[st][i])
    \/ /\ run.pc \in {"pushWrite", "deleteWrite"}
       /\ OtherOf(run.seen) # OtherOf(remote[st][i])
    \/ run.pc = "deleteWrite" /\ run.cur.prop = Whole

\* A write of a push has the value that was read.
LEMMA PushKeepsOther ==
    ASSUME TypeOK, run.pc = "pushWrite", WritePushed, NEW st \in Stores, NEW i \in Items
    PROVE  KeepsOther(st, i)
<1> DEFINE new == PushSecret(run.seen, Data, run.cur.entry)
           r == RefOf(run.cur)
<1>1. r \in Refs /\ new \in Object /\ Other \in Names
  BY PushWriteFacts, PushSpecAssumption DEF Object
<1>2. new.map[Other] = run.seen.map[Other]
  BY <1>1, PushWriteFacts
<1> HIDE DEF new, r
<1>3. remote'[st][i] = new \/ remote'[st][i] = remote[st][i]
  BY <1>1, PutFacts DEF WritePushed, TypeOK, Object, new, r
<1> QED BY <1>2, <1>3 DEF KeepsOther, OtherOf

\* So has a write of a deletion, unless it is of the whole item.
LEMMA DeleteKeepsOther ==
    ASSUME TypeOK, run.pc = "deleteWrite", Put(run.cur, DeleteSecret(run.seen, run.cur.prop)),
           NEW st \in Stores, NEW i \in Items
    PROVE  KeepsOther(st, i)
<1> DEFINE new == DeleteSecret(run.seen, run.cur.prop)
<1>1. /\ run.cur \in Refs /\ new \in Object /\ Other \in Names /\ run.seen \in Item
      /\ run.cur.prop \in RefProps /\ run.cur.prop # Other
  BY DeleteWriteFacts, PushSpecAssumption, RefFacts
<1>2. run.cur.prop # Whole => new.map[Other] = run.seen.map[Other]
  BY <1>1, DeleteFacts
<1> HIDE DEF new
<1>3. remote'[st][i] = new \/ remote'[st][i] = remote[st][i]
  BY <1>1, PutFacts DEF TypeOK, Object, new
<1> QED BY <1>2, <1>3 DEF KeepsOther, OtherOf

\* A push or a deletion leaves alone the value another writer keeps in the item, unless
\* that was written between the read and the write of the map, or the whole item is
\* deleted (akeyless.go:483-517, 540-560).
THEOREM OtherValuesAreKept == Spec => OthersKept
<1>1. ASSUME TypeOK, [Next]_vars, changes' = changes, NEW st \in Stores, NEW i \in Items
      PROVE  KeepsOther(st, i)
  <2> USE <1>1
  <2>1. CASE UNCHANGED remote
    BY <2>1 DEF KeepsOther
  <2>2. CASE PushWrite \/ PushFails
    BY <2>1, <2>2, PushKeepsOther DEF PushWrite, PushFails
  <2>3. CASE DeleteWrite \/ DeleteFails
    BY <2>1, <2>3, DeleteKeepsOther DEF DeleteWrite, DeleteFails
  <2>4. CASE OtherWrites
    <3>1. changes \in Int /\ changes' = changes + 1
      BY <2>4, PushBoundAssumption DEF OtherWrites, Change, TypeOK
    <3> QED BY <3>1
  <2> QED
    BY <2>1, <2>2, <2>3, <2>4
    DEF Next, Reconcile, vars, ReconcileGone, AddFinalizer, SkipRefresh, SourceDeleted,
        ResolveFails, NoStores, NothingSelected, StartPush, StartCleanup, PushRead,
        StartDelete, StartDeleteOf, DeleteRead, NextSecret, PushDone, SourceDone,
        RemoveFinalizer, PatchStatus, Crash, ChangeSpec, DeleteObject, ChangeSource,
        RetireStore, Elapse, Fire
<1>2. TypeOK /\ [Next]_vars =>
         [changes' = changes => \A st \in Stores, i \in Items :
            \/ OtherOf(remote'[st][i]) = OtherOf(remote[st][i])
            \/ /\ run.pc \in {"pushWrite", "deleteWrite"}
               /\ OtherOf(run.seen) # OtherOf(remote[st][i])
            \/ run.pc = "deleteWrite" /\ run.cur.prop = Whole]_vars
  BY <1>1 DEF KeepsOther
<1> QED BY <1>2, PushTypeCorrect, PTL DEF Spec, OthersKept

-----------------------------------------------------------------------------
(* What is in Akeyless and what tells of it *)

\* Every reference of M, or the whole item it is in, is one of S.
Cover(M, S) == \A m \in M : m \in S \/ [m EXCEPT !.prop = Whole] \in S

\* The item read is the item there, but for the value of the other writer.
SameButOther(seen, item) ==
    /\ seen.tagged = item.tagged /\ (seen.exists => item.exists)
    /\ \A p \in Names \ {Other} : seen.map[p] = item.map[p]

SeenInv ==
    /\ run.pc = "pushWrite" => SameButOther(run.seen, ItemAt(RefOf(run.cur)))
    /\ run.pc = "deleteWrite" => SameButOther(run.seen, ItemAt(run.cur))

\* The state kept when a deletion fails has what is pushed and what is not deleted yet.
BadInv ==
    /\ run.pc \in {"push", "pushWrite", "delete", "deleteWrite"} =>
          \A r \in run.job.out : r.store \in run.job.stores
    /\ run.pc \in {"delete", "deleteWrite"} => run.todo \cup run.job.out \subseteq run.bad

\* Should the reconcile stop here, the status and the references it has changed tell of
\* everything in the tagged items.
TouchedInv == Cover(Mine, status.synced \cup lost \cup run.touched)

\* Should it go on, the state it will keep does.
KeptInv ==
    /\ run.pc \in {"push", "pushWrite"} =>
          Cover(Mine, status.synced \cup run.job.out \cup run.job.all \cup lost)
    /\ run.pc \in {"delete", "deleteWrite"} =>
          Cover(Mine, run.todo \cup run.job.out \cup run.job.all \cup lost)
    /\ run.pc = "patch" => Cover(Mine, run.status.synced \cup lost)

\* After the clean-up nothing has to be told of.
CleanInv == cleaned => run = Idle /\ obj.state = "gone" /\ Cover(Mine, lost)

CoverInv == SeenInv /\ BadInv /\ TouchedInv /\ KeptInv /\ CleanInv

\* Less to tell of, or more that tells of it.
LEMMA CoverMono ==
    ASSUME NEW M, NEW S, Cover(M, S), NEW N \in SUBSET M, NEW T, S \subseteq T
    PROVE  Cover(N, T)
BY DEF Cover

\* Between reconciles nothing has been changed.
LEMMA IdleFacts == Idle.pc = "idle" /\ Idle.touched = {}
BY DEF Idle

\* The values that have to be told of.
LEMMA MineFacts ==
    ASSUME NEW m
    PROVE  m \in Mine <=> /\ m \in Refs /\ m.prop # Whole
                          /\ ItemAt(m).exists /\ ItemAt(m).tagged /\ ItemAt(m).map[m.prop] # 0
BY DEF Mine, Present, Deletable, SecretExists

\* The same, of the next state.
LEMMA MineFactsNext ==
    ASSUME NEW m
    PROVE  m \in Mine' <=> /\ m \in Refs /\ m.prop # Whole
                           /\ remote'[m.store][m.item].exists
                           /\ remote'[m.store][m.item].tagged
                           /\ remote'[m.store][m.item].map[m.prop] # 0
BY DEF Mine, Present, Deletable, SecretExists, ItemAt

\* They are the same while no item is written.
LEMMA SameMine ==
    ASSUME UNCHANGED remote
    PROVE  Mine' = Mine
BY DEF Mine, Present, Deletable, SecretExists, ItemAt

\* A write of the other writer adds nothing that has to be told of.
LEMMA OtherMine ==
    ASSUME TypeOK, OtherWrites
    PROVE  Mine' \subseteq Mine
<1> SUFFICES ASSUME NEW m \in Mine'
             PROVE  m \in Mine
  OBVIOUS
<1>1. /\ m \in Refs /\ m.prop # Whole /\ remote'[m.store][m.item].tagged
      /\ remote'[m.store][m.item].map[m.prop] # 0
  BY MineFactsNext
<1>2. m.store \in Stores /\ m.item \in Items /\ m.prop \in Names \ {Other}
  BY <1>1, RefFacts
<1>3. ItemAt(m).tagged /\ ItemAt(m).map[m.prop] # 0
  BY <1>1, <1>2, OtherWritesFacts DEF ItemAt
<1>4. ItemAt(m) \in Object
  BY <1>1, ItemAtType DEF TypeOK, Object
<1>5. ItemAt(m).exists
  BY <1>3, <1>4, ObjectFacts
<1> QED BY <1>1, <1>3, <1>5, MineFacts

\* What a push adds is told of by its reference.
LEMMA PushMine ==
    ASSUME TypeOK, SeenInv, run.pc = "pushWrite", WritePushed,
           NEW S, Cover(Mine, S), NEW T, S \cup {RefOf(run.cur)} \subseteq T
    PROVE  Cover(Mine', T)
<1> DEFINE r == RefOf(run.cur)
           new == PushSecret(run.seen, Data, run.cur.entry)
<1> SUFFICES ASSUME NEW m \in Mine'
             PROVE  m \in T \/ [m EXCEPT !.prop = Whole] \in T
  BY DEF Cover
<1>1. /\ m \in Refs /\ m.prop # Whole /\ remote'[m.store][m.item].tagged
      /\ remote'[m.store][m.item].exists /\ remote'[m.store][m.item].map[m.prop] # 0
  BY MineFactsNext
<1>2. m.store \in Stores /\ m.item \in Items /\ m.prop \in Names \ {Other}
  BY <1>1, RefFacts
<1>3. /\ r \in Refs /\ new \in Object /\ run.cur \in Target /\ r.prop = run.cur.entry.prop
      /\ run.seen \in Object /\ ItemAt(r) \in Object
      /\ new.tagged = (run.seen.tagged \/ ~run.seen.exists)
      /\ \A p \in Names :
            \/ new.map[p] = run.seen.map[p]
            \/ p # Other /\ new.map[p] # 0 /\ run.cur.entry.prop \in {p, Whole}
  BY PushWriteFacts, RefType DEF Object
<1>4. /\ SameButOther(run.seen, ItemAt(r)) /\ ItemAt(r).exists = run.seen.exists
      /\ Put(r, new)
  BY DEF SeenInv, WritePushed
<1> HIDE DEF r, new
<1>5. remote'[m.store][m.item] =
         IF m.store = r.store /\ m.item = r.item THEN new ELSE remote[m.store][m.item]
  BY <1>2, <1>3, <1>4, PutFacts DEF TypeOK, Object
<1>6. CASE m \in Mine
  BY <1>6 DEF Cover, r
<1>7. CASE m \notin Mine
  <2>1. m.store = r.store /\ m.item = r.item
    BY <1>1, <1>5, <1>7, MineFacts DEF ItemAt
  <2>2. r.prop \in {m.prop, Whole}
    <3>1. SUFFICES ASSUME r.prop \notin {m.prop, Whole}
                   PROVE  FALSE
      OBVIOUS
    <3>2. new.map[m.prop] = run.seen.map[m.prop] /\ new.map[m.prop] # 0 /\ new.tagged
      BY <1>1, <1>2, <1>3, <1>5, <2>1, <3>1
    <3>3. run.seen.exists
      BY <1>2, <1>3, <3>2, ObjectFacts
    <3>4. /\ ItemAt(m) = ItemAt(r) /\ ItemAt(r).exists /\ ItemAt(r).tagged
          /\ ItemAt(r).map[m.prop] # 0
      BY <1>2, <1>3, <1>4, <2>1, <3>2, <3>3 DEF SameButOther, ItemAt
    <3> QED BY <1>1, <1>7, <3>4, MineFacts
  <2>3. r = m \/ r = [m EXCEPT !.prop = Whole]
    BY <1>1, <1>3, <2>1, <2>2 DEF Refs
  <2> QED BY <2>3 DEF r
<1> QED BY <1>6, <1>7

\* What is left of an item after a deletion was there, and is not told of by the
\* reference deleted.
LEMMA DeleteMine ==
    ASSUME TypeOK, SeenInv, run.pc = "deleteWrite",
           Put(run.cur, DeleteSecret(run.seen, run.cur.prop)),
           NEW S, Cover(Mine, S), NEW T, S \ {run.cur} \subseteq T
    PROVE  Cover(Mine', T)
<1> DEFINE r == run.cur
           new == DeleteSecret(run.seen, run.cur.prop)
<1> SUFFICES ASSUME NEW m \in Mine'
             PROVE  m \in T \/ [m EXCEPT !.prop = Whole] \in T
  BY DEF Cover
<1>1. /\ m \in Refs /\ m.prop # Whole /\ remote'[m.store][m.item].tagged
      /\ remote'[m.store][m.item].exists /\ remote'[m.store][m.item].map[m.prop] # 0
  BY MineFactsNext
<1>2. m.store \in Stores /\ m.item \in Items /\ m.prop \in Names \ {Other}
  BY <1>1, RefFacts
<1>3. /\ r \in Refs /\ r.prop \in RefProps /\ new \in Object /\ run.seen \in Item
      /\ ItemAt(r) \in Object
  BY DeleteWriteFacts, RefFacts
<1>4. /\ new.tagged => run.seen.tagged
      /\ \A p \in Names : new.map[p] # 0 => p # r.prop /\ new.map[p] = run.seen.map[p]
      /\ r.prop = Whole => new = NoItem
  BY <1>3, DeleteFacts
<1>5. SameButOther(run.seen, ItemAt(r)) /\ Put(r, new)
  BY DEF SeenInv
<1> HIDE DEF r, new
<1>6. remote'[m.store][m.item] =
         IF m.store = r.store /\ m.item = r.item THEN new ELSE remote[m.store][m.item]
  BY <1>2, <1>3, <1>5, PutFacts DEF TypeOK, Object
<1>7. m \in Mine /\ m # r /\ [m EXCEPT !.prop = Whole] # r
  <2>1. CASE m.store = r.store /\ m.item = r.item
    <3>1. new.tagged /\ new.map[m.prop] # 0
      BY <1>1, <1>6, <2>1
    <3>2. /\ ItemAt(m) = ItemAt(r) /\ ItemAt(r).tagged /\ ItemAt(r).map[m.prop] # 0
          /\ m.prop # r.prop
      BY <1>2, <1>3, <1>4, <1>5, <2>1, <3>1 DEF SameButOther, ItemAt
    <3>3. ItemAt(r).exists
      BY <1>3, <3>2, ObjectFacts
    <3>4. r.prop # Whole
      BY <1>2, <1>3, <1>4, <3>1, ObjectFacts
    <3>5. [m EXCEPT !.prop = Whole].prop = Whole
      BY <1>1 DEF Refs
    <3> QED BY <1>1, <3>2, <3>3, <3>4, <3>5, MineFacts
  <2>2. CASE m.store # r.store \/ m.item # r.item
    <3>1. m \in Mine
      BY <1>1, <1>6, <2>2, MineFacts DEF ItemAt
    <3>2. /\ [m EXCEPT !.prop = Whole].store = m.store
          /\ [m EXCEPT !.prop = Whole].item = m.item
      BY <1>1 DEF Refs
    <3> QED BY <2>2, <3>1, <3>2
  <2> QED BY <2>1, <2>2
<1> QED BY <1>7 DEF Cover, r

\* Nothing is in Akeyless yet.
LEMMA InitCover ==
    ASSUME Init
    PROVE  CoverInv
<1>1. Mine = {}
  <2> SUFFICES ASSUME NEW m \in Mine
               PROVE  FALSE
    OBVIOUS
  <2>1. m \in Refs /\ ItemAt(m).exists
    BY MineFacts
  <2>2. ItemAt(m) = NoItem
    BY <2>1, RefFacts DEF Init, ItemAt
  <2> QED BY <2>1, <2>2 DEF NoItem
<1> QED
  BY <1>1, IdleFacts
  DEF Init, CoverInv, SeenInv, BadInv, TouchedInv, KeptInv, CleanInv, Cover

\* The steps that leave the items and the reconcile alone.
LEMMA StillCover ==
    ASSUME TypeOK, CoverInv, UNCHANGED <<status, run, remote, lost, cleaned>>,
           cleaned => obj' = obj
    PROVE  CoverInv'
<1>1. Mine' = Mine
  BY SameMine
<1>2. SeenInv' /\ BadInv'
  BY DEF CoverInv, SeenInv, BadInv, ItemAt
<1>3. TouchedInv' /\ KeptInv' /\ CleanInv'
  BY <1>1 DEF CoverInv, TouchedInv, KeptInv, CleanInv
<1> QED BY <1>2, <1>3 DEF CoverInv

\* The steps before the first call of the provider.
LEMMA BeginCover ==
    ASSUME TypeOK, CoverInv,
           \/ ReconcileGone \/ AddFinalizer \/ SkipRefresh \/ SourceDeleted
           \/ ResolveFails \/ NoStores \/ NothingSelected \/ StartPush \/ StartCleanup
    PROVE  CoverInv'
<1>1. run = Idle /\ run.touched = {} /\ run.pc = "idle"
  BY IdleFacts
  DEF ReconcileGone, AddFinalizer, SkipRefresh, SourceDeleted, ResolveFails, NoStores,
      NothingSelected, StartPush, StartCleanup, Proceeds
<1>2. CASE ReconcileGone
  BY <1>2, StillCover DEF ReconcileGone, ends
<1>3. CASE AddFinalizer \/ SkipRefresh \/ NoStores
  <2>1. obj.state # "gone"
    BY <1>3 DEF AddFinalizer, SkipRefresh, NoStores, Proceeds
  <2> QED
    BY <1>3, <2>1, StillCover
    DEF AddFinalizer, SkipRefresh, NoStores, ends, CoverInv, CleanInv
<1>4. ASSUME obj.state # "gone", UNCHANGED <<status, remote, cleaned>>, lost \subseteq lost',
             BadInv', KeptInv', run'.pc \notin {"pushWrite", "deleteWrite"},
             run'.touched = {}
      PROVE  CoverInv'
  <2>1. ~cleaned'
    BY <1>4 DEF CoverInv, CleanInv
  <2>2. Cover(Mine, status.synced \cup lost \cup run.touched)
    BY DEF CoverInv, TouchedInv
  <2>3. TouchedInv'
    BY <1>1, <1>4, <2>2, SameMine, CoverMono DEF TouchedInv
  <2>4. SeenInv'
    BY <1>4 DEF SeenInv
  <2> QED BY <1>4, <2>1, <2>3, <2>4 DEF CoverInv, CleanInv
<1>5. Mine' = Mine
  BY SameMine
  DEF ReconcileGone, AddFinalizer, SkipRefresh, SourceDeleted, ResolveFails, NoStores,
      NothingSelected, StartPush, StartCleanup
<1>6. Cover(Mine, status.synced \cup lost)
  BY <1>1 DEF CoverInv, TouchedInv
<1>7. CASE SourceDeleted \/ StartCleanup
  <2>1. PICK why \in {"source", "cleanup"} : run' = DeleteAll(why)
    BY <1>7 DEF SourceDeleted, StartCleanup
  <2>2. /\ run'.pc = "delete" /\ run'.todo = status.synced /\ run'.bad = status.synced
        /\ run'.job = NoJob /\ run'.touched = {}
    BY <2>1 DEF DeleteAll
  <2>3. obj.state # "gone" /\ UNCHANGED <<status, remote, lost, cleaned>>
    BY <1>7 DEF SourceDeleted, StartCleanup, Proceeds, ends
  <2>4. BadInv'
    BY <2>2, NoJobFacts DEF BadInv
  <2>5. KeptInv'
    BY <1>5, <1>6, <2>2, <2>3, NoJobFacts DEF KeptInv
  <2> QED BY <1>4, <2>2, <2>3, <2>4, <2>5
<1>8. CASE ResolveFails \/ NothingSelected
  <2>1. PICK st, again, after : run' = Patch(st, again, after, {})
                             /\ status.synced \cup lost = st.synced \cup lost'
    <3>1. CASE ResolveFails
      <4> DEFINE failed == markAsFailed(status.synced)
      <4>1. run' = Patch(failed, TRUE, FALSE, {}) /\ lost' = lost
        BY <3>1 DEF ResolveFails
      <4>2. failed.synced = status.synced
        BY FailedType DEF TypeOK, Status
      <4> HIDE DEF failed
      <4> QED BY <4>1, <4>2
    <3>2. CASE NothingSelected
      <4> DEFINE none == [synced |-> {}, ready |-> "true", rv |-> obj.gen]
      <4>1. run' = Patch(none, FALSE, obj.spec.interval, {}) /\ lost' = lost \cup status.synced
        BY <3>2 DEF NothingSelected
      <4>2. none.synced = {}
        OBVIOUS
      <4> HIDE DEF none
      <4> QED BY <4>1, <4>2
    <3> QED BY <1>8, <3>1, <3>2
  <2>2. run'.pc = "patch" /\ run'.touched = {} /\ run'.status = st
    BY <2>1 DEF Patch
  <2>3. obj.state # "gone" /\ UNCHANGED <<status, remote, cleaned>> /\ lost \subseteq lost'
    BY <1>8 DEF ResolveFails, NothingSelected, Proceeds, ends
  <2>4. BadInv' /\ KeptInv'
    BY <1>5, <1>6, <2>1, <2>2 DEF BadInv, KeptInv
  <2> QED BY <1>4, <2>2, <2>3, <2>4
<1>9. CASE StartPush
  <2>1. run'.pc = "push" /\ run'.touched = {} /\ run'.job.out = {} /\ run'.job.all = {}
    BY <1>9 DEF StartPush
  <2>2. obj.state # "gone" /\ UNCHANGED <<status, remote, lost, cleaned>>
    BY <1>9 DEF StartPush, Proceeds
  <2>3. BadInv' /\ KeptInv'
    BY <1>5, <1>6, <2>1, <2>2 DEF BadInv, KeptInv
  <2> QED BY <1>4, <2>1, <2>2, <2>3
<1> QED BY <1>2, <1>3, <1>7, <1>8, <1>9

\* PushSecretToProviders.
LEMMA PushCover ==
    ASSUME TypeOK, CoverInv, PushRead \/ PushWrite \/ PushFails
    PROVE  CoverInv'
<1>1. run.pc \in {"push", "pushWrite"} /\ UNCHANGED <<status, cleaned, obj>>
  BY DEF PushRead, PushWrite, PushFails, ends
<1>2. /\ run.job \in Job /\ run.todo \subseteq Target /\ run.touched \subseteq Refs
      /\ run.todo \subseteq Targets(run.job.spec, run.job.secret, run.job.stores)
  BY <1>1, PhaseFacts DEF TypeOK, Pushing, PushWriting, RunOK
<1> DEFINE A == status.synced \cup lost \cup run.touched
           B == status.synced \cup run.job.out \cup run.job.all \cup lost
<1>3. Cover(Mine, A) /\ Cover(Mine, B)
  BY <1>1 DEF CoverInv, TouchedInv, KeptInv
<1>4. CleanInv'
  <2>1. ~cleaned
    BY <1>1, IdleFacts DEF CoverInv, CleanInv
  <2> QED BY <1>1, <2>1 DEF CleanInv
<1>5. \A r \in run.job.out : r.store \in run.job.stores
  BY <1>1 DEF CoverInv, BadInv
<1>6. ASSUME NEW t \in run.todo, NEW written \in SUBSET Refs, run' = Pushed(t, written)
      PROVE  /\ run'.pc = "push" /\ run'.touched = run.touched \cup written
             /\ run'.job.out = run.job.out \cup {RefOf(t)} /\ run'.job.all = run.job.all
             /\ BadInv' /\ SeenInv'
  <2>1. /\ run'.pc = "push" /\ run'.touched = run.touched \cup written
        /\ run'.job = [run.job EXCEPT !.out = run.job.out \cup {RefOf(t)}]
    BY <1>1, <1>2, <1>6, PushedTyped
  <2>2. /\ run'.job.out = run.job.out \cup {RefOf(t)} /\ run'.job.all = run.job.all
        /\ run'.job.stores = run.job.stores
    BY <1>2, <2>1 DEF Job
  <2>3. RefOf(t).store \in run.job.stores
    BY <1>2 DEF RefOf, Targets
  <2>4. BadInv'
    BY <1>5, <2>1, <2>2, <2>3 DEF BadInv
  <2>5. SeenInv'
    BY <2>1 DEF SeenInv
  <2> QED BY <2>1, <2>2, <2>4, <2>5
<1>7. CASE PushRead
  <2>1. PICK t \in run.todo :
           \/ run' = Pushed(t, {})
           \/ run' = [pc |-> "pushWrite", job |-> run.job, todo |-> run.todo,
                      touched |-> run.touched, cur |-> t, seen |-> ItemAt(RefOf(t))]
    BY <1>7 DEF PushRead
  <2>2. Mine' = Mine /\ lost' = lost /\ UNCHANGED remote
    BY <1>7, SameMine DEF PushRead
  <2> DEFINE B1 == status.synced \cup (run.job.out \cup {RefOf(t)}) \cup run.job.all \cup lost
  <2>3. Cover(Mine, B1)
    BY <1>3, CoverMono
  <2>4. CASE run' = Pushed(t, {})
    <3>1. /\ run'.pc = "push" /\ run'.touched = run.touched
          /\ run'.job.out = run.job.out \cup {RefOf(t)} /\ run'.job.all = run.job.all
          /\ BadInv' /\ SeenInv'
      <4>1. {} \in SUBSET Refs
        OBVIOUS
      <4> QED BY <1>6, <2>4, <4>1
    <3>2. TouchedInv' /\ KeptInv'
      BY <1>1, <1>3, <2>2, <2>3, <3>1 DEF TouchedInv, KeptInv
    <3> QED BY <1>4, <3>1, <3>2 DEF CoverInv
  <2>5. CASE run' # Pushed(t, {})
    <3>1. run' = [pc |-> "pushWrite", job |-> run.job, todo |-> run.todo,
                  touched |-> run.touched, cur |-> t, seen |-> ItemAt(RefOf(t))]
      BY <2>1, <2>5
    <3>2. TouchedInv' /\ KeptInv'
      BY <1>1, <1>3, <2>2, <3>1 DEF TouchedInv, KeptInv
    <3>3. BadInv'
      BY <1>5, <3>1 DEF BadInv
    <3>4. SeenInv'
      BY <2>2, <3>1 DEF SeenInv, SameButOther, ItemAt, RefOf
    <3> QED BY <1>4, <3>2, <3>3, <3>4 DEF CoverInv
  <2> QED BY <2>4, <2>5
<1>8. CASE PushWrite
  <2> DEFINE r == RefOf(run.cur)
  <2>1. run.pc = "pushWrite" /\ WritePushed /\ run' = Pushed(run.cur, {r}) /\ lost' = lost
    BY <1>8 DEF PushWrite
  <2>2. run.cur \in run.todo /\ r \in Refs
    BY <2>1, PushWriteFacts
  <2>3. /\ run'.pc = "push" /\ run'.touched = run.touched \cup {r}
        /\ run'.job.out = run.job.out \cup {r} /\ run'.job.all = run.job.all
        /\ BadInv' /\ SeenInv'
    <3>1. {r} \in SUBSET Refs
      BY <2>2
    <3> QED BY <1>6, <2>1, <2>2, <3>1
  <2>4. /\ Cover(Mine', status.synced \cup lost \cup (run.touched \cup {r}))
        /\ Cover(Mine', status.synced \cup (run.job.out \cup {r}) \cup run.job.all \cup lost)
    <3>1. SeenInv
      BY DEF CoverInv
    <3>2. /\ A \cup {r} \subseteq status.synced \cup lost \cup (run.touched \cup {r})
          /\ B \cup {r} \subseteq
                status.synced \cup (run.job.out \cup {r}) \cup run.job.all \cup lost
      OBVIOUS
    <3> HIDE DEF A, B
    <3> QED BY <1>3, <2>1, <3>1, <3>2, PushMine
  <2>5. TouchedInv' /\ KeptInv'
    BY <1>1, <2>1, <2>3, <2>4 DEF TouchedInv, KeptInv
  <2> QED BY <1>4, <2>3, <2>5 DEF CoverInv
<1>9. CASE PushFails
  <2> DEFINE st == markAsFailed(mergeSecretState(run.job.out, status.synced))
  <2>1. run' = Patch(st, TRUE, FALSE, run.touched)
    BY <1>9 DEF PushFails
  <2>2. st.synced = run.job.out \cup status.synced
    <3>1. run.job.out \cup status.synced \in SUBSET Refs
      BY <1>2, JobFacts DEF TypeOK, Status
    <3> QED BY <3>1, FailedType DEF mergeSecretState, TypeOK
  <2> HIDE DEF st
  <2>3. run'.pc = "patch" /\ run'.touched = run.touched /\ run'.status = st
    BY <2>1 DEF Patch
  <2>4. SeenInv' /\ BadInv'
    BY <2>3 DEF SeenInv, BadInv
  <2>5. /\ Cover(Mine', status.synced \cup lost' \cup run.touched)
        /\ Cover(Mine', (run.job.out \cup status.synced) \cup lost')
    <3>1. CASE UNCHANGED remote /\ lost' = lost \cup run.job.all
      <4>1. Mine' = Mine
        BY <3>1, SameMine
      <4>2. /\ A \subseteq status.synced \cup lost' \cup run.touched
            /\ B \subseteq (run.job.out \cup status.synced) \cup lost'
        BY <3>1
      <4> HIDE DEF A, B
      <4> QED BY <1>3, <4>1, <4>2, CoverMono
    <3>2. CASE /\ run.pc = "pushWrite" /\ WritePushed
               /\ lost' = lost \cup run.job.all \cup {RefOf(run.cur)}
      <4>1. SeenInv
        BY DEF CoverInv
      <4>2. /\ A \cup {RefOf(run.cur)} \subseteq status.synced \cup lost' \cup run.touched
            /\ B \cup {RefOf(run.cur)} \subseteq (run.job.out \cup status.synced) \cup lost'
        BY <3>2
      <4> HIDE DEF A, B
      <4> QED BY <1>3, <3>2, <4>1, <4>2, PushMine
    <3> QED BY <1>9, <3>1, <3>2 DEF PushFails
  <2>6. TouchedInv' /\ KeptInv'
    BY <1>1, <2>2, <2>3, <2>5 DEF TouchedInv, KeptInv
  <2> QED BY <1>4, <2>4, <2>6 DEF CoverInv
<1> QED BY <1>7, <1>8, <1>9

\* An item the provider may not delete has nothing that has to be told of.
LEMMA UntaggedMine ==
    ASSUME NEW r \in Refs, ~Deletable(ItemAt(r)), NEW S, Cover(Mine, S),
           NEW T, S \ {r} \subseteq T
    PROVE  Cover(Mine, T)
<1> SUFFICES ASSUME NEW m \in Mine
             PROVE  m \in T \/ [m EXCEPT !.prop = Whole] \in T
  BY DEF Cover
<1>1. m \in Refs /\ ItemAt(m).exists /\ ItemAt(m).tagged
  BY MineFacts
<1>2. /\ [m EXCEPT !.prop = Whole].store = m.store
      /\ [m EXCEPT !.prop = Whole].item = m.item
  BY <1>1 DEF Refs
<1>3. m # r /\ [m EXCEPT !.prop = Whole] # r
  BY <1>1, <1>2 DEF ItemAt, Deletable
<1> QED BY <1>3 DEF Cover

\* A reference that is deleted or passed over leaves the state that a failure keeps.
LEMMA DeletedCover ==
    ASSUME TypeOK, CoverInv, run.pc \in {"delete", "deleteWrite"},
           NEW r \in run.todo, NEW written \in SUBSET Refs,
           run' = Deleted(r, written), UNCHANGED <<status, cleaned>>
    PROVE  /\ run'.pc = "delete" /\ run'.todo = run.todo \ {r} /\ run'.job = run.job
           /\ run'.touched = run.touched \cup written
           /\ BadInv' /\ SeenInv' /\ CleanInv'
<1>1. run.todo \subseteq status.synced \ run.job.out /\ r \in Refs
  BY DEF TypeOK, RunOK, Status
<1>2. /\ run'.pc = "delete" /\ run'.todo = run.todo \ {r} /\ run'.job = run.job
      /\ run'.touched = run.touched \cup written
      /\ \A q \in run.bad \ run'.bad :
            q = r \/ (q.store \notin run.job.stores /\ q \notin run'.todo)
  BY <1>1, DeletedTyped
<1>3. /\ \A q \in run.job.out : q.store \in run.job.stores
      /\ run.todo \cup run.job.out \subseteq run.bad
  BY DEF CoverInv, BadInv
<1>4. run'.todo \cup run'.job.out \subseteq run'.bad
  BY <1>1, <1>2, <1>3
<1>5. BadInv'
  BY <1>2, <1>3, <1>4 DEF BadInv
<1>6. SeenInv'
  BY <1>2 DEF SeenInv
<1>7. CleanInv'
  BY IdleFacts DEF CoverInv, CleanInv
<1> QED BY <1>2, <1>5, <1>6, <1>7

\* DeleteSecretFromProviders.
LEMMA DeleteCover ==
    ASSUME TypeOK, CoverInv, StartDelete \/ DeleteRead \/ DeleteWrite \/ DeleteFails
    PROVE  CoverInv'
<1>1. UNCHANGED <<status, cleaned, obj>> /\ run.pc # "idle"
  BY DEF StartDelete, StartDeleteOf, DeleteRead, DeleteWrite, DeleteFails, ends
<1>2. CleanInv'
  <2>1. ~cleaned
    BY <1>1, IdleFacts DEF CoverInv, CleanInv
  <2> QED BY <1>1, <2>1 DEF CleanInv
<1> DEFINE A == status.synced \cup lost \cup run.touched
           B == run.todo \cup run.job.out \cup run.job.all \cup lost
<1>3. Cover(Mine, A)
  BY DEF CoverInv, TouchedInv
<1>4. CASE StartDelete
  <2>1. /\ run.pc = "push" /\ UNCHANGED <<remote, lost>>
        /\ run' = [pc |-> "delete", why |-> "push", job |-> run.job,
                   todo |-> status.synced \ run.job.out,
                   bad |-> run.job.out \cup status.synced, touched |-> run.touched]
    BY <1>4 DEF StartDelete, StartDeleteOf, mergeSecretState
  <2>2. Mine' = Mine
    BY <2>1, SameMine
  <2>3. Cover(Mine, status.synced \cup run.job.out \cup run.job.all \cup lost)
    BY <2>1 DEF CoverInv, KeptInv
  <2>4. Cover(Mine, (status.synced \ run.job.out) \cup run.job.out \cup run.job.all \cup lost)
    BY <2>3, CoverMono
  <2>5. TouchedInv' /\ KeptInv'
    BY <1>1, <1>3, <2>1, <2>2, <2>4 DEF TouchedInv, KeptInv
  <2>6. BadInv' /\ SeenInv'
    BY <2>1 DEF CoverInv, BadInv, SeenInv
  <2> QED BY <1>2, <2>5, <2>6 DEF CoverInv
<1>5. ASSUME run.pc \in {"delete", "deleteWrite"}
      PROVE  Cover(Mine, B)
  BY <1>5 DEF CoverInv, KeptInv
<1>6. ASSUME run.pc \in {"delete", "deleteWrite"}, NEW r \in run.todo,
             NEW written \in SUBSET Refs, run' = Deleted(r, written),
             Cover(Mine', status.synced \cup lost' \cup (run.touched \cup written)),
             Cover(Mine', (run.todo \ {r}) \cup run.job.out \cup run.job.all \cup lost')
      PROVE  CoverInv'
  <2>1. /\ run'.pc = "delete" /\ run'.todo = run.todo \ {r} /\ run'.job = run.job
        /\ run'.touched = run.touched \cup written
        /\ BadInv' /\ SeenInv'
    BY <1>1, <1>6, DeletedCover
  <2>2. TouchedInv' /\ KeptInv'
    BY <1>1, <1>6, <2>1 DEF TouchedInv, KeptInv
  <2> QED BY <1>2, <2>1, <2>2 DEF CoverInv
<1>7. CASE DeleteRead
  <2>1. PICK r \in run.todo :
           \/ ~Deletable(ItemAt(r)) /\ run' = Deleted(r, {}) /\ lost' = lost
           \/ /\ run' = [pc |-> "deleteWrite", why |-> run.why, job |-> run.job,
                         todo |-> run.todo, bad |-> run.bad, touched |-> run.touched,
                         cur |-> r, seen |-> ItemAt(r)]
              /\ lost' = lost
           \/ run' = Deleted(r, {}) /\ lost' = lost \cup {r}
    BY <1>7 DEF DeleteRead
  <2>2. run.pc = "delete" /\ UNCHANGED remote
    BY <1>7 DEF DeleteRead
  <2>3. Mine' = Mine /\ Cover(Mine, B) /\ {} \in SUBSET Refs
    BY <1>5, <2>2, SameMine
  <2>4. r \in Refs
    BY <2>2 DEF TypeOK, RunOK, Status
  <2>5. CASE ~Deletable(ItemAt(r)) /\ run' = Deleted(r, {}) /\ lost' = lost
    <3>1. B \ {r} \subseteq (run.todo \ {r}) \cup run.job.out \cup run.job.all \cup lost
      OBVIOUS
    <3> HIDE DEF B
    <3>2. Cover(Mine', (run.todo \ {r}) \cup run.job.out \cup run.job.all \cup lost')
      BY <2>3, <2>4, <2>5, <3>1, UntaggedMine
    <3>3. Cover(Mine', status.synced \cup lost' \cup (run.touched \cup {}))
      BY <1>3, <2>3, <2>5, CoverMono
    <3> QED BY <1>6, <2>2, <2>3, <2>5, <3>2, <3>3
  <2>6. CASE /\ run' = [pc |-> "deleteWrite", why |-> run.why, job |-> run.job,
                        todo |-> run.todo, bad |-> run.bad, touched |-> run.touched,
                        cur |-> r, seen |-> ItemAt(r)]
             /\ lost' = lost
    <3>1. TouchedInv' /\ KeptInv'
      BY <1>1, <1>3, <2>3, <2>6 DEF TouchedInv, KeptInv
    <3>2. BadInv'
      BY <2>2, <2>6 DEF CoverInv, BadInv
    <3>3. SeenInv'
      BY <2>2, <2>6 DEF SeenInv, SameButOther, ItemAt
    <3> QED BY <1>2, <3>1, <3>2, <3>3 DEF CoverInv
  <2>7. CASE run' = Deleted(r, {}) /\ lost' = lost \cup {r}
    <3>1. /\ B \subseteq (run.todo \ {r}) \cup run.job.out \cup run.job.all \cup lost'
          /\ A \subseteq status.synced \cup lost' \cup (run.touched \cup {})
      BY <2>7
    <3> HIDE DEF A, B
    <3>2. /\ Cover(Mine', (run.todo \ {r}) \cup run.job.out \cup run.job.all \cup lost')
          /\ Cover(Mine', status.synced \cup lost' \cup (run.touched \cup {}))
      BY <1>3, <2>3, <3>1, CoverMono
    <3> QED BY <1>6, <2>2, <2>3, <2>7, <3>2
  <2> QED BY <2>1, <2>5, <2>6, <2>7
<1>8. CASE DeleteWrite
  <2>1. /\ run.pc = "deleteWrite" /\ Put(run.cur, DeleteSecret(run.seen, run.cur.prop))
        /\ run' = Deleted(run.cur, {run.cur}) /\ lost' = lost
    BY <1>8 DEF DeleteWrite
  <2>2. run.cur \in run.todo /\ {run.cur} \in SUBSET Refs
    BY <2>1, DeleteWriteFacts
  <2>3. SeenInv /\ Cover(Mine, B)
    BY <1>5, <2>1 DEF CoverInv
  <2>4. /\ A \ {run.cur} \subseteq status.synced \cup lost' \cup (run.touched \cup {run.cur})
        /\ B \ {run.cur} \subseteq
              (run.todo \ {run.cur}) \cup run.job.out \cup run.job.all \cup lost'
    BY <2>1
  <2> HIDE DEF A, B
  <2>5. /\ Cover(Mine', status.synced \cup lost' \cup (run.touched \cup {run.cur}))
        /\ Cover(Mine', (run.todo \ {run.cur}) \cup run.job.out \cup run.job.all \cup lost')
    BY <1>3, <2>1, <2>3, <2>4, DeleteMine
  <2> QED BY <1>6, <2>1, <2>2, <2>5
<1>9. CASE DeleteFails
  <2> DEFINE st == markAsFailed(run.bad)
             more == IF remote' = remote THEN {} ELSE {run.cur}
  <2>1. /\ run' = Patch(st, TRUE, FALSE, run.touched \cup more)
        /\ run.pc \in {"delete", "deleteWrite"} /\ lost' = lost \cup run.job.all
    BY <1>9 DEF DeleteFails
  <2>2. st.synced = run.bad
    <3>1. run.bad \in SUBSET Refs
      BY <2>1, PhaseFacts DEF TypeOK, Deleting, DeleteWriting
    <3> QED BY <3>1, FailedType DEF TypeOK
  <2> HIDE DEF st
  <2>3. run'.pc = "patch" /\ run'.touched = run.touched \cup more /\ run'.status = st
    BY <2>1 DEF Patch
  <2>4. SeenInv' /\ BadInv'
    BY <2>3 DEF SeenInv, BadInv
  <2>5. run.todo \cup run.job.out \subseteq run.bad
    BY <2>1 DEF CoverInv, BadInv
  <2>6. Cover(Mine, B)
    BY <1>5, <2>1
  <2>7. /\ Cover(Mine', status.synced \cup lost' \cup (run.touched \cup more))
        /\ Cover(Mine', run.bad \cup lost')
    <3>1. B \subseteq run.bad \cup lost'
      BY <2>1, <2>5
    <3>2. CASE UNCHANGED remote
      <4>1. A \subseteq status.synced \cup lost' \cup (run.touched \cup more)
        BY <2>1
      <4> HIDE DEF A, B
      <4> QED BY <1>3, <2>6, <3>1, <3>2, <4>1, SameMine, CoverMono
    <3>3. CASE /\ remote' # remote /\ run.pc = "deleteWrite"
               /\ Put(run.cur, DeleteSecret(run.seen, run.cur.prop))
      <4>1. SeenInv
        BY DEF CoverInv
      <4>2. /\ A \ {run.cur} \subseteq status.synced \cup lost' \cup (run.touched \cup more)
            /\ B \ {run.cur} \subseteq run.bad \cup lost'
        BY <2>1, <3>1
      <4> HIDE DEF A, B
      <4> QED BY <1>3, <2>6, <3>3, <4>1, <4>2, DeleteMine
    <3> QED BY <1>9, <3>2, <3>3 DEF DeleteFails
  <2>8. TouchedInv' /\ KeptInv'
    BY <1>1, <2>2, <2>3, <2>7 DEF TouchedInv, KeptInv
  <2> QED BY <1>2, <2>4, <2>8 DEF CoverInv
<1> QED BY <1>4, <1>7, <1>8, <1>9

\* A patch of the status drops from the history what the status lists and what is not in
\* Akeyless any more: nothing that is there.
LEMMA PresentCover ==
    ASSUME NEW S, NEW L, Cover(Mine, S \cup L)
    PROVE  Cover(Mine, S \cup ((L \ S) \cap Present))
<1> SUFFICES ASSUME NEW m \in Mine
             PROVE  LET T == S \cup ((L \ S) \cap Present)
                    IN  m \in T \/ [m EXCEPT !.prop = Whole] \in T
  BY DEF Cover
<1> DEFINE w == [m EXCEPT !.prop = Whole]
<1>1. m \in Refs /\ m \in Present /\ ItemAt(m).exists /\ ItemAt(m).tagged
  BY MineFacts DEF Mine
<1>2. w \in Refs /\ w.store = m.store /\ w.item = m.item /\ w.prop = Whole
  BY <1>1 DEF Refs, RefProps
<1>3. w \in Present
  BY <1>1, <1>2 DEF Present, Deletable, SecretExists, ItemAt
<1>4. m \in S \cup L \/ w \in S \cup L
  BY DEF Cover
<1> HIDE DEF w
<1>5. m \in S \cup ((L \ S) \cap Present) \/ w \in S \cup ((L \ S) \cap Present)
  BY <1>1, <1>3, <1>4
<1> QED BY <1>5 DEF w

\* A reconcile that ends or stops tells of everything it has changed.
LEMMA StopCover ==
    ASSUME CoverInv, UNCHANGED <<status, remote, cleaned, obj>>, run' = Idle,
           lost' = lost \cup run.touched
    PROVE  CoverInv'
<1>1. Mine' = Mine
  BY SameMine
<1>2. run'.pc = "idle" /\ run'.touched = {}
  BY IdleFacts
<1>3. Cover(Mine, status.synced \cup lost \cup run.touched)
  BY DEF CoverInv, TouchedInv
<1>4. TouchedInv'
  BY <1>1, <1>2, <1>3, CoverMono DEF TouchedInv
<1>5. SeenInv' /\ BadInv' /\ KeptInv'
  BY <1>2 DEF SeenInv, BadInv, KeptInv
<1>6. CleanInv'
  <2> SUFFICES ASSUME cleaned
               PROVE  obj.state = "gone" /\ Cover(Mine, lost')
    BY <1>1 DEF CleanInv
  <2>1. obj.state = "gone" /\ Cover(Mine, lost) /\ run.touched = {}
    BY IdleFacts DEF CoverInv, CleanInv
  <2> QED BY <2>1
<1> QED BY <1>4, <1>5, <1>6 DEF CoverInv

\* The end of a reconcile.
LEMMA EndCover ==
    ASSUME TypeOK, CoverInv,
           \/ NextSecret \/ PushDone \/ SourceDone \/ RemoveFinalizer \/ PatchStatus
    PROVE  CoverInv'
<1>1. run.pc # "idle" /\ UNCHANGED remote
  BY DEF NextSecret, PushDone, SourceDone, RemoveFinalizer, PatchStatus, SecretDone
<1>2. ~cleaned
  BY <1>1, IdleFacts DEF CoverInv, CleanInv
<1>3. Mine' = Mine /\ Cover(Mine, status.synced \cup lost \cup run.touched)
  BY <1>1, SameMine DEF CoverInv, TouchedInv
<1>4. ASSUME SecretDone
      PROVE  Cover(Mine, status.synced \cup run.job.out \cup run.job.all \cup lost)
  <2>1. CASE run.pc = "push"
    BY <2>1 DEF CoverInv, KeptInv
  <2>2. CASE run.pc = "delete"
    <3>1. Cover(Mine, run.todo \cup run.job.out \cup run.job.all \cup lost) /\ run.todo = {}
      BY <1>4, <2>2, SecretDoneFacts DEF CoverInv, KeptInv
    <3> QED BY <3>1, CoverMono
  <2> QED BY <1>4, <2>1, <2>2, SecretDoneFacts
<1>5. CASE NextSecret
  <2>1. SecretDone /\ UNCHANGED <<status, lost, cleaned>>
    BY <1>5 DEF NextSecret, ends
  <2>2. /\ run'.pc = "push" /\ run'.touched = run.touched /\ run'.job.out = {}
        /\ run'.job.all = run.job.all \cup run.job.out
    BY <1>5, NextSecretFacts
  <2>3. Cover(Mine, status.synced \cup {} \cup (run.job.all \cup run.job.out) \cup lost)
    BY <1>4, <2>1, CoverMono
  <2>4. TouchedInv' /\ KeptInv'
    BY <1>3, <2>1, <2>2, <2>3 DEF TouchedInv, KeptInv
  <2>5. SeenInv' /\ BadInv' /\ CleanInv'
    BY <1>2, <2>1, <2>2 DEF SeenInv, BadInv, CleanInv
  <2> QED BY <2>4, <2>5 DEF CoverInv
<1>6. ASSUME NEW st, NEW again, NEW after, run' = Patch(st, again, after, run.touched),
             UNCHANGED <<status, cleaned>>, lost \subseteq lost',
             Cover(Mine, st.synced \cup lost')
      PROVE  CoverInv'
  <2>1. run'.pc = "patch" /\ run'.status = st /\ run'.touched = run.touched
    BY <1>6 DEF Patch
  <2>2. TouchedInv'
    BY <1>3, <1>6, <2>1, CoverMono DEF TouchedInv
  <2>3. KeptInv'
    BY <1>3, <1>6, <2>1 DEF KeptInv
  <2>4. SeenInv' /\ BadInv' /\ CleanInv'
    BY <1>2, <1>6, <2>1 DEF SeenInv, BadInv, CleanInv
  <2> QED BY <2>2, <2>3, <2>4 DEF CoverInv
<1>7. CASE PushDone
  <2> DEFINE synced == run.job.all \cup run.job.out
             st == [synced |-> synced, ready |-> "true", rv |-> run.job.gen]
             interval == run.job.spec.interval
  <2>1. /\ SecretDone /\ run' = Patch(st, FALSE, interval, run.touched)
        /\ lost' = IF run.job.spec.policy = "Delete" THEN lost
                   ELSE lost \cup (status.synced \ synced)
        /\ UNCHANGED <<status, cleaned>>
    BY <1>7 DEF PushDone, mergeSecretState, Forget, ends
  <2>2. Cover(Mine, st.synced \cup lost')
    <3>1. CASE run.job.spec.policy = "Delete"
      <4>1. run.pc = "delete" /\ run.todo = {}
        BY <2>1, <3>1, SecretDoneFacts
      <4>2. Cover(Mine, run.todo \cup run.job.out \cup run.job.all \cup lost)
        BY <4>1 DEF CoverInv, KeptInv
      <4>3. run.todo \cup run.job.out \cup run.job.all \cup lost \subseteq st.synced \cup lost'
        BY <2>1, <3>1, <4>1
      <4> QED BY <4>2, <4>3, CoverMono
    <3>2. CASE run.job.spec.policy # "Delete"
      <4>1. status.synced \cup run.job.out \cup run.job.all \cup lost
               \subseteq st.synced \cup lost'
        BY <2>1, <3>2
      <4> QED BY <1>4, <2>1, <4>1, CoverMono
    <3> QED BY <3>1, <3>2
  <2>3. lost \subseteq lost'
    BY <2>1
  <2> HIDE DEF st, interval
  <2> QED BY <1>6, <2>1, <2>2, <2>3
<1>8. ASSUME run.pc = "delete", run.todo = {}, run.why # "push"
      PROVE  Cover(Mine, lost)
  <2>1. run.job.out = {} /\ run.job.all = {}
    BY <1>8, NoJobFacts DEF TypeOK, RunOK
  <2>2. Cover(Mine, run.todo \cup run.job.out \cup run.job.all \cup lost)
    BY <1>8 DEF CoverInv, KeptInv
  <2> QED BY <1>8, <2>1, <2>2
<1>9. CASE SourceDone
  <2> DEFINE st == [status EXCEPT !.synced = {}, !.ready = "sourceDeleted"]
  <2>1. /\ run' = Patch(st, FALSE, FALSE, run.touched) /\ UNCHANGED <<status, cleaned, lost>>
    BY <1>9 DEF SourceDone
  <2>2. Cover(Mine, lost)
    BY <1>8, <1>9 DEF SourceDone
  <2>3. Cover(Mine, st.synced \cup lost')
    BY <2>1, <2>2, CoverMono
  <2> HIDE DEF st
  <2> QED BY <1>6, <2>1, <2>3
<1>10. CASE RemoveFinalizer
  <2>1. Cover(Mine, lost) /\ UNCHANGED <<status, lost>>
    BY <1>8, <1>10 DEF RemoveFinalizer
  <2>2. CASE run' = Idle /\ obj' = [obj EXCEPT !.state = "gone", !.fin = FALSE]
    <3>1. run'.pc = "idle" /\ run'.touched = {} /\ obj'.state = "gone"
      BY <2>2, IdleFacts DEF TypeOK, Resource
    <3>2. TouchedInv'
      BY <1>3, <2>1, <3>1, CoverMono DEF TouchedInv
    <3>3. SeenInv' /\ BadInv' /\ KeptInv'
      BY <3>1 DEF SeenInv, BadInv, KeptInv
    <3>4. CleanInv'
      BY <1>3, <2>1, <2>2, <3>1 DEF CleanInv
    <3> QED BY <3>2, <3>3, <3>4 DEF CoverInv
  <2>3. CASE run' = Patch(status, TRUE, FALSE, run.touched) /\ UNCHANGED cleaned
    <3>1. Cover(Mine, status.synced \cup lost')
      BY <2>1, CoverMono
    <3> QED BY <1>6, <2>1, <2>3, <3>1
  <2> QED BY <1>10, <2>2, <2>3 DEF RemoveFinalizer
<1>11. CASE PatchStatus
  <2>1. run.pc = "patch" /\ run' = Idle /\ UNCHANGED <<cleaned, obj>>
    BY <1>11 DEF PatchStatus, ends
  <2>2. CASE lost' = lost \cup run.touched /\ UNCHANGED status
    BY <1>1, <2>1, <2>2, StopCover
  <2>3. CASE status' = run.status /\ lost' = (lost \ status'.synced) \cap Present
    <3>1. Cover(Mine, run.status.synced \cup lost)
      BY <2>1 DEF CoverInv, KeptInv
    <3>2. Cover(Mine', status'.synced \cup lost')
      BY <1>3, <2>3, <3>1, PresentCover
    <3>3. run'.pc = "idle" /\ run'.touched = {}
      BY <2>1, IdleFacts
    <3>4. TouchedInv'
      BY <3>2, <3>3 DEF TouchedInv
    <3>5. SeenInv' /\ BadInv' /\ KeptInv' /\ CleanInv'
      BY <1>2, <2>1, <3>3 DEF SeenInv, BadInv, KeptInv, CleanInv
    <3> QED BY <3>4, <3>5 DEF CoverInv
  <2> QED BY <1>11, <2>2, <2>3 DEF PatchStatus
<1> QED BY <1>5, <1>7, <1>9, <1>10, <1>11

\* The other writer.
LEMMA OtherCover ==
    ASSUME TypeOK, CoverInv, OtherWrites
    PROVE  CoverInv'
<1>1. UNCHANGED <<status, run, lost, cleaned, obj>>
  BY DEF OtherWrites, ends
<1>2. \A S : Cover(Mine, S) => Cover(Mine', S)
  BY OtherMine DEF Cover
<1>3. TouchedInv' /\ KeptInv' /\ CleanInv' /\ BadInv'
  BY <1>1, <1>2 DEF CoverInv, TouchedInv, KeptInv, CleanInv, BadInv
<1>4. ASSUME NEW r \in Refs, NEW seen, SameButOther(seen, ItemAt(r))
      PROVE  SameButOther(seen, remote'[r.store][r.item])
  <2>1. r.store \in Stores /\ r.item \in Items
    BY RefFacts
  <2> QED BY <1>4, <2>1, OtherWritesFacts DEF SameButOther, ItemAt
<1>5. SeenInv'
  <2>1. ASSUME run.pc = "pushWrite"
        PROVE  SameButOther(run.seen, remote'[RefOf(run.cur).store][RefOf(run.cur).item])
    <3>1. RefOf(run.cur) \in Refs /\ SameButOther(run.seen, ItemAt(RefOf(run.cur)))
      BY <2>1, PushWriteFacts DEF CoverInv, SeenInv
    <3> QED BY <1>4, <3>1
  <2>2. ASSUME run.pc = "deleteWrite"
        PROVE  SameButOther(run.seen, remote'[run.cur.store][run.cur.item])
    <3>1. run.cur \in Refs /\ SameButOther(run.seen, ItemAt(run.cur))
      BY <2>2, DeleteWriteFacts DEF CoverInv, SeenInv
    <3> QED BY <1>4, <3>1
  <2> QED BY <1>1, <2>1, <2>2 DEF SeenInv, ItemAt, RefOf
<1> QED BY <1>3, <1>5 DEF CoverInv

\* Every step keeps it.
LEMMA NextCover ==
    ASSUME TypeOK, CoverInv, [Next]_vars
    PROVE  CoverInv'
<1>1. CASE UNCHANGED vars
  BY <1>1, StillCover DEF vars
<1>2. CASE Crash
  BY <1>2, StopCover DEF Crash
<1>3. CASE ChangeSpec \/ DeleteObject
  <2>1. obj.state # "gone" /\ UNCHANGED <<status, run, remote, lost, cleaned>>
    BY <1>3 DEF ChangeSpec, DeleteObject, ends
  <2> QED BY <2>1, StillCover DEF CoverInv, CleanInv
<1>4. CASE ChangeSource \/ RetireStore \/ Elapse \/ Fire
  BY <1>4, StillCover DEF ChangeSource, RetireStore, Elapse, Fire, ends
<1> QED
  BY <1>1, <1>2, <1>3, <1>4, BeginCover, PushCover, DeleteCover, EndCover, OtherCover
  DEF Next, Reconcile

\* A resource deleted with the policy Delete leaves nothing of its own in the tagged items
\* of Akeyless but what no status could tell of, however pushes, deletions, failures,
\* crashes and the other writer are interleaved (pushsecret_controller.go:226-240, 431-463).
THEOREM CleanupLeavesNothingBehind == Spec => []NothingLeftBehind
<1>1. Init => CoverInv
  BY InitCover
<1>2. TypeOK /\ CoverInv /\ [Next]_vars => CoverInv'
  BY NextCover
<1>3. CoverInv => NothingLeftBehind
  BY DEF CoverInv, CleanInv, Cover, NothingLeftBehind
<1> QED BY <1>1, <1>2, <1>3, PushTypeCorrect, PTL DEF Spec

-----------------------------------------------------------------------------
(* Ready means pushed *)

\* What users may ask for.
Asked ==
    {r \in Refs : \E spec \in Specs, s \in Sources :
                     \E t \in Targets(spec, s, Stores) : r = RefOf(t)}

\* No item is asked for both as a whole and by a property.
NoMixing ==
    \A q, r \in Asked :
       q.store = r.store /\ q.item = r.item /\ q.prop = Whole => r.prop = Whole

\* With the policy Delete a resource has one source Secret.
OneSource ==
    \A spec \in Specs : spec.policy = "Delete" => \A s, t \in spec.sources : s = t

\* The references that are in Akeyless, tagged or not.
There == {r \in Refs : SecretExists(ItemAt(r), r.prop)}

AskedInv ==
    /\ status.synced \subseteq Asked
    /\ run.pc \in {"push", "pushWrite", "delete", "deleteWrite"} =>
          run.job.out \cup run.job.all \subseteq Asked
    /\ run.pc \in {"delete", "deleteWrite"} => run.bad \subseteq Asked
    /\ run.pc = "patch" => run.status.synced \subseteq Asked

\* A deletion never follows the push of an earlier Secret; a clean-up is of a deleted
\* resource.
OrderInv ==
    /\ run.pc \in {"push", "pushWrite"} /\ run.job.spec.policy = "Delete" =>
          run.job.left = {} /\ run.job.all = {}
    /\ run.pc \in {"delete", "deleteWrite"} =>
          /\ run.job.all = {}
          /\ run.why = "push" => run.job.left = {}
          /\ run.why = "cleanup" => obj.state # "live"

ExistInv ==
    /\ obj.state = "live" /\ status.ready = "true" =>
          status.synced \ (lost \cup run.touched) \subseteq There
    /\ run.pc \in {"push", "pushWrite", "delete", "deleteWrite"} =>
          run.job.out \cup run.job.all \subseteq There
    /\ run.pc = "patch" /\ obj.state = "live" /\ run.status.ready = "true" =>
          run.status.synced \subseteq There

ReadyInv == AskedInv /\ OrderInv /\ ExistInv

\* An entry of a Secret is asked for.
LEMMA AskedFacts ==
    ASSUME NEW spec \in Specs, NEW s \in Sources, NEW stores \in SUBSET Stores,
           NEW t \in Targets(spec, s, stores)
    PROVE  RefOf(t) \in Asked
<1>1. t \in Targets(spec, s, Stores)
  BY DEF Targets
<1>2. RefOf(t) \in Refs
  BY TargetType, RefType
<1> QED BY <1>1, <1>2 DEF Asked

\* What is in Akeyless after a step.
LEMMA ThereFactsNext ==
    ASSUME NEW m
    PROVE  m \in There' <=> /\ m \in Refs
                            /\ SecretExists(remote'[m.store][m.item], m.prop)
BY DEF There, ItemAt, SecretExists

\* It is the same while no item is written.
LEMMA SameThere ==
    ASSUME UNCHANGED remote
    PROVE  There' = There
BY DEF There, ItemAt, SecretExists

\* The other writer takes nothing away.
LEMMA OtherThere ==
    ASSUME TypeOK, OtherWrites
    PROVE  There \subseteq There'
<1> SUFFICES ASSUME NEW m \in There
             PROVE  m \in There'
  OBVIOUS
<1>1. m \in Refs /\ ItemAt(m).exists /\ (m.prop = Whole \/ ItemAt(m).map[m.prop] # 0)
  BY DEF There, SecretExists
<1>2. m.store \in Stores /\ m.item \in Items /\ m.prop \in (Names \ {Other}) \cup {Whole}
  BY <1>1 DEF Refs, RefProps
<1>3. SecretExists(remote'[m.store][m.item], m.prop)
  BY <1>1, <1>2, OtherWritesFacts DEF SecretExists, ItemAt
<1> QED BY <1>1, <1>3, ThereFactsNext

\* A push takes nothing away and adds its reference.
LEMMA PushThere ==
    ASSUME TypeOK, SeenInv, run.pc = "pushWrite", WritePushed
    PROVE  There \cup {RefOf(run.cur)} \subseteq There'
<1> DEFINE r == RefOf(run.cur)
           new == PushSecret(run.seen, Data, run.cur.entry)
<1>1. /\ r \in Refs /\ new \in Object /\ r.prop = run.cur.entry.prop
      /\ new.exists /\ (r.prop # Whole => new.map[r.prop] # 0)
      /\ \A p \in Names : new.map[p] = run.seen.map[p] \/ new.map[p] # 0
  BY PushWriteFacts, RefType DEF Object
<1>2. SameButOther(run.seen, ItemAt(r)) /\ Put(r, new)
  BY DEF SeenInv, WritePushed
<1> HIDE DEF r, new
<1>3. SUFFICES ASSUME NEW m \in Refs, m = r \/ m \in There
               PROVE  SecretExists(remote'[m.store][m.item], m.prop)
  BY <1>1, ThereFactsNext DEF There, r
<1>4. m.store \in Stores /\ m.item \in Items /\ m.prop \in (Names \ {Other}) \cup {Whole}
  BY DEF Refs, RefProps
<1>5. remote'[m.store][m.item] =
         IF m.store = r.store /\ m.item = r.item THEN new ELSE remote[m.store][m.item]
  BY <1>1, <1>2, <1>4, PutFacts DEF TypeOK, Object
<1>6. CASE m = r
  BY <1>1, <1>5, <1>6 DEF SecretExists
<1>7. CASE m # r
  <2>1. SecretExists(remote[m.store][m.item], m.prop)
    BY <1>3, <1>7 DEF There, ItemAt
  <2>2. CASE m.store = r.store /\ m.item = r.item
    <3>1. m.prop # Whole => run.seen.map[m.prop] # 0
      BY <1>2, <1>4, <2>1, <2>2 DEF SameButOther, SecretExists, ItemAt
    <3>2. m.prop # Whole => new.map[m.prop] # 0
      BY <1>1, <1>4, <3>1
    <3> QED BY <1>1, <1>5, <2>2, <3>2 DEF SecretExists
  <2>3. CASE m.store # r.store \/ m.item # r.item
    BY <1>5, <2>1, <2>3
  <2> QED BY <2>2, <2>3
<1> QED BY <1>6, <1>7

\* A deletion takes away its reference and no other that is asked for.
LEMMA DeleteThere ==
    ASSUME NoMixing, TypeOK, SeenInv, run.pc = "deleteWrite", run.cur \in Asked,
           Put(run.cur, DeleteSecret(run.seen, run.cur.prop))
    PROVE  (There \cap Asked) \ {run.cur} \subseteq There'
<1> DEFINE r == run.cur
           new == DeleteSecret(run.seen, run.cur.prop)
<1> SUFFICES ASSUME NEW m \in There \cap Asked, m # r
             PROVE  m \in There'
  OBVIOUS
<1>1. /\ r \in Refs /\ r.prop \in RefProps /\ new \in Object /\ run.seen \in Item
  BY DeleteWriteFacts, RefFacts
<1>2. /\ r.prop # Whole => \A p \in Names \ {r.prop} : new.map[p] = run.seen.map[p]
      /\ r.prop # Whole => ((\E p \in Names \ {r.prop} : run.seen.map[p] # 0) => new.exists)
  BY <1>1, DeleteFacts
<1>3. SameButOther(run.seen, ItemAt(r)) /\ Put(r, new)
  BY DEF SeenInv
<1>4. m \in Refs /\ SecretExists(remote[m.store][m.item], m.prop) /\ r \in Asked
  BY DEF There, ItemAt
<1>5. m.store \in Stores /\ m.item \in Items /\ m.prop \in (Names \ {Other}) \cup {Whole}
  BY <1>4 DEF Refs, RefProps
<1> HIDE DEF r, new
<1>6. remote'[m.store][m.item] =
         IF m.store = r.store /\ m.item = r.item THEN new ELSE remote[m.store][m.item]
  BY <1>1, <1>3, <1>5, PutFacts DEF TypeOK, Object
<1>7. CASE m.store = r.store /\ m.item = r.item
  <2>1. m.prop # r.prop
    BY <1>1, <1>4, <1>7 DEF Refs
  <2>2. r.prop # Whole /\ m.prop # Whole
    BY <1>4, <1>7, <2>1 DEF NoMixing
  <2>3. m.prop \in Names \ {Other} /\ ItemAt(r).map[m.prop] # 0
    BY <1>4, <1>5, <1>7, <2>2 DEF SecretExists, ItemAt
  <2>4. run.seen.map[m.prop] # 0
    BY <1>3, <2>3 DEF SameButOther
  <2>5. new.exists /\ new.map[m.prop] # 0
    BY <1>2, <2>1, <2>2, <2>3, <2>4
  <2> QED BY <1>4, <1>6, <1>7, <2>5, ThereFactsNext DEF SecretExists
<1>8. CASE m.store # r.store \/ m.item # r.item
  BY <1>4, <1>6, <1>8, ThereFactsNext
<1> QED BY <1>7, <1>8

\* A deleted resource does not come back.
LEMMA StateAges ==
    ASSUME TypeOK, [Next]_vars
    PROVE  obj'.state = "live" => obj.state = "live"
<1>1. CASE UNCHANGED obj
  BY <1>1
<1>2. ASSUME DropFinalizer
      PROVE  obj'.state = "live" => obj.state = "live"
  BY <1>2 DEF DropFinalizer, TypeOK, Resource
<1>3. CASE AddFinalizer \/ RemoveFinalizer \/ ChangeSpec \/ DeleteObject
  BY <1>3 DEF AddFinalizer, RemoveFinalizer, ChangeSpec, DeleteObject, TypeOK, Resource
<1> QED
  BY <1>1, <1>2, <1>3
  DEF Next, Reconcile, vars, ReconcileGone, SkipRefresh, SourceDeleted,
      ResolveFails, NoStores, NothingSelected, StartPush, StartCleanup, PushRead, PushWrite,
      PushFails, StartDelete, StartDeleteOf, DeleteRead, DeleteWrite, DeleteFails,
      NextSecret, PushDone, SourceDone, PatchStatus, Crash, ChangeSource, RetireStore,
      OtherWrites, Elapse, Fire

\* The initial states: the resource is not Ready.
LEMMA InitReady ==
    ASSUME Init
    PROVE  ReadyInv
BY IdleFacts DEF Init, ReadyInv, AskedInv, OrderInv, ExistInv

\* The steps that take nothing away and leave the reconcile alone.
LEMMA StillReady ==
    ASSUME ReadyInv, UNCHANGED <<status, run, lost>>, There \subseteq There',
           obj'.state = "live" => obj.state = "live"
    PROVE  ReadyInv'
<1>1. AskedInv'
  BY DEF ReadyInv, AskedInv
<1>2. OrderInv'
  BY DEF ReadyInv, OrderInv
<1>3. ExistInv'
  BY DEF ReadyInv, ExistInv
<1> QED BY <1>1, <1>2, <1>3 DEF ReadyInv

\* A reconcile that gives up has the status of a failure to patch.
LEMMA FailReady ==
    ASSUME ReadyInv, UNCHANGED status, obj'.state = "live" => obj.state = "live",
           NEW st, NEW again, NEW after, NEW touched, run' = Patch(st, again, after, touched),
           st.synced \subseteq Asked,
           st.ready = "true" /\ obj'.state = "live" => st.synced \subseteq There',
           obj.state = "live" /\ status.ready = "true" =>
              status.synced \ (lost' \cup touched) \subseteq There'
    PROVE  ReadyInv'
<1>1. run'.pc = "patch" /\ run'.status = st /\ run'.touched = touched
  BY DEF Patch
<1>2. AskedInv'
  BY <1>1 DEF ReadyInv, AskedInv
<1>3. OrderInv'
  BY <1>1 DEF OrderInv
<1>4. ExistInv'
  BY <1>1 DEF ExistInv
<1> QED BY <1>2, <1>3, <1>4 DEF ReadyInv

\* The steps before the first call of the provider.
LEMMA BeginReady ==
    ASSUME OneSource, TypeOK, ReadyInv, obj'.state = "live" => obj.state = "live",
           \/ ReconcileGone \/ AddFinalizer \/ SkipRefresh \/ SourceDeleted
           \/ ResolveFails \/ NoStores \/ NothingSelected \/ StartPush \/ StartCleanup
    PROVE  ReadyInv'
<1>1. run.touched = {} /\ There' = There /\ UNCHANGED status
  BY IdleFacts, SameThere
  DEF ReconcileGone, AddFinalizer, SkipRefresh, SourceDeleted, ResolveFails, NoStores,
      NothingSelected, StartPush, StartCleanup, Proceeds
<1>2. CASE ReconcileGone \/ AddFinalizer \/ SkipRefresh \/ NoStores
  <2>1. UNCHANGED <<run, lost>>
    BY <1>2 DEF ReconcileGone, AddFinalizer, SkipRefresh, NoStores
  <2> QED BY <1>1, <2>1, StillReady
<1>3. /\ status.synced \subseteq Asked
      /\ obj.state = "live" /\ status.ready = "true" => status.synced \ lost \subseteq There
  BY <1>1 DEF ReadyInv, AskedInv, ExistInv
<1>4. CASE SourceDeleted \/ StartCleanup
  <2>1. PICK why \in {"source", "cleanup"} :
           run' = DeleteAll(why) /\ (why = "cleanup" => obj'.state # "live") /\ lost' = lost
    BY <1>4 DEF SourceDeleted, StartCleanup
  <2>2. /\ run'.pc = "delete" /\ run'.why = why /\ run'.bad = status.synced
        /\ run'.job = NoJob /\ run'.touched = {}
    BY <2>1 DEF DeleteAll
  <2>3. AskedInv'
    BY <1>1, <1>3, <2>2, NoJobFacts DEF AskedInv
  <2>4. OrderInv'
    BY <2>1, <2>2, NoJobFacts DEF OrderInv
  <2>5. ExistInv'
    BY <1>1, <1>3, <2>1, <2>2, NoJobFacts DEF ExistInv
  <2> QED BY <2>3, <2>4, <2>5 DEF ReadyInv
<1>5. CASE ResolveFails
  <2> DEFINE st == markAsFailed(status.synced)
  <2>1. run' = Patch(st, TRUE, FALSE, {}) /\ lost' = lost
    BY <1>5 DEF ResolveFails
  <2>2. st.synced = status.synced /\ st.ready = "false"
    BY FailedType DEF TypeOK, Status
  <2> HIDE DEF st
  <2> QED BY <1>1, <1>3, <2>1, <2>2, FailReady
<1>6. CASE NothingSelected
  <2> DEFINE st == [synced |-> {}, ready |-> "true", rv |-> obj.gen]
  <2>1. run' = Patch(st, FALSE, obj.spec.interval, {}) /\ lost' = lost \cup status.synced
    BY <1>6 DEF NothingSelected
  <2>2. st.synced = {}
    OBVIOUS
  <2> HIDE DEF st
  <2> QED BY <1>1, <1>3, <2>1, <2>2, FailReady
<1>7. CASE StartPush
  <2>1. PICK s \in Selected :
           run' = [pc |-> "push", touched |-> {},
                   job |-> [spec |-> obj.spec, gen |-> obj.gen, stores |-> ActiveStores,
                            version |-> source, secret |-> s, left |-> Selected \ {s},
                            out |-> {}, all |-> {}],
                   todo |-> Targets(obj.spec, s, ActiveStores)]
    BY <1>7 DEF StartPush
  <2>2. lost' = lost /\ obj.spec \in Specs /\ Selected \subseteq obj.spec.sources
    BY <1>7 DEF StartPush, TypeOK, Resource, Selected
  <2>3. obj.spec.policy = "Delete" => Selected \ {s} = {}
    BY <2>2 DEF OneSource
  <2>4. OrderInv'
    BY <2>1, <2>3 DEF OrderInv
  <2>5. AskedInv' /\ ExistInv'
    BY <1>1, <1>3, <2>1, <2>2 DEF AskedInv, ExistInv
  <2> QED BY <2>4, <2>5 DEF ReadyInv
<1> QED BY <1>2, <1>4, <1>5, <1>6, <1>7

\* PushSecretToProviders.
LEMMA PushReady ==
    ASSUME TypeOK, SeenInv, ReadyInv, PushRead \/ PushWrite \/ PushFails
    PROVE  ReadyInv'
<1>1. run.pc \in {"push", "pushWrite"} /\ UNCHANGED <<status, obj>> /\ lost \subseteq lost'
  BY DEF PushRead, PushWrite, PushFails
<1>2. /\ run.job \in Job /\ run.todo \subseteq Target
      /\ run.todo \subseteq Targets(run.job.spec, run.job.secret, run.job.stores)
  BY <1>1, PhaseFacts DEF TypeOK, Pushing, PushWriting, RunOK
<1>3. /\ status.synced \subseteq Asked /\ run.job.out \cup run.job.all \subseteq Asked
      /\ run.job.out \cup run.job.all \subseteq There
      /\ obj.state = "live" /\ status.ready = "true" =>
            status.synced \ (lost \cup run.touched) \subseteq There
      /\ run.job.spec.policy = "Delete" => run.job.left = {} /\ run.job.all = {}
  BY <1>1 DEF ReadyInv, AskedInv, ExistInv, OrderInv
<1>4. ASSUME NEW t \in run.todo, NEW written \in SUBSET Refs, run' = Pushed(t, written),
             There \cup {RefOf(t)} \subseteq There'
      PROVE  ReadyInv'
  <2>1. /\ run'.pc = "push" /\ run'.touched = run.touched \cup written
        /\ run'.job = [run.job EXCEPT !.out = run.job.out \cup {RefOf(t)}]
    BY <1>1, <1>2, <1>4, PushedTyped
  <2>2. /\ run'.job.out = run.job.out \cup {RefOf(t)} /\ run'.job.all = run.job.all
        /\ run'.job.left = run.job.left /\ run'.job.spec = run.job.spec
    BY <1>2, <2>1 DEF Job
  <2>3. RefOf(t) \in Asked
    BY <1>2, JobFacts, AskedFacts
  <2>4. AskedInv'
    BY <1>1, <1>3, <2>1, <2>2, <2>3 DEF AskedInv
  <2>5. OrderInv'
    BY <1>3, <2>1, <2>2 DEF OrderInv
  <2>6. ExistInv'
    BY <1>1, <1>3, <1>4, <2>1, <2>2 DEF ExistInv
  <2> QED BY <2>4, <2>5, <2>6 DEF ReadyInv
<1>5. CASE PushRead
  <2>1. PICK t \in run.todo :
           /\ secretKeyExists(t)
           /\ \/ /\ run' = Pushed(t, {})
                 /\ \/ SecretExists(ItemAt(RefOf(t)), t.entry.prop)
                    \/ ItemAt(RefOf(t)) = PushSecret(ItemAt(RefOf(t)), Data, t.entry)
              \/ run' = [pc |-> "pushWrite", job |-> run.job, todo |-> run.todo,
                         touched |-> run.touched, cur |-> t, seen |-> ItemAt(RefOf(t))]
    BY <1>5 DEF PushRead
  <2>2. There' = There /\ lost' = lost /\ {} \in SUBSET Refs
    BY <1>5, SameThere DEF PushRead
  <2>3. CASE run' = [pc |-> "pushWrite", job |-> run.job, todo |-> run.todo,
                     touched |-> run.touched, cur |-> t, seen |-> ItemAt(RefOf(t))]
    <3>1. AskedInv' /\ OrderInv'
      BY <1>1, <1>3, <2>3 DEF AskedInv, OrderInv
    <3>2. ExistInv'
      BY <1>1, <1>3, <2>2, <2>3 DEF ExistInv
    <3> QED BY <3>1, <3>2 DEF ReadyInv
  <2>4. CASE /\ run' = Pushed(t, {})
             /\ \/ SecretExists(ItemAt(RefOf(t)), t.entry.prop)
                \/ ItemAt(RefOf(t)) = PushSecret(ItemAt(RefOf(t)), Data, t.entry)
    <3> DEFINE r == RefOf(t)
    <3>1. /\ t \in Target /\ t.entry \in Entry /\ r \in Refs /\ r.prop = t.entry.prop
          /\ ItemAt(r) \in Object
      BY <1>2, RefType, ItemAtType DEF Target, TypeOK, Object
    <3>2. SecretExists(ItemAt(r), r.prop)
      <4>1. CASE ItemAt(r) = PushSecret(ItemAt(r), Data, t.entry)
        <5>1. /\ DOMAIN Data \subseteq Names \ {Other} /\ t.entry.key \in DOMAIN Data
              /\ \A k \in DOMAIN Data : Data[k] \in 1 .. MaxVersion
          BY <1>2, <2>1, DataFacts DEF secretKeyExists
        <5> DEFINE data == Data
        <5> HIDE DEF data, r
        <5>2. /\ PushSecret(ItemAt(r), data, t.entry).exists
              /\ t.entry.prop # Whole =>
                    PushSecret(ItemAt(r), data, t.entry).map[t.entry.prop] # 0
          BY <3>1, <5>1, PushFacts DEF data
        <5> QED BY <3>1, <4>1, <5>2 DEF SecretExists, data
      <4> QED BY <2>4, <3>1, <4>1
    <3>3. r \in There
      BY <3>1, <3>2 DEF There
    <3> QED BY <1>4, <2>2, <2>4, <3>3
  <2> QED BY <2>1, <2>3, <2>4
<1>6. CASE PushWrite
  <2>1. /\ run.pc = "pushWrite" /\ WritePushed
        /\ run' = Pushed(run.cur, {RefOf(run.cur)})
    BY <1>6 DEF PushWrite
  <2>2. run.cur \in run.todo /\ {RefOf(run.cur)} \in SUBSET Refs
    BY <2>1, PushWriteFacts
  <2>3. There \cup {RefOf(run.cur)} \subseteq There'
    BY <2>1, PushThere
  <2> QED BY <1>4, <2>1, <2>2, <2>3
<1>7. CASE PushFails
  <2> DEFINE st == markAsFailed(mergeSecretState(run.job.out, status.synced))
  <2>1. run' = Patch(st, TRUE, FALSE, run.touched)
    BY <1>7 DEF PushFails
  <2>2. st.synced = run.job.out \cup status.synced /\ st.ready = "false"
    <3>1. run.job.out \cup status.synced \in SUBSET Refs
      BY <1>2, JobFacts DEF TypeOK, Status
    <3> QED BY <3>1, FailedType DEF mergeSecretState, TypeOK
  <2> HIDE DEF st
  <2>3. There \subseteq There'
    BY <1>7, SameThere, PushThere DEF PushFails
  <2>4. st.synced \subseteq Asked
    BY <1>3, <2>2
  <2>5. obj.state = "live" /\ status.ready = "true" =>
           status.synced \ (lost' \cup run.touched) \subseteq There'
    BY <1>1, <1>3, <2>3
  <2> QED BY <1>1, <2>1, <2>2, <2>4, <2>5, FailReady
<1> QED BY <1>5, <1>6, <1>7

\* DeleteSecretFromProviders.
LEMMA DeleteReady ==
    ASSUME NoMixing, TypeOK, SeenInv, ReadyInv,
           StartDelete \/ DeleteRead \/ DeleteWrite \/ DeleteFails
    PROVE  ReadyInv'
<1>1. /\ run.pc \in {"push", "delete", "deleteWrite"} /\ UNCHANGED <<status, obj>>
      /\ lost \subseteq lost'
  BY DEF StartDelete, StartDeleteOf, DeleteRead, DeleteWrite, DeleteFails
<1>2. /\ status.synced \subseteq Asked /\ run.job.out \cup run.job.all \subseteq Asked
      /\ run.job.out \cup run.job.all \subseteq There
      /\ obj.state = "live" /\ status.ready = "true" =>
            status.synced \ (lost \cup run.touched) \subseteq There
  BY <1>1 DEF ReadyInv, AskedInv, ExistInv
<1>3. CASE StartDelete
  <2>1. /\ run.pc = "push" /\ UNCHANGED <<remote, lost>>
        /\ run.job.spec.policy = "Delete"
        /\ run' = [pc |-> "delete", why |-> "push", job |-> run.job,
                   todo |-> status.synced \ run.job.out,
                   bad |-> run.job.out \cup status.synced, touched |-> run.touched]
    BY <1>3 DEF StartDelete, StartDeleteOf, mergeSecretState
  <2>2. There' = There /\ run.job.left = {} /\ run.job.all = {}
    BY <2>1, SameThere DEF ReadyInv, OrderInv
  <2>3. AskedInv' /\ OrderInv'
    BY <1>1, <1>2, <2>1, <2>2 DEF AskedInv, OrderInv
  <2>4. ExistInv'
    BY <1>1, <1>2, <2>1, <2>2 DEF ExistInv
  <2> QED BY <2>3, <2>4 DEF ReadyInv
<1>4. ASSUME run.pc \in {"delete", "deleteWrite"}
      PROVE  /\ run.bad \subseteq Asked /\ run.bad \in SUBSET Refs /\ run.job.all = {}
             /\ run.why = "push" => run.job.left = {}
             /\ run.why = "cleanup" => obj.state # "live"
             /\ run.todo \subseteq status.synced \ run.job.out /\ status.synced \subseteq Refs
  BY <1>4, PhaseFacts DEF ReadyInv, AskedInv, OrderInv, TypeOK, RunOK, Status, Deleting,
     DeleteWriting
<1>5. ASSUME run.pc \in {"delete", "deleteWrite"}, NEW r \in run.todo,
             NEW written \in SUBSET Refs, run' = Deleted(r, written),
             (There \cap Asked) \ written \subseteq There', written \subseteq {r}
      PROVE  ReadyInv'
  <2>1. r \in Refs /\ r \notin run.job.out
    BY <1>4, <1>5
  <2>2. /\ run'.pc = "delete" /\ run'.why = run.why /\ run'.job = run.job
        /\ run'.touched = run.touched \cup written /\ run'.bad \subseteq run.bad
    BY <1>1, <1>5, <2>1, DeletedTyped
  <2>3. AskedInv'
    BY <1>1, <1>2, <1>4, <1>5, <2>2 DEF AskedInv
  <2>4. OrderInv'
    BY <1>1, <1>4, <1>5, <2>2 DEF OrderInv
  <2>5. run.job.out \cup run.job.all \subseteq There'
    BY <1>2, <1>4, <1>5, <2>1
  <2>6. obj.state = "live" /\ status.ready = "true" =>
           status.synced \ (lost' \cup (run.touched \cup written)) \subseteq There'
    BY <1>1, <1>2, <1>5
  <2>7. ExistInv'
    BY <1>1, <2>2, <2>5, <2>6 DEF ExistInv
  <2> QED BY <2>3, <2>4, <2>7 DEF ReadyInv
<1>6. CASE DeleteRead
  <2>1. PICK r \in run.todo :
           \/ run' = Deleted(r, {})
           \/ run' = [pc |-> "deleteWrite", why |-> run.why, job |-> run.job,
                      todo |-> run.todo, bad |-> run.bad, touched |-> run.touched,
                      cur |-> r, seen |-> ItemAt(r)]
    BY <1>6 DEF DeleteRead
  <2>2. run.pc = "delete" /\ There' = There /\ {} \in SUBSET Refs
    BY <1>6, SameThere DEF DeleteRead
  <2>3. CASE run' = Deleted(r, {})
    BY <1>5, <2>2, <2>3
  <2>4. CASE run' = [pc |-> "deleteWrite", why |-> run.why, job |-> run.job,
                     todo |-> run.todo, bad |-> run.bad, touched |-> run.touched,
                     cur |-> r, seen |-> ItemAt(r)]
    <3>1. AskedInv' /\ OrderInv'
      BY <1>1, <1>2, <1>4, <2>2, <2>4 DEF AskedInv, OrderInv
    <3>2. ExistInv'
      BY <1>1, <1>2, <2>2, <2>4 DEF ExistInv
    <3> QED BY <3>1, <3>2 DEF ReadyInv
  <2> QED BY <2>1, <2>3, <2>4
<1>7. CASE DeleteWrite
  <2>1. /\ run.pc = "deleteWrite" /\ Put(run.cur, DeleteSecret(run.seen, run.cur.prop))
        /\ run' = Deleted(run.cur, {run.cur})
    BY <1>7 DEF DeleteWrite
  <2>2. run.cur \in run.todo /\ {run.cur} \in SUBSET Refs
    BY <2>1, DeleteWriteFacts
  <2>3. run.cur \in Asked
    BY <1>2, <1>4, <2>1, <2>2
  <2>4. (There \cap Asked) \ {run.cur} \subseteq There'
    BY <2>1, <2>3, DeleteThere
  <2> QED BY <1>5, <2>1, <2>2, <2>4
<1>8. CASE DeleteFails
  <2> DEFINE st == markAsFailed(run.bad)
             more == IF remote' = remote THEN {} ELSE {run.cur}
  <2>1. /\ run' = Patch(st, TRUE, FALSE, run.touched \cup more)
        /\ run.pc \in {"delete", "deleteWrite"}
    BY <1>8 DEF DeleteFails
  <2>2. st.synced = run.bad /\ st.ready = "false"
    BY <1>4, <2>1, FailedType DEF TypeOK
  <2>3. (There \cap Asked) \ more \subseteq There'
    <3>1. CASE UNCHANGED remote
      BY <3>1, SameThere
    <3>2. CASE /\ remote' # remote /\ run.pc = "deleteWrite"
               /\ Put(run.cur, DeleteSecret(run.seen, run.cur.prop))
      <4>1. run.cur \in Asked
        BY <1>2, <1>4, <3>2, DeleteWriteFacts
      <4> QED BY <3>2, <4>1, DeleteThere
    <3> QED BY <1>8, <3>1, <3>2 DEF DeleteFails
  <2> HIDE DEF st, more
  <2>4. obj.state = "live" /\ status.ready = "true" =>
           status.synced \ (lost' \cup (run.touched \cup more)) \subseteq There'
    BY <1>1, <1>2, <2>3
  <2> QED BY <1>1, <1>4, <2>1, <2>2, <2>4, FailReady
<1> QED BY <1>3, <1>6, <1>7, <1>8

\* The end of a reconcile.
LEMMA EndReady ==
    ASSUME TypeOK, ReadyInv, obj'.state = "live" => obj.state = "live",
           \/ NextSecret \/ PushDone \/ SourceDone \/ RemoveFinalizer \/ PatchStatus
    PROVE  ReadyInv'
<1>1. There' = There
  BY SameThere DEF NextSecret, PushDone, SourceDone, RemoveFinalizer, PatchStatus
<1>2. /\ status.synced \subseteq Asked
      /\ obj.state = "live" /\ status.ready = "true" =>
            status.synced \ (lost \cup run.touched) \subseteq There
  BY DEF ReadyInv, AskedInv, ExistInv
<1>3. CASE NextSecret
  <2>1. SecretDone /\ UNCHANGED <<status, lost, obj>>
    BY <1>3 DEF NextSecret
  <2>2. /\ run'.pc = "push" /\ run'.touched = run.touched /\ run'.job.out = {}
        /\ run'.job.all = run.job.all \cup run.job.out /\ run'.job.spec = run.job.spec
        /\ run.job.left # {}
    BY <1>3, NextSecretFacts
  <2>3. run.pc \in {"push", "delete"} /\ (run.pc = "delete" => run.why = "push")
    BY <2>1, SecretDoneFacts
  <2>4. /\ run.job.out \cup run.job.all \subseteq Asked \cap There
        /\ run.job.spec.policy # "Delete"
    BY <2>1, <2>2, <2>3, SecretDoneFacts DEF ReadyInv, AskedInv, OrderInv, ExistInv
  <2>5. AskedInv' /\ OrderInv'
    BY <1>2, <2>1, <2>2, <2>4 DEF AskedInv, OrderInv
  <2>6. ExistInv'
    BY <1>1, <1>2, <2>1, <2>2, <2>4 DEF ExistInv
  <2> QED BY <2>5, <2>6 DEF ReadyInv
<1>4. CASE PushDone
  <2> DEFINE st == [synced |-> run.job.all \cup run.job.out, ready |-> "true",
                    rv |-> run.job.gen]
             interval == run.job.spec.interval
  <2>1. /\ SecretDone /\ run' = Patch(st, FALSE, interval, run.touched)
        /\ lost \subseteq lost' /\ UNCHANGED status
    BY <1>4 DEF PushDone, mergeSecretState, Forget
  <2>2. run.pc \in {"push", "delete"}
    BY <2>1, SecretDoneFacts
  <2>3. run.job.out \cup run.job.all \subseteq Asked \cap There
    BY <2>2 DEF ReadyInv, AskedInv, ExistInv
  <2>4. st.synced \subseteq Asked /\ st.synced \subseteq There'
    BY <1>1, <2>3
  <2>5. obj.state = "live" /\ status.ready = "true" =>
           status.synced \ (lost' \cup run.touched) \subseteq There'
    BY <1>1, <1>2, <2>1
  <2> HIDE DEF st, interval
  <2> QED BY <2>1, <2>4, <2>5, FailReady
<1>5. CASE SourceDone
  <2> DEFINE st == [status EXCEPT !.synced = {}, !.ready = "sourceDeleted"]
  <2>1. run' = Patch(st, FALSE, FALSE, run.touched) /\ UNCHANGED <<status, lost>>
    BY <1>5 DEF SourceDone
  <2>2. st.synced = {} /\ st.ready = "sourceDeleted"
    BY DEF TypeOK, Status
  <2> HIDE DEF st
  <2> QED BY <1>1, <1>2, <2>1, <2>2, FailReady
<1>6. CASE RemoveFinalizer
  <2>1. obj.state # "live" /\ UNCHANGED <<status, lost>>
    BY <1>6 DEF RemoveFinalizer, ReadyInv, OrderInv
  <2>2. CASE run' = Idle
    <3>1. run'.pc = "idle"
      BY <2>2, IdleFacts
    <3> QED BY <1>2, <2>1, <3>1 DEF ReadyInv, AskedInv, OrderInv, ExistInv
  <2>3. CASE run' = Patch(status, TRUE, FALSE, run.touched)
    BY <1>2, <2>1, <2>3, FailReady
  <2> QED BY <1>6, <2>2, <2>3 DEF RemoveFinalizer
<1>7. CASE PatchStatus
  <2>1. /\ run.pc = "patch" /\ UNCHANGED obj /\ run'.pc = "idle" /\ run'.touched = {}
        /\ \/ status' = run.status
           \/ UNCHANGED status /\ lost' = lost \cup run.touched
    BY <1>7, IdleFacts DEF PatchStatus
  <2>2. /\ run.status.synced \subseteq Asked
        /\ obj.state = "live" /\ run.status.ready = "true" => run.status.synced \subseteq There
    BY <2>1 DEF ReadyInv, AskedInv, ExistInv
  <2>3. AskedInv' /\ OrderInv'
    BY <1>2, <2>1, <2>2 DEF AskedInv, OrderInv
  <2>4. ExistInv'
    BY <1>1, <1>2, <2>1, <2>2 DEF ExistInv
  <2> QED BY <2>3, <2>4 DEF ReadyInv
<1> QED BY <1>3, <1>4, <1>5, <1>6, <1>7

\* Every step keeps it.
LEMMA NextReady ==
    ASSUME NoMixing, OneSource, TypeOK, SeenInv, ReadyInv, [Next]_vars
    PROVE  ReadyInv'
<1>1. obj'.state = "live" => obj.state = "live"
  BY StateAges
<1>2. CASE UNCHANGED vars \/ ChangeSpec \/ DeleteObject \/ ChangeSource \/ RetireStore
           \/ Elapse \/ Fire
  <2>1. UNCHANGED <<status, run, lost, remote>>
    BY <1>2 DEF vars, ChangeSpec, DeleteObject, ChangeSource, RetireStore, Elapse, Fire
  <2> QED BY <1>1, <2>1, SameThere, StillReady
<1>3. CASE OtherWrites
  <2>1. UNCHANGED <<status, run, lost>>
    BY <1>3 DEF OtherWrites
  <2> QED BY <1>1, <1>3, <2>1, OtherThere, StillReady
<1>4. CASE Crash
  <2>1. /\ There' = There /\ UNCHANGED <<status, obj>> /\ lost' = lost \cup run.touched
        /\ run'.pc = "idle" /\ run'.touched = {}
    BY <1>4, SameThere, IdleFacts DEF Crash
  <2> QED BY <2>1 DEF ReadyInv, AskedInv, OrderInv, ExistInv
<1> QED
  BY <1>1, <1>2, <1>3, <1>4, BeginReady, PushReady, DeleteReady, EndReady DEF Next, Reconcile

\* A resource at rest that is Ready has in Akeyless what its status lists, whatever fails,
\* crashes and is written in between: the deletions after a push leave alone what the push
\* has written (pushsecret_controller.go:310-346), if no item is asked for both as a whole
\* and by a property, and a resource with the policy Delete has one source Secret.
THEOREM ReadyResourceIsPushed ==
    ASSUME NoMixing, OneSource
    PROVE  Spec => []ReadyMeansPushed
<1>1. Init => CoverInv /\ ReadyInv
  BY InitCover, InitReady
<1>2. TypeOK /\ CoverInv /\ ReadyInv /\ [Next]_vars => CoverInv' /\ ReadyInv'
  BY NextCover, NextReady DEF CoverInv
<1>3. ReadyInv => ReadyMeansPushed
  BY IdleFacts DEF ReadyInv, ExistInv, There, ReadyMeansPushed
<1> QED BY <1>1, <1>2, <1>3, PushTypeCorrect, PTL DEF Spec
=============================================================================
