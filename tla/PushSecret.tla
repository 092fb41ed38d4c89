----------------------------- MODULE PushSecret -----------------------------
(***************************************************************************)
(* The PushSecret controller (pkg/controllers/pushsecret): the keys of     *)
(* source Secrets are written to items of Akeyless, the status keeps the   *)
(* references written, and with the deletion policy Delete what the status *)
(* keeps and the resource no longer asks for is deleted again.             *)
(*                                                                         *)
(* A reconcile reads the resource, the source and the stores in one step;  *)
(* from there every call of the provider is a read step and a write step,  *)
(* and the status is patched last, so that users, another writer of the    *)
(* items, failures and crashes come in between.                            *)
(***************************************************************************)
EXTENDS AkeylessItem, Integers

CONSTANTS
    Sources,     \* the Secrets of the namespace a resource may select
    SourceKeys,  \* the keys of each
    Stores, Items,
    Specs,       \* the specs users write
    InitialSpecs,
    Other,       \* the property another writer keeps in the items
    MaxVersion, MaxChanges, MaxFaults   \* bounds

Keys == UNION {SourceKeys[s] : s \in Sources}

\* The properties a reference names, and the entries and specs users write.
RefProps == (Names \ {Other}) \cup {Whole}
Entry == [key : Keys, item : Items, prop : RefProps]
SpecType ==
    [named : BOOLEAN, sources : SUBSET Sources, data : SUBSET Entry, dataTo : BOOLEAN,
     policy : {"Delete", "None"}, ifNotExists : BOOLEAN, interval : BOOLEAN,
     stores : SUBSET Stores]

\* dataTo makes items of the names of the keys.
ASSUME PushSpecAssumption ==
    /\ Other \in Names /\ Keys \subseteq Names \ {Other}
    /\ Specs \subseteq SpecType /\ InitialSpecs \subseteq Specs
    /\ \A spec \in Specs : spec.dataTo => Keys \subseteq Items

ASSUME PushBoundAssumption ==
    MaxVersion \in Nat \ {0} /\ MaxChanges \in Nat /\ MaxFaults \in Nat

VARIABLES
    obj,      \* the resource: its state, spec, generation and finalizer
    status,   \* SyncedPushSecrets, the Ready condition and SyncedResourceVersion
    due,      \* the refresh interval has passed since RefreshTime
    queued, timer,   \* the resource is in the work queue; it will be added later
    source,   \* the version of every source Secret, 0 when there is none
    store,    \* the stores: in use or being deleted
    remote,   \* the items in every store
    run,      \* the reconcile
    lost,     \* history: references whose last remote change no status tells of
    cleaned,  \* history: the finalizer was removed by a clean-up
    parked,   \* history: the last reconcile was the clean-up after a deleted source
    changes, faults

vars == <<obj, status, due, queued, timer, source, store, remote, run, lost, cleaned,
          parked, changes, faults>>
work == <<queued, timer>>
cluster == <<source, store>>
ends == <<cleaned, parked>>
bounds == <<changes, faults>>

\* What the status keeps: statusRef(data) under the name of the store.
Refs == [store : Stores, item : Items, prop : RefProps]

\* An entry to push to a store.
Target == [store : Stores, entry : Entry]
RefOf(t) == [store |-> t.store, item |-> t.entry.item, prop |-> t.entry.prop]

ItemAt(r) == remote[r.store][r.item]

\* The references that are in Akeyless, in an item the provider may delete.
Present == {r \in Refs : Deletable(ItemAt(r)) /\ SecretExists(ItemAt(r), r.prop)}

\* The values in the tagged items that are not the other writer's.
Mine == {r \in Present : r.prop # Whole}

\* No reconcile; the references a reconcile has changed are in touched.
Idle == [pc |-> "idle", touched |-> {}]

Init ==
    /\ obj \in [state : {"live"}, spec : InitialSpecs, gen : {1}, fin : {FALSE}]
    /\ status = [synced |-> {}, ready |-> "none", rv |-> 0]
    /\ due = TRUE /\ queued = TRUE /\ timer = FALSE
    /\ source = [s \in Sources |-> 1]
    /\ store = [st \in Stores |-> "used"]
    /\ remote = [st \in Stores |-> [i \in Items |-> NoItem]]
    /\ run = Idle /\ lost = {} /\ cleaned = FALSE /\ parked = FALSE
    /\ changes = 0 /\ faults = 0

Change == changes < MaxChanges /\ changes' = changes + 1
Fault == faults < MaxFaults /\ faults' = faults + 1

-----------------------------------------------------------------------------
(* Before the first call of the provider *)

\* shouldRefresh; an interval of zero refreshes on a change only.
shouldRefresh ==
    \/ status.rv # obj.gen
    \/ obj.spec.interval /\ due

\* The source Secrets resolveSecrets finds.
Selected == {s \in obj.spec.sources : source[s] # 0}

\* GetSecretStores less the stores that are being deleted.
ActiveStores == {st \in obj.spec.stores : store[st] = "used"}

\* expandDataTo and resolveSourceKeyConflicts: a key without an entry of its own goes
\* to the item of its name.
Entries(spec, s) ==
    spec.data \cup
    (IF ~spec.dataTo THEN {}
     ELSE {[key |-> k, item |-> k, prop |-> Whole] :
             k \in SourceKeys[s] \ {e.key : e \in spec.data}})

Targets(spec, s, stores) == [store : stores, entry : Entries(spec, s)]

\* A deletion policy of None takes the finalizer off and the reconcile goes on,
\* even if that was what kept a deleted resource.
DropFinalizer ==
    LET drop == obj.fin /\ obj.spec.policy = "None"
    IN  obj' = [obj EXCEPT !.fin = @ /\ ~drop,
                           !.state = IF drop /\ @ = "deleting" THEN "gone" ELSE @]

\* The reconcile goes past the finalizer.
Proceeds ==
    /\ run = Idle /\ queued /\ obj.state # "gone"
    /\ obj.spec.policy = "Delete" => obj.fin /\ obj.state = "live"

\* The end of a reconcile: the status to patch, and if it asks for another at once
\* or after the interval.
Patch(newStatus, again, after, touched) ==
    [pc |-> "patch", status |-> newStatus, again |-> again, after |-> after,
     touched |-> touched]

\* markAsFailed with a state to keep; the error puts the resource back in the queue.
markAsFailed(synced) == [status EXCEPT !.ready = "false", !.synced = synced]

\* DeleteSecretFromProviders with an empty map: nothing has been pushed.
NoJob == [stores |-> {}, out |-> {}, all |-> {}]
DeleteAll(why) ==
    [pc |-> "delete", why |-> why, job |-> NoJob, todo |-> status.synced,
     bad |-> status.synced, touched |-> {}]

\* History: without the policy Delete the references a new status leaves out are
\* nobody's any more.
Forget(policy, synced) ==
    lost' = IF policy = "Delete" THEN lost ELSE lost \cup (status.synced \ synced)

\* The resource is gone.
ReconcileGone ==
    /\ run = Idle /\ queued /\ obj.state = "gone"
    /\ queued' = FALSE
    /\ UNCHANGED <<obj, status, due, timer, cluster, remote, run, lost, ends, bounds>>

\* The finalizer comes before anything is pushed.
AddFinalizer ==
    /\ run = Idle /\ queued
    /\ obj.spec.policy = "Delete" /\ obj.state = "live" /\ ~obj.fin
    /\ obj' = [obj EXCEPT !.fin = TRUE]
    /\ UNCHANGED <<status, due, work, cluster, remote, run, lost, ends, bounds>>

\* Mutant: a reconcile with nothing to do asks for no other.
SkipForGood ==
    /\ Proceeds /\ ~shouldRefresh
    /\ DropFinalizer
    /\ queued' = FALSE
    /\ UNCHANGED <<status, due, timer, cluster, remote, run, lost, ends, bounds>>

\* Nothing to do yet: the resource comes back when its interval has passed.
SkipRefresh ==
    /\ Proceeds /\ ~shouldRefresh
    /\ DropFinalizer
    /\ queued' = FALSE /\ timer' = (timer \/ obj.spec.interval)
    /\ UNCHANGED <<status, due, cluster, remote, run, lost, ends, bounds>>

\* The source named is not there and has been pushed: what was pushed is deleted.
SourceDeleted ==
    /\ Proceeds /\ shouldRefresh
    /\ obj.spec.named /\ Selected = {} /\ obj.spec.policy = "Delete" /\ status.synced # {}
    /\ DropFinalizer
    /\ run' = DeleteAll("source")
    /\ queued' = FALSE
    /\ UNCHANGED <<status, due, timer, cluster, remote, lost, ends, bounds>>

\* The source named is not there: an error.  The source and the stores may also just
\* fail to be read.
ResolveFails ==
    /\ Proceeds /\ shouldRefresh
    /\ \/ /\ obj.spec.named /\ Selected = {}
          /\ (obj.spec.policy # "Delete" \/ status.synced = {})
          /\ UNCHANGED faults
       \/ Fault
    /\ DropFinalizer
    /\ run' = Patch(markAsFailed(status.synced), TRUE, FALSE, {})
    /\ queued' = FALSE
    /\ UNCHANGED <<status, due, timer, cluster, remote, lost, ends, changes>>

\* No store is left to push to: the reconcile ends without asking for another.
NoStores ==
    /\ Proceeds /\ shouldRefresh
    /\ (obj.spec.named => Selected # {}) /\ ActiveStores = {}
    /\ DropFinalizer
    /\ queued' = FALSE
    /\ UNCHANGED <<status, due, timer, cluster, remote, run, lost, ends, bounds>>

\* No Secret has the labels: nothing is pushed and nothing deleted, and the status
\* is that of a sync.  History: what the status has listed is nobody's any more.
NothingSelected ==
    /\ Proceeds /\ shouldRefresh
    /\ ~obj.spec.named /\ Selected = {} /\ ActiveStores # {}
    /\ DropFinalizer
    /\ run' = Patch([synced |-> {}, ready |-> "true", rv |-> obj.gen],
                    FALSE, obj.spec.interval, {})
    /\ lost' = lost \cup status.synced
    /\ queued' = FALSE
    /\ UNCHANGED <<status, due, timer, cluster, remote, ends, bounds>>

\* The first of the source Secrets.
StartPush ==
    /\ Proceeds /\ shouldRefresh
    /\ Selected # {} /\ ActiveStores # {}
    /\ DropFinalizer
    /\ \E s \in Selected :
          run' = [pc |-> "push", touched |-> {},
                  job |-> [spec |-> obj.spec, gen |-> obj.gen, stores |-> ActiveStores,
                           version |-> source, secret |-> s, left |-> Selected \ {s},
                           out |-> {}, all |-> {}],
                  todo |-> Targets(obj.spec, s, ActiveStores)]
    /\ queued' = FALSE
    /\ parked' = FALSE
    /\ UNCHANGED <<status, due, timer, cluster, remote, lost, cleaned, bounds>>

\* A deleted resource with the finalizer: everything in the status is deleted.
StartCleanup ==
    /\ run = Idle /\ queued
    /\ obj.spec.policy = "Delete" /\ obj.state = "deleting" /\ obj.fin
    /\ run' = DeleteAll("cleanup")
    /\ queued' = FALSE
    /\ UNCHANGED <<obj, status, due, timer, cluster, remote, lost, ends, bounds>>

-----------------------------------------------------------------------------
(* PushSecretToProviders *)

Data == [k \in SourceKeys[run.job.secret] |-> run.job.version[run.job.secret]]

\* validateRemoteKeyUniqueness
Unique(entries) ==
    \A e, f \in entries : e # f => <<e.item, e.prop>> # <<f.item, f.prop>>

\* The entries of the Secret are accepted before the first of them is pushed.
Accepted == Unique(Entries(run.job.spec, run.job.secret))

secretKeyExists(t) == t.entry.key \in SourceKeys[run.job.secret]

Put(r, item) == remote' = [remote EXCEPT ![r.store][r.item] = item]

Pushed(t, written) ==
    [pc |-> "push", job |-> [run.job EXCEPT !.out = @ \cup {RefOf(t)}],
     todo |-> run.todo \ {t}, touched |-> run.touched \cup written]

\* The item is read.  Nothing is written if the policy IfNotExists finds the reference,
\* or if the map would not change; the reference counts as pushed all the same.
PushRead ==
    /\ run.pc = "push" /\ Accepted
    /\ \E t \in run.todo :
          LET item == ItemAt(RefOf(t))
          IN  /\ secretKeyExists(t)
              /\ run' = IF \/ run.job.spec.ifNotExists /\ SecretExists(item, t.entry.prop)
                           \/ item = PushSecret(item, Data, t.entry)
                        THEN Pushed(t, {})
                        ELSE [pc |-> "pushWrite", job |-> run.job, todo |-> run.todo,
                              touched |-> run.touched, cur |-> t, seen |-> item]
    /\ UNCHANGED <<obj, status, due, work, cluster, remote, lost, ends, bounds>>

\* The map computed from what was read is written.  CreateSecret fails if the item is
\* there by now, UpdateSecret if it is gone.
WritePushed ==
    /\ ItemAt(RefOf(run.cur)).exists = run.seen.exists
    /\ Put(RefOf(run.cur), PushSecret(run.seen, Data, run.cur.entry))

PushWrite ==
    /\ run.pc = "pushWrite" /\ WritePushed
    /\ run' = Pushed(run.cur, {RefOf(run.cur)})
    /\ UNCHANGED <<obj, status, due, work, cluster, lost, ends, bounds>>

\* Mutant: the old state is given up for the new one.
newStateOnly(new, old) == new

\* mergeSecretState
mergeSecretState(new, old) == new \cup old

\* A push fails: at an entry the Secret has no key for, or with a call of Akeyless.
\* A write that is reported as failed may have been made.  History: what earlier Secrets
\* have pushed is not kept.
PushFails ==
    /\ run.pc \in {"push", "pushWrite"} /\ run.todo # {}
    /\ \/ /\ \/ run.pc = "push" /\ (~Accepted \/ \E t \in run.todo : ~secretKeyExists(t))
             \/ run.pc = "pushWrite" /\ ItemAt(RefOf(run.cur)).exists # run.seen.exists
          /\ UNCHANGED <<remote, faults>> /\ lost' = lost \cup run.job.all
       \/ Fault /\ UNCHANGED remote /\ lost' = lost \cup run.job.all
       \/ /\ Fault /\ run.pc = "pushWrite"
          /\ WritePushed
          /\ lost' = lost \cup run.job.all \cup {RefOf(run.cur)}
    /\ run' = Patch(markAsFailed(mergeSecretState(run.job.out, status.synced)), TRUE, FALSE,
                    run.touched)
    /\ UNCHANGED <<obj, status, due, work, cluster, ends, changes>>

-----------------------------------------------------------------------------
(* DeleteSecretFromProviders *)

StartDeleteOf(refs) ==
    /\ run.pc = "push" /\ run.todo = {} /\ run.job.spec.policy = "Delete"
    /\ run' = [pc |-> "delete", why |-> "push", job |-> run.job, todo |-> refs,
               bad |-> mergeSecretState(run.job.out, status.synced), touched |-> run.touched]
    /\ UNCHANGED <<obj, status, due, work, cluster, remote, lost, ends, bounds>>

\* Mutant: everything the status keeps is deleted.
StartDeleteAll == StartDeleteOf(status.synced)

\* What the status keeps and this Secret has not pushed.
StartDelete == StartDeleteOf(status.synced \ run.job.out)

\* A store that is not in the new map leaves the state when all of it is deleted, a
\* reference of the other stores when it is.
Deleted(r, written) ==
    LET todo == run.todo \ {r}
        done == IF r.store \in run.job.stores THEN {r}
                ELSE {q \in run.bad : q.store = r.store /\ \A p \in todo : p.store # q.store}
    IN  [pc |-> "delete", why |-> run.why, job |-> run.job, todo |-> todo,
         bad |-> run.bad \ done, touched |-> run.touched \cup written]

\* DescribeItem and GetSecret; an item that is not there or not tagged is left alone.
\* DescribeItem takes an error with a JSON body for an item that is not there.
DeleteRead ==
    /\ run.pc = "delete"
    /\ \E r \in run.todo :
          \/ /\ ~Deletable(ItemAt(r))
             /\ run' = Deleted(r, {})
             /\ UNCHANGED <<lost, faults>>
          \/ /\ Deletable(ItemAt(r))
             /\ run' = [pc |-> "deleteWrite", why |-> run.why, job |-> run.job,
                        todo |-> run.todo, bad |-> run.bad, touched |-> run.touched,
                        cur |-> r, seen |-> ItemAt(r)]
             /\ UNCHANGED <<lost, faults>>
          \/ /\ Fault
             /\ run' = Deleted(r, {})
             /\ lost' = lost \cup {r}
    /\ UNCHANGED <<obj, status, due, work, cluster, remote, ends, changes>>

DeleteWrite ==
    /\ run.pc = "deleteWrite" /\ ItemAt(run.cur).exists
    /\ Put(run.cur, DeleteSecret(run.seen, run.cur.prop))
    /\ run' = Deleted(run.cur, {run.cur})
    /\ UNCHANGED <<obj, status, due, work, cluster, lost, ends, bounds>>

\* A call fails; the state kept is what has not been deleted, and not what earlier
\* Secrets have pushed.
DeleteFails ==
    /\ run.pc \in {"delete", "deleteWrite"} /\ run.todo # {}
    /\ \/ run.pc = "deleteWrite" /\ ~ItemAt(run.cur).exists /\ UNCHANGED <<remote, faults>>
       \/ Fault /\ UNCHANGED remote
       \/ /\ Fault /\ run.pc = "deleteWrite" /\ ItemAt(run.cur).exists
          /\ Put(run.cur, DeleteSecret(run.seen, run.cur.prop))
    /\ run' = Patch(markAsFailed(run.bad), TRUE, FALSE,
                    run.touched \cup (IF remote' = remote THEN {} ELSE {run.cur}))
    /\ lost' = lost \cup run.job.all
    /\ UNCHANGED <<obj, status, due, work, cluster, ends, changes>>

-----------------------------------------------------------------------------
(* The end of a reconcile *)

\* One source Secret is done.
SecretDone ==
    \/ run.pc = "push" /\ run.todo = {} /\ run.job.spec.policy # "Delete"
    \/ run.pc = "delete" /\ run.todo = {} /\ run.why = "push"

NextSecret ==
    /\ SecretDone /\ run.job.left # {}
    /\ \E s \in run.job.left :
          run' = [pc |-> "push", touched |-> run.touched,
                  job |-> [run.job EXCEPT !.secret = s, !.left = @ \ {s}, !.out = {},
                                          !.all = mergeSecretState(@, run.job.out)],
                  todo |-> Targets(run.job.spec, s, run.job.stores)]
    /\ UNCHANGED <<obj, status, due, work, cluster, remote, lost, ends, bounds>>

\* markAsDone
PushDone ==
    /\ SecretDone /\ run.job.left = {}
    /\ LET synced == mergeSecretState(run.job.all, run.job.out)
       IN  /\ run' = Patch([synced |-> synced, ready |-> "true", rv |-> run.job.gen],
                           FALSE, run.job.spec.interval, run.touched)
           /\ Forget(run.job.spec.policy, synced)
    /\ UNCHANGED <<obj, status, due, work, cluster, remote, ends, bounds>>

\* handleSourceSecretDeleted: the reconcile ends and asks for no other.
SourceDone ==
    /\ run.pc = "delete" /\ run.todo = {} /\ run.why = "source"
    /\ run' = Patch([status EXCEPT !.synced = {}, !.ready = "sourceDeleted"], FALSE, FALSE,
                    run.touched)
    /\ parked' = TRUE
    /\ UNCHANGED <<obj, status, due, work, cluster, remote, lost, cleaned, bounds>>

\* The finalizer is removed and the resource is gone; the update may fail.
RemoveFinalizer ==
    /\ run.pc = "delete" /\ run.todo = {} /\ run.why = "cleanup"
    /\ \/ /\ obj' = [obj EXCEPT !.state = "gone", !.fin = FALSE]
          /\ cleaned' = TRUE /\ run' = Idle /\ UNCHANGED <<lost, faults>>
       \/ /\ Fault /\ run' = Patch(status, TRUE, FALSE, run.touched)
          /\ UNCHANGED <<obj, cleaned, lost>>
    /\ UNCHANGED <<status, due, work, cluster, remote, parked, changes>>

\* The deferred patch of the status.  A patch that fails is logged and no more.
PatchStatus ==
    /\ run.pc = "patch"
    /\ \/ /\ obj.state # "gone"
          /\ status' = run.status
          /\ due' = (due /\ (run.status.ready # "true" \/ run.again))
          /\ lost' = (lost \ status'.synced) \cap Present
          /\ UNCHANGED faults
       \/ /\ IF obj.state = "gone" THEN UNCHANGED faults ELSE Fault
          /\ lost' = lost \cup run.touched
          /\ UNCHANGED <<status, due>>
    /\ run' = Idle
    /\ queued' = (queued \/ run.again) /\ timer' = (timer \/ run.after)
    /\ UNCHANGED <<obj, cluster, remote, ends, changes>>

\* The operator stops; the next one lists the resources.
Crash ==
    /\ Fault
    /\ run' = Idle /\ queued' = (obj.state # "gone") /\ timer' = FALSE
    /\ lost' = lost \cup run.touched
    /\ parked' = FALSE
    /\ UNCHANGED <<obj, status, due, cluster, remote, cleaned, changes>>

-----------------------------------------------------------------------------
(* Users, time and the other writer *)

ChangeSpec ==
    /\ obj.state = "live" /\ Change
    /\ \E s \in Specs \ {obj.spec} : obj' = [obj EXCEPT !.spec = s, !.gen = @ + 1]
    /\ queued' = TRUE
    /\ UNCHANGED <<status, due, timer, cluster, remote, run, lost, ends, faults>>

DeleteObject ==
    /\ obj.state = "live" /\ Change
    /\ obj' = [obj EXCEPT !.state = IF obj.fin THEN "deleting" ELSE "gone"]
    /\ queued' = TRUE
    /\ UNCHANGED <<status, due, timer, cluster, remote, run, lost, ends, faults>>

\* A source Secret is written, made again or deleted; nothing watches it.
ChangeSource ==
    /\ Change
    /\ \E s \in Sources :
          \E v \in {0} \cup {n \in 1 .. MaxVersion : n > source[s]} :
             v # source[s] /\ source' = [source EXCEPT ![s] = v]
    /\ UNCHANGED <<obj, status, due, work, store, remote, run, lost, ends, faults>>

RetireStore ==
    /\ Change
    /\ \E st \in Stores : store[st] = "used" /\ store' = [store EXCEPT ![st] = "deleting"]
    /\ UNCHANGED <<obj, status, due, work, source, remote, run, lost, ends, faults>>

\* Someone else sets a property of an item in one call.
OtherWrites ==
    /\ Change
    /\ \E st \in Stores, i \in Items :
          /\ remote[st][i].map[Other] = 0
          /\ remote' = [remote EXCEPT ![st][i] =
                [exists |-> TRUE, tagged |-> remote[st][i].tagged,
                 map |-> [remote[st][i].map EXCEPT ![Other] = 1]]]
    /\ UNCHANGED <<obj, status, due, work, cluster, run, lost, ends, faults>>

Elapse ==
    /\ ~due /\ due' = TRUE
    /\ UNCHANGED <<obj, status, work, cluster, remote, run, lost, ends, bounds>>

Fire ==
    /\ timer /\ due
    /\ timer' = FALSE /\ queued' = TRUE
    /\ UNCHANGED <<obj, status, due, cluster, remote, run, lost, ends, bounds>>

Reconcile ==
    \/ ReconcileGone \/ AddFinalizer \/ SkipRefresh \/ SourceDeleted \/ ResolveFails
    \/ NoStores \/ NothingSelected \/ StartPush \/ StartCleanup
    \/ PushRead \/ PushWrite \/ PushFails
    \/ StartDelete \/ DeleteRead \/ DeleteWrite \/ DeleteFails
    \/ NextSecret \/ PushDone \/ SourceDone \/ RemoveFinalizer \/ PatchStatus

Next ==
    \/ Reconcile \/ Crash
    \/ ChangeSpec \/ DeleteObject \/ ChangeSource \/ RetireStore \/ OtherWrites
    \/ Elapse \/ Fire

Spec == Init /\ [][Next]_vars

FairSpec == Spec /\ WF_vars(Reconcile) /\ WF_vars(Elapse) /\ WF_vars(Fire)

-----------------------------------------------------------------------------
(* Properties *)

Resource ==
    [state : {"live", "deleting", "gone"}, spec : Specs, gen : 1 .. MaxChanges + 1,
     fin : BOOLEAN]
Status ==
    [synced : SUBSET Refs, ready : {"none", "true", "false", "sourceDeleted"},
     rv : 0 .. MaxChanges + 1]
Item == [exists : {TRUE}, tagged : BOOLEAN, map : [Names -> 0 .. MaxVersion] \ {NoItem.map}]

\* The phases of a reconcile.  It pushes Secrets that were there when it began.
Job ==
    {j \in [spec : Specs, gen : 1 .. MaxChanges + 1, stores : SUBSET Stores,
            version : [Sources -> 0 .. MaxVersion], secret : Sources, left : SUBSET Sources,
            out : SUBSET Refs, all : SUBSET Refs] :
       \A s \in j.left \cup {j.secret} : j.version[s] # 0}
Pushing ==
    [pc : {"push"}, job : Job, todo : SUBSET Target, touched : SUBSET Refs]
PushWriting ==
    [pc : {"pushWrite"}, job : Job, todo : SUBSET Target, touched : SUBSET Refs,
     cur : Target, seen : Item \cup {NoItem}]
Deleting ==
    [pc : {"delete"}, why : {"push", "source", "cleanup"}, job : Job \cup {NoJob},
     todo : SUBSET Refs, bad : SUBSET Refs, touched : SUBSET Refs]
DeleteWriting ==
    [pc : {"deleteWrite"}, why : {"push", "source", "cleanup"}, job : Job \cup {NoJob},
     todo : SUBSET Refs, bad : SUBSET Refs, touched : SUBSET Refs,
     cur : Refs, seen : Item]
Patching ==
    [pc : {"patch"}, status : Status, again : BOOLEAN, after : BOOLEAN,
     touched : SUBSET Refs]

Phases ==
    {Idle} \cup Pushing \cup PushWriting \cup Deleting \cup DeleteWriting \cup Patching

\* A reconcile writes nothing but an entry it has still to push or a reference it has
\* still to delete, and deletes what the status lists and it has not pushed.
RunOK(r) ==
    /\ r.pc \in {"push", "pushWrite"} =>
          r.todo \subseteq Targets(r.job.spec, r.job.secret, r.job.stores)
    /\ r.pc = "pushWrite" =>
          r.cur \in r.todo /\ r.cur.entry.key \in SourceKeys[r.job.secret]
    /\ r.pc \in {"delete", "deleteWrite"} =>
          /\ r.why = "push" => r.job \in Job /\ r.job.spec.policy = "Delete"
          /\ r.why # "push" => r.job = NoJob
          /\ r.todo \subseteq status.synced \ r.job.out
    /\ r.pc = "deleteWrite" => r.cur \in r.todo

\* The type of every variable; an item in Akeyless is never left without a property.
TypeOK ==
    /\ obj \in Resource /\ status \in Status
    /\ due \in BOOLEAN /\ queued \in BOOLEAN /\ timer \in BOOLEAN
    /\ source \in [Sources -> 0 .. MaxVersion]
    /\ store \in [Stores -> {"used", "deleting"}]
    /\ remote \in [Stores -> [Items -> Item \cup {NoItem}]]
    /\ run \in Phases /\ RunOK(run)
    /\ lost \subseteq Refs /\ cleaned \in BOOLEAN /\ parked \in BOOLEAN
    /\ changes \in 0 .. MaxChanges /\ faults \in 0 .. MaxFaults
    /\ obj.gen <= changes + 1

\* A resource deleted with the policy Delete leaves nothing of its own in Akeyless:
\* every reference pushed is gone from the tagged items, but for those no status could
\* tell of (a crash or a failed patch after the push, a deletion Akeyless answered
\* with an error; pushsecret_controller.go:226-240, 431-463).
NothingLeftBehind ==
    cleaned => \A r \in Mine : r \in lost \/ [r EXCEPT !.prop = Whole] \in lost

\* A resource at rest that is Ready has in Akeyless what its status lists, but for
\* references whose last change no status tells of: the deletions that follow a push
\* (pushsecret_controller.go:331) leave alone what the push has written.
ReadyMeansPushed ==
    (run = Idle /\ obj.state = "live" /\ status.ready = "true") =>
       \A r \in status.synced \ lost : SecretExists(ItemAt(r), r.prop)

\* The value another writer keeps in an item outlives a push or a deletion of another
\* property of it, unless it was written between the read and the write of the map
\* (akeyless.go:483-517, 540-560).
OtherOf(item) == item.map[Other]
OthersKept ==
    [][changes' = changes => \A st \in Stores, i \in Items :
          \/ OtherOf(remote'[st][i]) = OtherOf(remote[st][i])
          \/ /\ run.pc \in {"pushWrite", "deleteWrite"}
             /\ OtherOf(run.seen) # OtherOf(remote[st][i])
          \/ run.pc = "deleteWrite" /\ run.cur.prop = Whole]_vars

\* What a resource asks for, with the values its source has now.
InPlace ==
    /\ LET wanted == UNION {Targets(obj.spec, s, obj.spec.stores) : s \in Selected}
       IN  status.synced = {RefOf(t) : t \in wanted}
    /\ \A s \in Selected : \A t \in Targets(obj.spec, s, obj.spec.stores) :
          LET item == ItemAt(RefOf(t))
          IN  /\ SecretExists(item, t.entry.prop)
              /\ ~obj.spec.ifNotExists =>
                   \A p \in (IF t.entry.prop = Whole THEN SourceKeys[s] ELSE {t.entry.prop}) :
                      item.map[p] = source[s]

\* The entries can be pushed: they are distinct and the Secret has their keys.
Valid(spec, s) ==
    Unique(Entries(spec, s)) /\ \A e \in Entries(spec, s) : e.key \in SourceKeys[s]

\* When users, faults and the source are quiet, a resource with an interval gets
\* its source into every store and its status right.  It does not come back from the
\* state in which its source was deleted (pushsecret_controller.go:272), nor when all its
\* stores are being deleted (line 301).
PushedEventually ==
    <>[]((/\ obj.state = "live" /\ obj.spec.interval /\ Selected # {}
          /\ ~parked
          /\ \A st \in obj.spec.stores : store[st] = "used"
          /\ \A s \in Selected : Valid(obj.spec, s)) => InPlace)
=============================================================================
