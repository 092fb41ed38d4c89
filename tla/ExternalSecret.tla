--------------------------- MODULE ExternalSecret ---------------------------
(***************************************************************************)
(* The ExternalSecret controller (pkg/controllers/externalsecret) for      *)
(* targets that are Secrets: several resources, reconciled side by side,   *)
(* that may name the same target.                                          *)
(*                                                                         *)
(* The controller reads Secrets from two caches, one of the metadata,      *)
(* whose events also wake it, and one of the objects; each follows the API *)
(* server on its own.  A reconcile reads the resource, the caches and the  *)
(* provider in one step; the deletion of orphans, the write of the Secret  *)
(* and the update of the status are steps of their own.  A Secret has the  *)
(* resource version of its contents: two writes that leave the same        *)
(* contents are one write.                                                 *)
(***************************************************************************)
EXTENDS Integers, FiniteSets

CONSTANTS
    Es,        \* ExternalSecrets
    Targets,   \* names of Secrets
    Specs,     \* the specs users write
    InitialSpecs,   \* those each resource may begin with
    NoOne,     \* not a resource
    ReadOnMismatch,   \* EnableSecretAPIReadOnCacheMismatch
    MaxVersion, MaxChanges, MaxFaults   \* bounds

ASSUME ExternalSpecAssumption ==
    /\ NoOne \notin Es
    /\ Specs \subseteq [target : Targets, creation : {"Owner", "Merge", "Orphan", "None"},
                      deletion : {"Delete", "Merge", "Retain"},
                      refresh : {"Periodic", "OnChange", "CreatedOnce"}, interval : BOOLEAN]
    /\ InitialSpecs \in [Es -> SUBSET Specs]

ASSUME ExternalBoundAssumption ==
    /\ MaxVersion \in Nat \ {0} /\ MaxChanges \in Nat /\ MaxFaults \in Nat
    /\ ReadOnMismatch \in BOOLEAN

VARIABLES
    es,        \* the resources: state, spec, generation and finalizer
    status,    \* the Ready condition and SyncedResourceVersion
    provider,  \* the value the provider has for each resource, 0 for none
    secret,    \* the Secrets in the API server
    partial,   \* and in the cache of the metadata
    full,      \* and in the cache of the objects
    queued,    \* the resources in the work queue
    timer,     \* those that will be added when their interval has passed
    due,       \* those whose interval has passed since RefreshTime
    run,       \* the reconciles
    changes, faults

vars == <<es, status, provider, secret, partial, full, queued, timer, due, run,
          changes, faults>>
caches == <<partial, full>>
bounds == <<changes, faults>>

NoSecret ==
    [exists |-> FALSE, data |-> [e \in Es |-> 0], user |-> FALSE, hashed |-> FALSE,
     managed |-> FALSE, owner |-> NoOne, label |-> NoOne]

\* The key of each resource in a Secret, a key of a user, if the hash annotation fits the
\* data, the managed label, the controller reference and the owner label.
Secret ==
    [exists : {TRUE}, data : [Es -> 0 .. MaxVersion], user : BOOLEAN, hashed : BOOLEAN,
     managed : BOOLEAN, owner : Es \cup {NoOne}, label : Es \cup {NoOne}]

Idle == [pc |-> "idle"]

Init ==
    /\ \E spec \in [Es -> Specs] :
          /\ \A e \in Es : spec[e] \in InitialSpecs[e]
          /\ es = [e \in Es |->
                     [state |-> "live", spec |-> spec[e], gen |-> 1, fin |-> FALSE]]
    /\ status = [e \in Es |-> [ready |-> "none", rv |-> 0]]
    /\ provider = [e \in Es |-> 1]
    /\ secret = [t \in Targets |-> NoSecret]
    /\ partial = secret /\ full = secret
    /\ queued = Es /\ timer = {} /\ due = Es
    /\ run = [e \in Es |-> Idle]
    /\ changes = 0 /\ faults = 0

Change == changes < MaxChanges /\ changes' = changes + 1
Fault == faults < MaxFaults /\ faults' = faults + 1

Target(e) == es[e].spec.target

-----------------------------------------------------------------------------
(* Decisions *)

shouldRefresh(e) ==
    LET first == status[e].rv = 0
        changed == status[e].rv # es[e].gen
    IN  CASE es[e].spec.refresh = "CreatedOnce" -> first
          [] es[e].spec.refresh = "OnChange" -> changed
          [] OTHER -> first \/ (es[e].spec.interval /\ (changed \/ e \in due))

isSecretValid(e, s) ==
    es[e].spec.creation = "Orphan" \/ (s.exists /\ s.managed /\ s.hashed)

\* The two caches agree on the target, or the API server agrees with the first.
CachesAgree(t) ==
    partial[t] = full[t] \/ (ReadOnMismatch /\ partial[t] = secret[t])

OwnedByOther(e, s) == s.owner \notin {e, NoOne}

\* mutationFunc: only the policy Merge keeps the keys of others.
Mutate(e, spec, s, value) ==
    [exists |-> TRUE,
     data |-> [o \in Es |-> IF o = e THEN value
                            ELSE IF spec.creation = "Merge" THEN s.data[o] ELSE 0],
     user |-> spec.creation = "Merge" /\ s.user,
     hashed |-> TRUE, managed |-> TRUE,
     owner |-> IF spec.creation = "Owner" THEN e
               ELSE IF s.owner = e THEN NoOne ELSE s.owner,
     label |-> IF spec.creation = "Owner" THEN e ELSE NoOne]

-----------------------------------------------------------------------------
(* The beginning of a reconcile *)

Begins(e) == e \in queued /\ run[e] = Idle

\* A live resource, past its finalizer and the managed label of the target.
Proceeds(e) ==
    /\ Begins(e) /\ es[e].state = "live" /\ es[e].fin
    /\ (partial[Target(e)].exists => partial[Target(e)].managed)
    /\ CachesAgree(Target(e))

ReconcileGone(e) ==
    /\ Begins(e) /\ es[e].state = "gone"
    /\ queued' = queued \ {e}
    /\ UNCHANGED <<es, status, provider, secret, caches, timer, due, run, bounds>>

\* cleanupManagedSecrets, then the finalizer goes and with it the resource.
Cleanup(e) ==
    /\ Begins(e) /\ es[e].state = "deleting"
    /\ secret' = IF es[e].spec.deletion = "Delete" /\ secret[Target(e)].owner = e
                 THEN [secret EXCEPT ![Target(e)] = NoSecret] ELSE secret
    /\ es' = [es EXCEPT ![e].state = "gone", ![e].fin = FALSE]
    /\ queued' = queued \ {e}
    /\ UNCHANGED <<status, provider, caches, timer, due, run, bounds>>

\* The patch of the finalizer also wakes the resource again.
AddFinalizer(e) ==
    /\ Begins(e) /\ es[e].state = "live" /\ ~es[e].fin
    /\ es' = [es EXCEPT ![e].fin = TRUE]
    /\ UNCHANGED <<status, provider, secret, caches, queued, timer, due, run, bounds>>

\* A Secret without the managed label gets it, so that the caches see it.
LabelTarget(e) ==
    /\ Begins(e) /\ es[e].state = "live" /\ es[e].fin
    /\ partial[Target(e)].exists /\ ~partial[Target(e)].managed
    /\ secret[Target(e)].exists
    /\ secret' = [secret EXCEPT ![Target(e)].managed = TRUE]
    /\ UNCHANGED <<es, status, provider, caches, queued, timer, due, run, bounds>>

\* Nothing to do.  getRequeueResult asks for the rest of the interval, or for another call
\* at once if nothing is left of it.
Skip(e) ==
    /\ Proceeds(e) /\ ~shouldRefresh(e) /\ isSecretValid(e, partial[Target(e)])
    /\ queued' = IF es[e].spec.interval /\ e \in due THEN queued ELSE queued \ {e}
    /\ timer' = IF es[e].spec.interval /\ e \notin due THEN timer \cup {e} ELSE timer
    /\ UNCHANGED <<es, status, provider, secret, caches, due, run, bounds>>

Refreshes(e) ==
    Proceeds(e) /\ (shouldRefresh(e) \/ ~isSecretValid(e, partial[Target(e)]))

\* The end of a reconcile: the condition, and if the resource is to be queued again.
Done(e) == [pc |-> "status", seen |-> es[e], ready |-> "true", again |-> FALSE]
Failed(e, again) == [pc |-> "status", seen |-> es[e], ready |-> "false", again |-> again]

\* The provider cannot be read, or the Secret to delete cannot be deleted.
FetchFails(e) ==
    /\ Refreshes(e) /\ Fault
    /\ run' = [run EXCEPT ![e] = Failed(e, TRUE)]
    /\ queued' = queued \ {e}
    /\ UNCHANGED <<es, status, provider, secret, caches, timer, due, changes>>

\* The provider has no data: the Secret is kept, or deleted if the creation policy is
\* Owner.  The Secret deleted is the one of that name, whoever owns it.
NoData(e) ==
    /\ Refreshes(e) /\ provider[e] = 0 /\ es[e].spec.deletion # "Merge"
    /\ LET deletes == es[e].spec.deletion = "Delete"
           owner == es[e].spec.creation = "Owner"
       IN  /\ secret' = IF deletes /\ owner /\ partial[Target(e)].exists
                        THEN [secret EXCEPT ![Target(e)] = NoSecret] ELSE secret
           /\ run' = [run EXCEPT ![e] =
                 IF deletes /\ ~owner THEN Failed(e, FALSE) ELSE Done(e)]
    /\ queued' = queued \ {e}
    /\ UNCHANGED <<es, status, provider, caches, timer, due, bounds>>

HasWork(e) == Refreshes(e) /\ (provider[e] # 0 \/ es[e].spec.deletion = "Merge")

\* Nothing is written with the policy None, or with Merge and no Secret to merge into.
NothingToWrite(e) ==
    /\ HasWork(e)
    /\ \/ es[e].spec.creation = "None"
       \/ es[e].spec.creation = "Merge" /\ ~partial[Target(e)].exists
    /\ run' = [run EXCEPT ![e] = Done(e)]
    /\ queued' = queued \ {e}
    /\ UNCHANGED <<es, status, provider, secret, caches, timer, due, bounds>>

StartWriteWith(e, orphans) ==
    /\ run' = [run EXCEPT ![e] =
          [pc |-> "write", seen |-> es[e], target |-> partial[Target(e)],
           value |-> provider[e],
           orphans |-> IF es[e].spec.creation = "Owner" THEN orphans ELSE {}]]
    /\ queued' = queued \ {e}
    /\ UNCHANGED <<es, status, provider, secret, caches, timer, due, bounds>>

Orphans(e) == {t \in Targets \ {Target(e)} : partial[t].label = e}

\* Mutant: a Secret to merge into is not asked for.
StartWriteMissing(e) ==
    /\ HasWork(e) /\ es[e].spec.creation # "None"
    /\ StartWriteWith(e, Orphans(e))

\* The Secret is to be written; the policy Owner lists its orphans first.
StartWrite(e) ==
    /\ HasWork(e)
    /\ es[e].spec.creation # "None"
    /\ es[e].spec.creation = "Merge" => partial[Target(e)].exists
    /\ StartWriteWith(e, Orphans(e))

-----------------------------------------------------------------------------
(* The writes *)

\* deleteOrphanedSecrets, by name.
DeleteOrphan(e) ==
    /\ run[e].pc = "write"
    /\ \E t \in run[e].orphans :
          /\ secret' = [secret EXCEPT ![t] = NoSecret]
          /\ run' = [run EXCEPT ![e].orphans = @ \ {t}]
    /\ UNCHANGED <<es, status, provider, caches, queued, timer, due, bounds>>

Writes(e) == run[e].pc = "write" /\ run[e].orphans = {}

Wanted(e) == Mutate(e, run[e].seen.spec, run[e].target, run[e].value)

\* The Secret read is not what it should be, and not another's.
MustWrite(e) ==
    Writes(e) /\ ~OwnedByOther(e, run[e].target) /\ Wanted(e) # run[e].target

\* Mutant: the update does not ask for the version read.
WriteSecretLast(e) ==
    /\ MustWrite(e)
    /\ secret' = [secret EXCEPT ![run[e].seen.spec.target] = Wanted(e)]
    /\ run' = [run EXCEPT ![e] =
          [pc |-> "status", seen |-> run[e].seen, ready |-> "true", again |-> FALSE]]
    /\ UNCHANGED <<es, status, provider, caches, queued, timer, due, bounds>>

\* createSecret, or updateSecret with the resource version of the Secret read.
WriteSecret(e) ==
    /\ MustWrite(e)
    /\ LET t == run[e].seen.spec.target
       IN  secret[t] = run[e].target /\ secret' = [secret EXCEPT ![t] = Wanted(e)]
    /\ run' = [run EXCEPT ![e] =
          [pc |-> "status", seen |-> run[e].seen, ready |-> "true", again |-> FALSE]]
    /\ UNCHANGED <<es, status, provider, caches, queued, timer, due, bounds>>

\* The Secret read is right as it is, and nothing is asked of the API server.
WriteNothing(e) ==
    /\ Writes(e) /\ ~OwnedByOther(e, run[e].target) /\ Wanted(e) = run[e].target
    /\ run' = [run EXCEPT ![e] =
          [pc |-> "status", seen |-> run[e].seen, ready |-> "true", again |-> FALSE]]
    /\ UNCHANGED <<es, status, provider, secret, caches, queued, timer, due, bounds>>

\* Another resource owns the Secret: no retry would help, so none is asked for.
WriteOwned(e) ==
    /\ Writes(e) /\ OwnedByOther(e, run[e].target)
    /\ run' = [run EXCEPT ![e] =
          [pc |-> "status", seen |-> run[e].seen, ready |-> "false", again |-> FALSE]]
    /\ UNCHANGED <<es, status, provider, secret, caches, queued, timer, due, bounds>>

\* The Secret has changed since it was read.  A conflict of an update ends the reconcile
\* without a status.
WriteConflict(e) ==
    /\ MustWrite(e)
    /\ run[e].target.exists /\ secret[run[e].seen.spec.target].exists
    /\ secret[run[e].seen.spec.target] # run[e].target
    /\ run' = [run EXCEPT ![e] = Idle] /\ queued' = queued \cup {e}
    /\ UNCHANGED <<es, status, provider, secret, caches, timer, due, bounds>>

\* A Secret made or deleted since then is an error, like a call that fails.
WriteFails(e) ==
    /\ run[e].pc = "write"
    /\ \/ /\ MustWrite(e)
          /\ run[e].target.exists # secret[run[e].seen.spec.target].exists
          /\ UNCHANGED faults
       \/ Fault
    /\ run' = [run EXCEPT ![e] =
          [pc |-> "status", seen |-> run[e].seen, ready |-> "false", again |-> TRUE]]
    /\ UNCHANGED <<es, status, provider, secret, caches, queued, timer, due, changes>>

\* The deferred update of the status.  A resource that has changed since it was read is
\* a conflict, and queued again as after a failure; markAsDone sets RefreshTime and
\* SyncedResourceVersion.
UpdateStatus(e) ==
    LET r == run[e]
        done == r.ready = "true"
    IN  /\ r.pc = "status"
        /\ \/ /\ r.seen = es[e]
              /\ status' = [status EXCEPT ![e] =
                    [ready |-> r.ready, rv |-> IF done THEN r.seen.gen ELSE @.rv]]
              /\ due' = IF done THEN due \ {e} ELSE due
              /\ queued' = IF r.again THEN queued \cup {e} ELSE queued
              /\ timer' = IF done /\ r.seen.spec.interval THEN timer \cup {e} ELSE timer
              /\ UNCHANGED faults
           \/ /\ IF r.seen # es[e] THEN UNCHANGED faults ELSE Fault
              /\ queued' = queued \cup {e}
              /\ UNCHANGED <<status, timer, due>>
        /\ run' = [run EXCEPT ![e] = Idle]
        /\ UNCHANGED <<es, provider, secret, caches, changes>>

-----------------------------------------------------------------------------
(* The caches, the garbage collector, time, users and crashes *)

\* Mutant: only the owner watches a Secret.
findOwner(t) == {e \in Es : es[e].state # "gone" /\ secret[t].owner = e}

findObjectsForSecret(t) == {e \in Es : es[e].state # "gone" /\ Target(e) = t}

\* The event of a Secret with the managed label wakes the resources that target it.
PartialFollows(t) ==
    /\ partial[t] # secret[t]
    /\ partial' = [partial EXCEPT ![t] = secret[t]]
    /\ LET object == IF secret[t].exists THEN secret[t] ELSE partial[t]
       IN  queued' = IF object.managed THEN queued \cup findObjectsForSecret(t) ELSE queued
    /\ UNCHANGED <<es, status, provider, secret, full, timer, due, run, bounds>>

FullFollows(t) ==
    /\ full[t] # secret[t]
    /\ full' = [full EXCEPT ![t] = secret[t]]
    /\ UNCHANGED <<es, status, provider, secret, partial, queued, timer, due, run, bounds>>

\* Kubernetes deletes a Secret whose owner is gone.
GarbageCollect(t) ==
    /\ secret[t].owner # NoOne /\ es[secret[t].owner].state = "gone"
    /\ secret' = [secret EXCEPT ![t] = NoSecret]
    /\ UNCHANGED <<es, status, provider, caches, queued, timer, due, run, bounds>>

Fire(e) ==
    /\ e \in timer
    /\ timer' = timer \ {e} /\ due' = due \cup {e} /\ queued' = queued \cup {e}
    /\ UNCHANGED <<es, status, provider, secret, caches, run, bounds>>

ChangeSpec(e) ==
    /\ es[e].state = "live" /\ Change
    /\ \E s \in Specs \ {es[e].spec} : es' = [es EXCEPT ![e].spec = s, ![e].gen = @ + 1]
    /\ queued' = queued \cup {e}
    /\ UNCHANGED <<status, provider, secret, caches, timer, due, run, faults>>

DeleteEs(e) ==
    /\ es[e].state = "live" /\ Change
    /\ es' = [es EXCEPT ![e].state = IF es[e].fin THEN "deleting" ELSE "gone"]
    /\ queued' = queued \cup {e}
    /\ UNCHANGED <<status, provider, secret, caches, timer, due, run, faults>>

ChangeProvider(e) ==
    /\ Change
    /\ \E v \in 0 .. MaxVersion : v # provider[e] /\ provider' = [provider EXCEPT ![e] = v]
    /\ UNCHANGED <<es, status, secret, caches, queued, timer, due, run, faults>>

\* A user makes a Secret, edits one or deletes one.
ChangeSecret(t) ==
    /\ Change
    /\ secret' = [secret EXCEPT ![t] =
          IF secret[t].exists THEN [secret[t] EXCEPT !.user = ~@, !.hashed = FALSE]
          ELSE [NoSecret EXCEPT !.exists = TRUE, !.user = TRUE]]
    /\ UNCHANGED <<es, status, provider, caches, queued, timer, due, run, faults>>

RemoveSecret(t) ==
    /\ secret[t].exists /\ Change
    /\ secret' = [secret EXCEPT ![t] = NoSecret]
    /\ UNCHANGED <<es, status, provider, caches, queued, timer, due, run, faults>>

\* The next process lists the resources and the Secrets.
Crash ==
    /\ Fault
    /\ run' = [e \in Es |-> Idle] /\ timer' = {}
    /\ queued' = {e \in Es : es[e].state # "gone"}
    /\ partial' = secret /\ full' = secret
    /\ UNCHANGED <<es, status, provider, secret, due, changes>>

Reconcile(e) ==
    \/ ReconcileGone(e) \/ Cleanup(e) \/ AddFinalizer(e) \/ LabelTarget(e) \/ Skip(e)
    \/ FetchFails(e) \/ NoData(e) \/ NothingToWrite(e) \/ StartWrite(e)
    \/ DeleteOrphan(e) \/ WriteSecret(e) \/ WriteNothing(e) \/ WriteOwned(e)
    \/ WriteConflict(e) \/ WriteFails(e) \/ UpdateStatus(e)

User ==
    \/ \E e \in Es : ChangeSpec(e) \/ DeleteEs(e) \/ ChangeProvider(e)
    \/ \E t \in Targets : ChangeSecret(t) \/ RemoveSecret(t)

Next ==
    \/ \E e \in Es : Reconcile(e) \/ Fire(e)
    \/ \E t \in Targets : PartialFollows(t) \/ FullFollows(t) \/ GarbageCollect(t)
    \/ User \/ Crash

Spec == Init /\ [][Next]_vars

FairSpec ==
    /\ Spec
    /\ \A e \in Es : WF_vars(Reconcile(e)) /\ WF_vars(Fire(e))
    /\ \A t \in Targets : WF_vars(PartialFollows(t) \/ FullFollows(t) \/ GarbageCollect(t))

-----------------------------------------------------------------------------
(* Properties *)

Resource ==
    [state : {"live", "deleting", "gone"}, spec : Specs, gen : 1 .. MaxChanges + 1,
     fin : BOOLEAN]

\* A reconcile that writes a Secret, and one that ends.
Writing ==
    [pc : {"write"}, seen : Resource, target : Secret \cup {NoSecret},
     value : 0 .. MaxVersion, orphans : SUBSET Targets]
Ending ==
    [pc : {"status"}, seen : Resource, ready : {"true", "false"}, again : BOOLEAN]

\* Every variable has its type, and a reconcile that writes knows the Secret it merges
\* into and none of its orphans is its target.
TypeOK ==
    /\ es \in [Es -> Resource]
    /\ status \in [Es -> [ready : {"none", "true", "false"}, rv : 0 .. MaxChanges + 1]]
    /\ provider \in [Es -> 0 .. MaxVersion]
    /\ {secret, partial, full} \subseteq [Targets -> Secret \cup {NoSecret}]
    /\ queued \subseteq Es /\ timer \subseteq Es /\ due \subseteq Es
    /\ run \in [Es -> {Idle} \cup Writing \cup Ending]
    /\ \A e \in Es : run[e].pc = "write" =>
          LET spec == run[e].seen.spec
          IN  /\ spec.creation # "None"
              /\ spec.creation = "Merge" => run[e].target.exists
              /\ spec.target \notin run[e].orphans
    /\ changes \in 0 .. MaxChanges /\ faults \in 0 .. MaxFaults
    /\ \A e \in Es : es[e].gen <= changes + 1

\* A write never takes a Secret from the resource that owns it, whatever the caches say
\* and however two reconciles interleave: the owner is checked on the Secret read, and
\* the write asks for the very version read (externalsecret_controller.go:805, 1003).
NoTakeover ==
    [][\A t \in Targets :
          (secret[t].owner # NoOne /\ secret'[t].exists) =>
             \/ secret'[t].owner = secret[t].owner
             \/ run'[secret[t].owner] # run[secret[t].owner]]_vars

\* The data of a resource is in its target, unless that is another's or has to be there
\* first; with the policy Owner, no other Secret has its label.
InPlace(e) ==
    LET s == secret[Target(e)]
    IN  /\ \/ s.exists /\ s.data[e] = provider[e]
           \/ OwnedByOther(e, s)
           \/ es[e].spec.creation = "Merge" /\ ~s.exists
        /\ es[e].spec.creation = "Owner" =>
              \A t \in Targets : secret[t].label = e => t = Target(e)

Asks(e) ==
    /\ es[e].state = "live" /\ es[e].spec.creation # "None" /\ provider[e] # 0
    /\ es[e].spec.refresh = "Periodic" /\ es[e].spec.interval

\* A resource that refreshes gets its data into its target again and again, and the
\* Secrets under the names it had before are deleted, though the cache may not have shown
\* them yet.  Nobody who waits for an owner to let go is forgotten, though the reconcile
\* that finds the owner asks for no other (externalsecret_controller.go:566, 1414).
Served == \A e \in Es : <>[]Asks(e) => []<>InPlace(e)
=============================================================================
