----------------------- MODULE AkeylessWebhookProofs -----------------------
(***************************************************************************)
(* Type correctness of the event webhook and its promise to the sender, for *)
(* every number of resources, items and requests handled at a time.         *)
(***************************************************************************)
EXTENDS AkeylessWebhook, TLAPS

\* The cache has every resource there is, and one whose cached spec is old has a
\* generation to sync.
ListInv ==
    /\ exists \subseteq listed
    /\ \A r \in exists : cached[r] # spec[r] => r \in unsynced

\* An event speaks of a version its item has had.
Happened(e) == e.version <= remote[e.item]

EventsInv ==
    /\ \A e \in outbox \cup acked : Happened(e)
    /\ \A h \in Handlers : handler[h] # Idle => Happened(handler[h].event)

\* A resource that names the item of a request under way has been told, or will be: it
\* is on the list, or on the list that is still to be made.
Ahead(r, q) == r \in q.todo \/ (q.pc = "secrets" /\ r \in Dynamics)

FanOutInv ==
    \A h \in Handlers : handler[h] # Idle =>
       \A r \in exists :
          handler[h].event.item \in spec[r] =>
             Informed(r, handler[h].event) \/ Ahead(r, handler[h])

AckInv == TypeOK /\ ListInv /\ EventsInv /\ FanOutInv /\ AckMeansTold

-----------------------------------------------------------------------------
\* The fields of a request, which is not an idle handler.
LEMMA RequestFields ==
    ASSUME NEW q \in Request
    PROVE  /\ q # Idle
           /\ q.event \in Event /\ q.todo \subseteq Resources
           /\ q.pc \in {"secrets", "dynamic"}
BY DEF Request, Idle

\* So are those of a handler at work.
LEMMA HandlerFields ==
    ASSUME TypeOK, NEW h \in Handlers, handler[h] # Idle
    PROVE  /\ handler[h] \in Request
           /\ handler[h].event \in Event /\ handler[h].todo \subseteq Resources
           /\ handler[h].pc \in {"secrets", "dynamic"}
BY RequestFields DEF TypeOK

-----------------------------------------------------------------------------
(* Type correctness *)

\* The initial states have their types.
LEMMA TypeInit == Init => TypeOK
<1> SUFFICES ASSUME Init PROVE TypeOK
  OBVIOUS
<1>1. 1 \in 1 .. MaxVersion /\ 0 \in 0 .. MaxChanges /\ 0 \in 0 .. MaxFaults
  BY WebhookAssumption
<1>2. spec \in [Resources -> SUBSET Items]
  BY WebhookAssumption DEF Init, Resources
<1>3. handler \in [Handlers -> Request \cup {Idle}]
  BY DEF Init
<1> QED BY <1>1, <1>2, <1>3 DEF Init, TypeOK

\* A new request, with any list.
LEMMA RequestMade ==
    ASSUME NEW e \in Event, NEW l \in SUBSET Resources, NEW p \in {"secrets", "dynamic"}
    PROVE  [pc |-> p, event |-> e, todo |-> l] \in Request
BY DEF Request

\* A list of those that name an item is a list of resources.
LEMMA MatchingList ==
    ASSUME TypeOK, NEW l \in SUBSET Resources, NEW i
    PROVE  Matching(l, i) \in SUBSET Resources
BY DEF Matching

\* A step within the bounds keeps its counter in them.
LEMMA Counters ==
    ASSUME TypeOK
    PROVE  /\ Fault => faults' \in 0 .. MaxFaults
           /\ Change => changes' \in 0 .. MaxChanges
BY WebhookAssumption DEF TypeOK, Fault, Change

\* Every step keeps the types.
LEMMA TypeStep == TypeOK /\ [Next]_vars => TypeOK'
<1> SUFFICES ASSUME TypeOK, [Next]_vars PROVE TypeOK'
  OBVIOUS
<1>1. ASSUME NEW h \in Handlers, handleEvent(h) PROVE TypeOK'
  <2>1. PICK e \in outbox : handler' = [handler EXCEPT ![h] =
             [pc |-> "secrets", event |-> e, todo |-> Matching(Secrets, e.item)]]
    BY <1>1 DEF handleEvent
  <2>2. handler' \in [Handlers -> Request \cup {Idle}]
    BY <2>1, RequestMade, MatchingList DEF TypeOK, Resources
  <2> QED BY <1>1, <2>2 DEF handleEvent, TypeOK
<1>2. ASSUME NEW h \in Handlers, Patch(h) PROVE TypeOK'
  <2>1. PICK r \in handler[h].todo \cap exists :
           patchForceSync(r) /\ handler' = [handler EXCEPT ![h].todo = @ \ {r}]
    BY <1>2 DEF Patch
  <2>2. handler' \in [Handlers -> Request \cup {Idle}]
    <3>1. [handler[h] EXCEPT !.todo = @ \ {r}] \in Request
      BY <1>2, HandlerFields DEF Patch, Request
    <3> QED BY <2>1, <3>1 DEF TypeOK
  <2>3. pending' \subseteq Resources /\ missed' \subseteq Resources
    BY <2>1 DEF patchForceSync, TypeOK
  <2> QED BY <1>2, <2>2, <2>3 DEF Patch, TypeOK
<1>3. ASSUME NEW h \in Handlers, ListDynamic(h) PROVE TypeOK'
  <2>1. [handler[h] EXCEPT !.pc = "dynamic", !.todo = Matching(Dynamics, handler[h].event.item)]
           \in Request
    BY <1>3, HandlerFields, MatchingList DEF ListDynamic, Request, Resources
  <2>2. handler' \in [Handlers -> Request \cup {Idle}]
    BY <1>3, <2>1 DEF ListDynamic, TypeOK
  <2> QED BY <1>3, <2>2 DEF ListDynamic, TypeOK
<1>4. ASSUME NEW h \in Handlers, Answer(h) PROVE TypeOK'
  <2>1. handler[h].event \in Event
    BY <1>4, HandlerFields DEF Answer
  <2> QED BY <1>4, <2>1 DEF Answer, TypeOK
<1>5. ASSUME NEW h \in Handlers, PatchFails(h) PROVE TypeOK'
  BY <1>5, Counters DEF PatchFails, TypeOK
<1>6. ASSUME NEW r \in Resources, Sync(r) PROVE TypeOK'
  BY <1>6 DEF Sync, TypeOK
<1>7. ASSUME NEW r \in Resources, InformerSync(r) PROVE TypeOK'
  BY <1>7 DEF InformerSync, TypeOK
<1>8. ASSUME NEW r \in Resources, SpecChange(r) PROVE TypeOK'
  BY <1>8, Counters DEF SpecChange, SpecsOf, TypeOK
<1>9. ASSUME NEW r \in Resources, Delete(r) PROVE TypeOK'
  BY <1>9, Counters DEF Delete, TypeOK
<1>10. ASSUME NEW i \in Items, RemoteChange(i) PROVE TypeOK'
  <2>1. remote[i] + 1 \in 1 .. MaxVersion
    BY <1>10, WebhookAssumption DEF RemoteChange, TypeOK
  <2>2. [item |-> i, version |-> remote[i] + 1] \in Event
    BY <2>1 DEF Event
  <2> QED BY <1>10, <2>1, <2>2, Counters DEF RemoteChange, TypeOK
<1>11. CASE Tick
  BY <1>11 DEF Tick, TypeOK
<1>12. CASE Crash
  BY <1>12, Counters DEF Crash, TypeOK
<1>13. CASE UNCHANGED vars
  BY <1>13 DEF vars, TypeOK
<1> QED BY <1>1, <1>2, <1>3, <1>4, <1>5, <1>6, <1>7, <1>8, <1>9, <1>10, <1>11, <1>12, <1>13
        DEF Next, Serve

\* Every variable keeps its type: a request under way has an event of Akeyless and
\* resources of its lists left (server.go:85-171).
THEOREM WebhookTypeCorrect == Spec => []TypeOK
BY TypeInit, TypeStep, PTL DEF Spec

-----------------------------------------------------------------------------
(* An answer of 200 *)

\* The integers that are compared.
LEMMA Ordered ==
    ASSUME TypeOK
    PROVE  /\ \A i \in Items : remote[i] \in Int
           /\ \A r \in Resources, i \in Items : value[r][i] \in Int
           /\ \A e \in Event : e.item \in Items /\ e.version \in Int
BY WebhookAssumption DEF TypeOK, Event

\* The initial states satisfy the inductive invariant.
LEMMA AckInit == Init => AckInv
<1> SUFFICES ASSUME Init PROVE AckInv
  OBVIOUS
<1>1. TypeOK
  BY TypeInit
<1> QED BY <1>1 DEF Init, AckInv, ListInv, EventsInv, FanOutInv, AckMeansTold

\* The lists are behind by no more than the generations to sync.
LEMMA ListStep == AckInv /\ [Next]_vars => ListInv'
<1> SUFFICES ASSUME AckInv, [Next]_vars PROVE ListInv'
  OBVIOUS
<1> USE DEF AckInv, TypeOK, ListInv
<1>1. ASSUME NEW h \in Handlers, handleEvent(h) \/ Serve(h) \/ PatchFails(h) PROVE ListInv'
  BY <1>1 DEF handleEvent, Serve, Patch, ListDynamic, Answer, PatchFails
<1>2. ASSUME NEW r \in Resources, Sync(r) PROVE ListInv'
  BY <1>2 DEF Sync
<1>3. ASSUME NEW r \in Resources, InformerSync(r) PROVE ListInv'
  BY <1>3 DEF InformerSync
<1>4. ASSUME NEW r \in Resources, SpecChange(r) PROVE ListInv'
  BY <1>4 DEF SpecChange
<1>5. ASSUME NEW r \in Resources, Delete(r) PROVE ListInv'
  BY <1>5 DEF Delete
<1>6. ASSUME NEW i \in Items, RemoteChange(i) PROVE ListInv'
  BY <1>6 DEF RemoteChange
<1>7. CASE Tick \/ Crash
  BY <1>7 DEF Tick, Crash
<1>8. CASE UNCHANGED vars
  BY <1>8 DEF vars
<1> QED BY <1>1, <1>2, <1>3, <1>4, <1>5, <1>6, <1>7, <1>8 DEF Next

\* A step that keeps the items and takes up no event keeps what is said of events.
LEMMA EventsKept ==
    ASSUME EventsInv, remote' = remote, outbox' \subseteq outbox, acked' \subseteq acked,
           \A h \in Handlers : handler'[h] # Idle =>
              handler[h] # Idle /\ handler'[h].event = handler[h].event
    PROVE  EventsInv'
BY DEF EventsInv, Happened

\* Items only move on, so an event keeps speaking of a version its item has had.
LEMMA EventsStep == AckInv /\ [Next]_vars => EventsInv'
<1> SUFFICES ASSUME AckInv, [Next]_vars PROVE EventsInv'
  OBVIOUS
<1>0. TypeOK /\ EventsInv /\ handler \in [Handlers -> Request \cup {Idle}]
  BY DEF AckInv, TypeOK
<1>1. ASSUME NEW h \in Handlers, handleEvent(h) PROVE EventsInv'
  <2>1. PICK e \in outbox : handler' = [handler EXCEPT ![h] =
             [pc |-> "secrets", event |-> e, todo |-> Matching(Secrets, e.item)]]
    BY <1>1 DEF handleEvent
  <2>2. handler'[h].event = e /\ \A g \in Handlers \ {h} : handler'[g] = handler[g]
    BY <1>0, <2>1
  <2> QED BY <1>0, <1>1, <2>2 DEF handleEvent, EventsInv, Happened
<1>2. ASSUME NEW h \in Handlers, Patch(h) PROVE EventsInv'
  <2>1. handler[h] \in Request
    BY <1>0, <1>2, HandlerFields DEF Patch
  <2>2. \A g \in Handlers : handler'[g] # Idle =>
              handler[g] # Idle /\ handler'[g].event = handler[g].event
    BY <1>0, <1>2, <2>1 DEF Patch, Request
  <2> QED BY <1>0, <1>2, <2>2, EventsKept DEF Patch
<1>3. ASSUME NEW h \in Handlers, ListDynamic(h) PROVE EventsInv'
  <2>1. handler[h] \in Request
    BY <1>0, <1>3, HandlerFields DEF ListDynamic
  <2>2. \A g \in Handlers : handler'[g] # Idle =>
              handler[g] # Idle /\ handler'[g].event = handler[g].event
    BY <1>0, <1>3, <2>1 DEF ListDynamic, Request
  <2> QED BY <1>0, <1>3, <2>2, EventsKept DEF ListDynamic
<1>4. ASSUME NEW h \in Handlers, Answer(h) PROVE EventsInv'
  <2>1. \A g \in Handlers : handler'[g] # Idle => handler'[g] = handler[g]
    BY <1>0, <1>4 DEF Answer
  <2> QED BY <1>0, <1>4, <2>1 DEF Answer, EventsInv, Happened
<1>5. ASSUME NEW h \in Handlers, PatchFails(h) PROVE EventsInv'
  <2>1. \A g \in Handlers : handler'[g] # Idle => handler'[g] = handler[g]
    BY <1>0, <1>5 DEF PatchFails
  <2> QED BY <1>0, <1>5, <2>1, EventsKept DEF PatchFails
<1>6. ASSUME NEW r \in Resources, Sync(r) \/ InformerSync(r) \/ SpecChange(r) \/ Delete(r)
      PROVE  EventsInv'
  BY <1>0, <1>6, EventsKept DEF Sync, InformerSync, SpecChange, Delete
<1>7. ASSUME NEW i \in Items, RemoteChange(i) PROVE EventsInv'
  <2>1. \A j \in Items : remote'[j] \in Int /\ remote[j] \in Int /\ remote[j] <= remote'[j]
    BY <1>0, <1>7, Ordered DEF RemoteChange, TypeOK
  <2>2. \A e \in Event : Happened(e) => Happened(e)'
    BY <1>0, <2>1, Ordered DEF Happened
  <2>3. \A g \in Handlers : handler[g] # Idle => handler[g].event \in Event
    BY <1>0, HandlerFields
  <2>4. \A e : e = [item |-> i, version |-> remote[i] + 1] => e.version <= remote'[e.item]
    BY <1>0, <1>7, <2>1 DEF RemoteChange, TypeOK
  <2>5. \A e \in outbox' : e \in outbox \/ e = [item |-> i, version |-> remote[i] + 1]
    BY <1>7 DEF RemoteChange
  <2>6. \A e \in outbox' \cup acked' : Happened(e)'
    BY <1>0, <1>7, <2>2, <2>4, <2>5 DEF RemoteChange, EventsInv, Happened, TypeOK
  <2> QED BY <1>0, <1>7, <2>2, <2>3, <2>6 DEF RemoteChange, EventsInv, Happened
<1>8. CASE Tick
  BY <1>0, <1>8, EventsKept DEF Tick
<1>9. CASE Crash
  BY <1>0, <1>9, EventsKept DEF Crash
<1>10. CASE UNCHANGED vars
  BY <1>0, <1>10, EventsKept DEF vars
<1> QED BY <1>1, <1>2, <1>3, <1>4, <1>5, <1>6, <1>7, <1>8, <1>9, <1>10 DEF Next, Serve

\* A resource that has been told of an event that happened stays told: only a sync
\* closes its requests, and that brings the present version.
LEMMA StaysInformed ==
    ASSUME AckInv, [Next]_vars, NEW r \in Resources, NEW e \in Event, Happened(e),
           Informed(r, e)
    PROVE  Informed(r, e)'
<1>0. TypeOK
  BY DEF AckInv
<1>1. ASSUME NEW h \in Handlers, handleEvent(h) \/ ListDynamic(h) \/ Answer(h) \/ PatchFails(h)
      PROVE  Informed(r, e)'
  BY <1>1 DEF handleEvent, ListDynamic, Answer, PatchFails, Informed
<1>2. ASSUME NEW h \in Handlers, Patch(h) PROVE Informed(r, e)'
  BY <1>2 DEF Patch, patchForceSync, Informed
<1>3. ASSUME NEW q \in Resources, Sync(q) PROVE Informed(r, e)'
  <2>1. CASE q = r
    <3>1. value'[r] = remote
      BY <1>0, <1>3, <2>1 DEF Sync, TypeOK
    <3> QED BY <1>0, <3>1, Ordered DEF Informed, Happened
  <2>2. CASE q # r
    <3>1. value'[r] = value[r]
      BY <1>0, <1>3, <2>2 DEF Sync, TypeOK
    <3> QED BY <1>3, <2>2, <3>1 DEF Sync, Informed
  <2> QED BY <2>1, <2>2
<1>4. ASSUME NEW q \in Resources, InformerSync(q) \/ SpecChange(q) \/ Delete(q)
      PROVE  Informed(r, e)'
  BY <1>4 DEF InformerSync, SpecChange, Delete, Informed
<1>5. ASSUME NEW i \in Items, RemoteChange(i) PROVE Informed(r, e)'
  BY <1>5 DEF RemoteChange, Informed
<1>6. CASE Tick \/ Crash \/ UNCHANGED vars
  BY <1>6 DEF Tick, Crash, vars, Informed
<1> QED BY <1>1, <1>2, <1>3, <1>4, <1>5, <1>6 DEF Next, Serve

\* A resource that a step makes name an item has a generation to sync; no step makes
\* a resource.
LEMMA NamesAnew ==
    ASSUME AckInv, [Next]_vars, NEW r \in exists', NEW e \in Event, e.item \in spec'[r]
    PROVE  r \in exists /\ r \in Resources /\ (e.item \in spec[r] \/ Informed(r, e)')
<1>0. TypeOK
  BY DEF AckInv
<1>1. ASSUME NEW q \in Resources, SpecChange(q)
      PROVE  r \in exists /\ (e.item \in spec[r] \/ Informed(r, e)')
  BY <1>0, <1>1 DEF SpecChange, Informed, TypeOK
<1>2. ASSUME NEW q \in Resources, Sync(q) \/ InformerSync(q) \/ Delete(q)
      PROVE  r \in exists /\ e.item \in spec[r]
  BY <1>2 DEF Sync, InformerSync, Delete
<1>3. ASSUME NEW h \in Handlers, handleEvent(h) \/ Serve(h) \/ PatchFails(h)
      PROVE  r \in exists /\ e.item \in spec[r]
  BY <1>3 DEF handleEvent, Serve, Patch, ListDynamic, Answer, PatchFails
<1>4. ASSUME NEW i \in Items, RemoteChange(i) PROVE r \in exists /\ e.item \in spec[r]
  BY <1>4 DEF RemoteChange
<1>5. CASE Tick \/ Crash
  BY <1>0, <1>5 DEF Tick, Crash, TypeOK
<1>6. CASE UNCHANGED vars
  BY <1>0, <1>6 DEF vars, TypeOK
<1>7. exists \subseteq Resources
  BY <1>0 DEF TypeOK
<1> QED BY <1>1, <1>2, <1>3, <1>4, <1>5, <1>6, <1>7 DEF Next

\* What FanOutInv says of one request.
Covers(q) ==
    \A r \in exists : q.event.item \in spec[r] => Informed(r, q.event) \/ Ahead(r, q)

\* A request that keeps its event keeps its promise if whoever leaves its lists is told.
LEMMA CoversKept ==
    ASSUME AckInv, [Next]_vars, NEW h \in Handlers, handler[h] # Idle, handler'[h] # Idle,
           handler'[h].event = handler[h].event,
           \A r \in exists : (Ahead(r, handler[h]) /\ handler[h].event.item \in spec[r]) =>
              Ahead(r, handler'[h]) \/ Informed(r, handler[h].event)'
    PROVE  Covers(handler[h])'
<1> SUFFICES ASSUME NEW r \in exists', handler[h].event.item \in spec'[r]
             PROVE  Informed(r, handler[h].event)' \/ Ahead(r, handler'[h])
  BY DEF Covers, Informed, Ahead
<1>1. handler[h].event \in Event /\ Happened(handler[h].event)
  BY HandlerFields DEF AckInv, EventsInv
<1>2. /\ r \in exists /\ r \in Resources
      /\ handler[h].event.item \in spec[r] \/ Informed(r, handler[h].event)'
  BY <1>1, NamesAnew
<1>3. CASE handler[h].event.item \in spec[r]
  <2>1. Informed(r, handler[h].event) \/ Ahead(r, handler[h])
    BY <1>2, <1>3 DEF AckInv, FanOutInv
  <2> QED BY <1>1, <1>2, <1>3, <2>1, StaysInformed
<1> QED BY <1>2, <1>3

\* A resource leaves a list when it is told or gone, and joins the item late with a
\* generation to sync.
LEMMA FanOutStep == AckInv /\ [Next]_vars => FanOutInv'
<1> SUFFICES ASSUME AckInv, [Next]_vars, NEW h \in Handlers, handler'[h] # Idle
             PROVE  Covers(handler[h])'
  BY DEF FanOutInv, Covers, Informed, Ahead
<1>0. TypeOK /\ handler \in [Handlers -> Request \cup {Idle}]
  BY DEF AckInv, TypeOK
<1>1. CASE handler'[h] = handler[h]
  BY <1>1, CoversKept
<1>2. CASE handleEvent(h)
  <2>1. PICK e \in outbox : handler' = [handler EXCEPT ![h] =
             [pc |-> "secrets", event |-> e, todo |-> Matching(Secrets, e.item)]]
    BY <1>2 DEF handleEvent
  <2>2. /\ handler'[h].event = e /\ handler'[h].pc = "secrets"
        /\ handler'[h].todo = Matching(Secrets, e.item)
    BY <1>0, <2>1
  <2>3. ASSUME NEW r \in exists', e.item \in spec'[r]
        PROVE  Informed(r, e)' \/ Ahead(r, handler'[h])
    <3>1. r \in exists /\ r \in Resources /\ e.item \in spec[r] /\ unsynced' = unsynced
      BY <1>0, <1>2, <2>3 DEF handleEvent, TypeOK
    <3>2. r \in listed /\ (cached[r] = spec[r] \/ r \in unsynced)
      BY <3>1 DEF AckInv, ListInv
    <3>3. r \in unsynced \/ Ahead(r, handler'[h])
      BY <2>2, <3>1, <3>2 DEF Ahead, Matching, referencesPath, Resources
    <3> QED BY <3>1, <3>3 DEF Informed
  <2> QED BY <2>2, <2>3 DEF Covers, Informed, Ahead
<1>3. CASE Patch(h)
  <2>1. PICK q \in handler[h].todo \cap exists :
           patchForceSync(q) /\ handler' = [handler EXCEPT ![h].todo = @ \ {q}]
    BY <1>3 DEF Patch
  <2>2. handler[h] # Idle /\ handler[h] \in Request
    BY <1>0, <1>3, HandlerFields DEF Patch
  <2>3. /\ handler'[h].event = handler[h].event /\ handler'[h].pc = handler[h].pc
        /\ handler'[h].todo = handler[h].todo \ {q}
    BY <1>0, <2>1, <2>2 DEF Request
  <2>4. Informed(q, handler[h].event)'
    BY <2>1 DEF patchForceSync, Informed
  <2>5. \A r \in exists : (Ahead(r, handler[h]) /\ handler[h].event.item \in spec[r]) =>
              Ahead(r, handler'[h]) \/ Informed(r, handler[h].event)'
    BY <2>3, <2>4 DEF Ahead
  <2> QED BY <2>2, <2>3, <2>5, CoversKept
<1>4. CASE ListDynamic(h)
  <2>1. handler[h] # Idle /\ handler[h] \in Request
    BY <1>0, <1>4, HandlerFields DEF ListDynamic
  <2>2. /\ handler'[h].event = handler[h].event
        /\ handler'[h].todo = Matching(Dynamics, handler[h].event.item)
    BY <1>0, <1>4, <2>1 DEF ListDynamic, Request
  <2>3. ASSUME NEW r \in exists, Ahead(r, handler[h]), handler[h].event.item \in spec[r]
        PROVE  Ahead(r, handler'[h]) \/ Informed(r, handler[h].event)'
    <3>1. r \in Dynamics /\ r \in listed /\ (cached[r] = spec[r] \/ r \in unsynced)
      BY <1>4, <2>3 DEF ListDynamic, Ahead, AckInv, ListInv
    <3>2. r \in unsynced \/ Ahead(r, handler'[h])
      BY <2>2, <2>3, <3>1 DEF Ahead, Matching, referencesPath
    <3> QED BY <1>4, <3>2 DEF ListDynamic, Informed
  <2> QED BY <2>1, <2>2, <2>3, CoversKept
<1>5. ASSUME NEW g \in Handlers, g # h, handleEvent(g) \/ Patch(g) \/ ListDynamic(g)
      PROVE  handler'[h] = handler[h]
  BY <1>0, <1>5 DEF handleEvent, Patch, ListDynamic
<1>6. ASSUME NEW g \in Handlers, Answer(g) \/ PatchFails(g) PROVE handler'[h] = handler[h]
  BY <1>0, <1>6 DEF Answer, PatchFails
<1>7. ASSUME NEW r \in Resources, Sync(r) \/ InformerSync(r) \/ SpecChange(r) \/ Delete(r)
      PROVE  handler'[h] = handler[h]
  BY <1>7 DEF Sync, InformerSync, SpecChange, Delete
<1>8. ASSUME NEW i \in Items, RemoteChange(i) PROVE handler'[h] = handler[h]
  BY <1>8 DEF RemoteChange
<1>9. CASE Tick \/ UNCHANGED vars
  BY <1>1, <1>9 DEF Tick, vars
<1>10. ~Crash
  BY DEF Crash
<1> QED BY <1>1, <1>2, <1>3, <1>4, <1>5, <1>6, <1>7, <1>8, <1>9, <1>10 DEF Next, Serve

\* The answer of 200 comes with both lists empty, and nothing untells a resource.
LEMMA AckStep == AckInv /\ [Next]_vars => AckMeansTold'
<1> SUFFICES ASSUME AckInv, [Next]_vars, NEW e \in acked', NEW r \in exists', e.item \in spec'[r]
             PROVE  Informed(r, e)'
  BY DEF AckMeansTold, Informed
<1>0. TypeOK
  BY DEF AckInv
<1>1. CASE e \in acked
  <2>1. e \in Event /\ Happened(e)
    BY <1>0, <1>1 DEF AckInv, EventsInv, TypeOK
  <2>2. r \in exists /\ r \in Resources /\ (e.item \in spec[r] \/ Informed(r, e)')
    BY <2>1, NamesAnew
  <2>3. e.item \in spec[r] => Informed(r, e)
    BY <1>1, <2>2 DEF AckInv, AckMeansTold
  <2> QED BY <2>1, <2>2, <2>3, StaysInformed
<1>2. ASSUME NEW h \in Handlers, Answer(h), e = handler[h].event PROVE Informed(r, e)'
  <2>1. e \in Event /\ Happened(e)
    BY <1>0, <1>2, HandlerFields DEF Answer, AckInv, EventsInv
  <2>2. r \in exists /\ r \in Resources /\ e.item \in spec[r]
    BY <1>0, <1>2 DEF Answer, TypeOK
  <2>3. Informed(r, e)
    BY <1>2, <2>2 DEF Answer, AckInv, FanOutInv, Ahead
  <2> QED BY <2>1, <2>2, <2>3, StaysInformed
<1>3. ASSUME NEW h \in Handlers, handleEvent(h) \/ Patch(h) \/ ListDynamic(h) \/ PatchFails(h)
      PROVE  acked' = acked
  BY <1>3 DEF handleEvent, Patch, ListDynamic, PatchFails
<1>4. ASSUME NEW q \in Resources, Sync(q) \/ InformerSync(q) \/ SpecChange(q) \/ Delete(q)
      PROVE  acked' = acked
  BY <1>4 DEF Sync, InformerSync, SpecChange, Delete
<1>5. ASSUME NEW i \in Items, RemoteChange(i) PROVE acked' = acked
  BY <1>5 DEF RemoteChange
<1>6. CASE Tick \/ Crash \/ UNCHANGED vars
  BY <1>1, <1>6 DEF Tick, Crash, vars
<1>7. ASSUME NEW h \in Handlers, Answer(h) PROVE Informed(r, e)'
  BY <1>1, <1>2, <1>7 DEF Answer
<1> QED BY <1>1, <1>3, <1>4, <1>5, <1>6, <1>7 DEF Next, Serve

\* An event answered with 200 has reached every resource that names its item, for
\* every number of resources, items and requests at a time: whoever is not on the lists
\* the fan-out was made from has a generation to sync (server.go:139-171).
THEOREM AcksAreHonest == Spec => []AckMeansTold
<1>1. AckInv /\ [Next]_vars => AckInv'
  BY TypeStep, ListStep, EventsStep, FanOutStep, AckStep DEF AckInv
<1>2. AckInv => AckMeansTold
  BY DEF AckInv
<1> QED BY AckInit, <1>1, <1>2, PTL DEF Spec
=============================================================================
