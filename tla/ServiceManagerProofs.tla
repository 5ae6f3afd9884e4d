------------------------ MODULE ServiceManagerProofs ------------------------
EXTENDS ServiceManager, FiniteSetTheorems, TLAPS

(***************************************************************************)
(* service_map_ as three functions on all names: a name that is not in the *)
(* map has no provider, no owner and nobody waiting for it.                *)
(***************************************************************************)

ProviderOf(s) == IF s \in DOMAIN service THEN service[s].provider ELSE None
OwnerOf(s) == IF s \in DOMAIN service THEN service[s].owner ELSE None
QueueOf(s) == IF s \in DOMAIN service THEN service[s].queue ELSE {}

MapOK == DOMAIN service \subseteq Services /\ service \in [DOMAIN service -> ServiceState]

SameEntry(s) == ProviderOf(s)' = ProviderOf(s) /\ OwnerOf(s)' = OwnerOf(s) /\ QueueOf(s)' = QueueOf(s)

\* What find() or try_emplace() leaves in the map.
LEMMA CreateEffect ==
    ASSUME MapOK, NEW s \in Services
    PROVE  /\ FindOrCreate(s) \in [DOMAIN service \cup {s} -> ServiceState]
           /\ FindOrCreate(s)[s].provider = ProviderOf(s)
           /\ FindOrCreate(s)[s].owner = OwnerOf(s)
           /\ FindOrCreate(s)[s].queue = QueueOf(s)
           /\ \A t \in DOMAIN service : FindOrCreate(s)[t] = service[t]
           /\ s \in DOMAIN service => FindOrCreate(s) = service
<1>1. NewServiceState \in ServiceState
    BY DEF NewServiceState, ServiceState
<1> QED BY <1>1 DEF FindOrCreate, MapOK, ProviderOf, OwnerOf, QueueOf, NewServiceState

\* An assignment to the entry of s changes nothing else.
LEMMA UpdateEffect ==
    ASSUME MapOK, NEW s \in Services, NEW e \in ServiceState,
           service' = [FindOrCreate(s) EXCEPT ![s] = e]
    PROVE  /\ MapOK'
           /\ DOMAIN service' = DOMAIN service \cup {s}
           /\ ProviderOf(s)' = e.provider /\ OwnerOf(s)' = e.owner /\ QueueOf(s)' = e.queue
           /\ \A t \in Services \ {s} : SameEntry(t)
<1>1. /\ DOMAIN service' = DOMAIN service \cup {s}
      /\ service' \in [DOMAIN service' -> ServiceState]
      /\ service'[s] = e
      /\ \A t \in DOMAIN service \ {s} : service'[t] = service[t]
    BY CreateEffect
<1> QED BY <1>1 DEF MapOK, SameEntry, ProviderOf, OwnerOf, QueueOf

\* The entry of s with another queue.
LEMMA QueueEntry ==
    ASSUME NEW e \in ServiceState, NEW Q \in SUBSET Requests
    PROVE  /\ [e EXCEPT !.queue = Q] \in ServiceState
           /\ [e EXCEPT !.queue = Q].provider = e.provider
           /\ [e EXCEPT !.queue = Q].owner = e.owner
           /\ [e EXCEPT !.queue = Q].queue = Q
BY DEF ServiceState

\* What Push() changes.
LEMMA PushEffect ==
    ASSUME MapOK, NEW s \in Services, NEW r \in Requests, NEW hasTimeout \in BOOLEAN,
           Push(s, r, hasTimeout)
    PROVE  /\ MapOK'
           /\ s \in DOMAIN service'
           /\ ProviderOf(s)' = ProviderOf(s) /\ OwnerOf(s)' = OwnerOf(s)
           /\ QueueOf(s)' = QueueOf(s) \cup {r}
           /\ \A t \in Services \ {s} : SameEntry(t)
<1> DEFINE e == FindOrCreate(s)[s]
           Q == e.queue \cup {r}
           new == [e EXCEPT !.queue = Q]
<1>1. e \in ServiceState /\ Q \in SUBSET Requests
    BY CreateEffect DEF ServiceState
<1>2. service' = [FindOrCreate(s) EXCEPT ![s] = new]
    BY Zenon DEF Push
<1>3. e.provider = ProviderOf(s) /\ e.owner = OwnerOf(s) /\ e.queue = QueueOf(s)
    BY CreateEffect
<1> HIDE DEF e
<1>4. new \in ServiceState /\ new.provider = e.provider /\ new.owner = e.owner /\ new.queue = Q
    BY <1>1, QueueEntry
<1> HIDE DEF new
<1> QED BY <1>2, <1>3, <1>4, UpdateEffect

\* What the timeout of a request changes.
LEMMA PopEffect ==
    ASSUME MapOK, NEW s \in DOMAIN service, NEW r, service' = [service EXCEPT ![s].queue = @ \ {r}]
    PROVE  /\ MapOK'
           /\ DOMAIN service' = DOMAIN service
           /\ ProviderOf(s)' = ProviderOf(s) /\ OwnerOf(s)' = OwnerOf(s)
           /\ QueueOf(s)' = QueueOf(s) \ {r}
           /\ \A t \in Services \ {s} : SameEntry(t)
<1> DEFINE e == service[s]
           Q == e.queue \ {r}
           new == [e EXCEPT !.queue = Q]
<1>1. e \in ServiceState /\ Q \in SUBSET Requests /\ s \in Services
    BY DEF ServiceState, MapOK
<1>2. service' = [service EXCEPT ![s] = new]
    BY Zenon
<1>3. e.provider = ProviderOf(s) /\ e.owner = OwnerOf(s) /\ e.queue = QueueOf(s)
    BY DEF ProviderOf, OwnerOf, QueueOf
<1> HIDE DEF e
<1>4. new \in ServiceState /\ new.provider = e.provider /\ new.owner = e.owner /\ new.queue = Q
    BY <1>1, QueueEntry
<1> HIDE DEF new
<1> QED BY <1>1, <1>2, <1>3, <1>4, CreateEffect, UpdateEffect

\* What the disconnect handler of a provider changes.
LEMMA UnbindEffect ==
    ASSUME MapOK, NEW s \in DOMAIN service,
           service' = [service EXCEPT ![s] = [@ EXCEPT !.provider = None, !.owner = None]]
    PROVE  /\ MapOK'
           /\ DOMAIN service' = DOMAIN service
           /\ ProviderOf(s)' = None /\ OwnerOf(s)' = None /\ QueueOf(s)' = QueueOf(s)
           /\ \A t \in Services \ {s} : SameEntry(t)
<1> DEFINE e == service[s]
           new == [e EXCEPT !.provider = None, !.owner = None]
<1>1. e \in ServiceState /\ s \in Services
    BY DEF MapOK
<1>2. service' = [service EXCEPT ![s] = new]
    BY Zenon
<1>3. e.queue = QueueOf(s)
    BY DEF QueueOf
<1> HIDE DEF e
<1>4. new \in ServiceState /\ new.provider = None /\ new.owner = None /\ new.queue = e.queue
    BY <1>1 DEF ServiceState
<1> HIDE DEF new
<1> QED BY <1>1, <1>2, <1>3, <1>4, CreateEffect, UpdateEffect

\* What a Register() that is not refused changes.
LEMMA BindEffect ==
    ASSUME MapOK, NEW s \in Services, NEW p \in Providers, NEW x \in Processes,
           service' = [FindOrCreate(s) EXCEPT ![s] = [provider |-> p, owner |-> x, queue |-> {}]]
    PROVE  /\ MapOK'
           /\ DOMAIN service' = DOMAIN service \cup {s}
           /\ ProviderOf(s)' = p /\ OwnerOf(s)' = x /\ QueueOf(s)' = {}
           /\ \A t \in Services \ {s} : SameEntry(t)
<1>1. [provider |-> p, owner |-> x, queue |-> {}] \in ServiceState
    BY DEF ServiceState
<1> QED BY <1>1, UpdateEffect

-----------------------------------------------------------------------------
(***************************************************************************)
(* Type correctness.                                                       *)
(***************************************************************************)

\* The part of the type invariant that is about the map of services.
LEMMA TypeMap == TypeOK => MapOK
BY DEF TypeOK, MapOK

\* The initial states have the right types.
LEMMA InitType == Init => TypeOK
BY ServiceManagerAssumption DEF Init, TypeOK, NewServiceState, ServiceState, Uids, Contexts

\* Sending an event keeps the type of what observers know.
LEMMA EventType ==
    ASSUME TypeOK, NEW s \in Services, NEW b \in BOOLEAN, SendServiceEvent(s, b)
    PROVE  view' \in [Observers -> [Services -> BOOLEAN]]
BY DEF SendServiceEvent, TypeOK

\* Register() keeps the types.
LEMMA RegisterType ==
    ASSUME TypeOK, NEW s \in Services, NEW p \in Providers, NEW x \in Processes, Register(s, p, x)
    PROVE  TypeOK'
<1>1. CASE UNCHANGED <<service, timeouts, delivered, view>>
    BY <1>1 DEF Register, TypeOK
<1>2. CASE /\ SendServiceEvent(s, TRUE)
           /\ service' = [FindOrCreate(s) EXCEPT
                            ![s] = [provider |-> p, owner |-> x, queue |-> {}]]
           /\ timeouts' = timeouts \ ({s} \X FindOrCreate(s)[s].queue)
           /\ delivered' = [delivered EXCEPT ![p] = FindOrCreate(s)[s].queue]
    <2>1. FindOrCreate(s)[s].queue \subseteq Requests
        BY TypeMap, CreateEffect DEF ServiceState
    <2>2. MapOK'
        BY <1>2, TypeMap, BindEffect
    <2>3. view' \in [Observers -> [Services -> BOOLEAN]]
        BY <1>2, EventType
    <2> QED BY <1>2, <2>1, <2>2, <2>3 DEF Register, TypeOK, MapOK
<1> QED BY <1>1, <1>2 DEF Register, TakeAllRequests

\* Request() keeps the types.
LEMMA RequestType ==
    ASSUME TypeOK, NEW s \in Services, NEW r \in Requests, NEW x \in Processes,
           NEW hasTimeout \in BOOLEAN, Request(s, r, x, hasTimeout)
    PROVE  TypeOK'
<1>1. CASE UNCHANGED <<service, timeouts, timed, delivered>> /\ \E e \in ErrorCode : Reject(r, e)
    BY <1>1 DEF Request, Reject, TypeOK
<1>2. CASE /\ Bound(s)
           /\ delivered' = [delivered EXCEPT ![service[s].provider] = @ \cup {r}]
           /\ UNCHANGED <<service, timeouts, timed, rejected>>
    BY <1>2 DEF Request, TypeOK
<1>3. CASE Push(s, r, hasTimeout) /\ UNCHANGED <<delivered, rejected>>
    <2>1. MapOK'
        BY <1>3, TypeMap, PushEffect
    <2> QED BY <1>3, <2>1 DEF Request, Push, TypeOK, MapOK
<1> QED BY <1>1, <1>2, <1>3 DEF Request, ErrorCode

\* A timeout keeps the types, because the iterator it uses is valid.
LEMMA PopType ==
    ASSUME TypeOK, NoDanglingReferences, NEW s \in Services, NEW r \in Requests,
           PopAndRejectTimeoutRequest(s, r)
    PROVE  TypeOK'
<1>1. s \in DOMAIN service
    BY DEF PopAndRejectTimeoutRequest, NoDanglingReferences
<1>2. MapOK'
    BY <1>1, TypeMap, PopEffect DEF PopAndRejectTimeoutRequest
<1> QED BY <1>2 DEF PopAndRejectTimeoutRequest, Reject, ErrorCode, TypeOK, MapOK

\* A provider's disconnect handler keeps the types.
LEMMA UnbindType ==
    ASSUME TypeOK, NEW s \in Services, ServiceProviderDisconnectHandler(s)
    PROVE  TypeOK'
<1>1. MapOK'
    BY TypeMap, UnbindEffect DEF ServiceProviderDisconnectHandler, Bound
<1>2. view' \in [Observers -> [Services -> BOOLEAN]]
    BY EventType DEF ServiceProviderDisconnectHandler
<1> QED BY <1>1, <1>2 DEF ServiceProviderDisconnectHandler, TypeOK, MapOK

\* Adding and removing an observer keep the types.
LEMMA ObserverType ==
    ASSUME TypeOK, NEW o \in Observers
    PROVE  /\ \A x \in Processes : AddServiceObserver(o, x) => TypeOK'
           /\ \A u \in Uids : HandleObserverDisconnect(u, o) => TypeOK'
<1>1. ASSUME NEW x \in Processes, AddServiceObserver(o, x) PROVE TypeOK'
    BY <1>1, ServiceManagerAssumption DEF AddServiceObserver, TypeOK
<1>2. ASSUME NEW u \in Uids, HandleObserverDisconnect(u, o) PROVE TypeOK'
    BY <1>2 DEF HandleObserverDisconnect, TypeOK
<1> QED BY <1>1, <1>2

\* The death of a pipe keeps the types.
LEMMA CloseType ==
    ASSUME TypeOK, NEW pipe \in Providers \cup Observers, PipeCloses(pipe)
    PROVE  TypeOK'
BY DEF PipeCloses, TypeOK

\* And so does a step that changes nothing.
LEMMA StutterType == TypeOK /\ UNCHANGED vars => TypeOK'
BY DEF vars, TypeOK

-----------------------------------------------------------------------------
(***************************************************************************)
(* The inductive invariant.                                                *)
(***************************************************************************)

WaitingAt(r) == {s \in Services : r \in QueueOf(s) /\ ProviderOf(s) = None}
HandedTo(r) == {p \in Providers : r \in delivered[p]}

\* RequestsAreAccounted without counting.
PlacedOnce(r) ==
    IF r \in used
    THEN \/ (\E s : WaitingAt(r) = {s}) /\ HandedTo(r) = {} /\ rejected[r] = {}
         \/ WaitingAt(r) = {} /\ (\E p : HandedTo(r) = {p}) /\ rejected[r] = {}
         \/ WaitingAt(r) = {} /\ HandedTo(r) = {} /\ (\E e : rejected[r] = {e})
    ELSE WaitingAt(r) = {} /\ HandedTo(r) = {} /\ rejected[r] = {}

\* Nobody waits for a service that is registered, so that the timeout of a
\* request finds it where it was put; a new provider pipe has got nothing yet and
\* is nobody's provider.
RequestsInv ==
    /\ \A r \in Requests : PlacedOnce(r)
    /\ \A s \in Services : QueueOf(s) # {} => ProviderOf(s) = None
    /\ \A p \in Providers \ used : delivered[p] = {}
    /\ \A s \in Services : ProviderOf(s) \in used \cup {None}

\* Each observer in either map is there for the sake of a process, which is in
\* the legacy map with it.
ObserversInv ==
    /\ \A u \in Uids : \A o \in byUid[u] :
          \E x \in Processes : UidOf[x] = u /\ <<u, o>> \in legacy[ContextOf[x]]
    /\ \A c \in Contexts : \A pair \in legacy[c] :
          \E x \in Processes : UidOf[x] = pair[1] /\ ContextOf[x] = c

IInv ==
    /\ TypeOK
    /\ NoDanglingReferences
    /\ OwnerMatchesProvider
    /\ ViewsAreCurrent
    /\ RequestsInv
    /\ ObserversInv

\* A service is bound when it has a provider.
LEMMA BoundIs == \A s \in Services : Bound(s) <=> ProviderOf(s) # None
BY DEF Bound, ProviderOf

\* The two invariants on the map of services, said of every service, configured or not.
LEMMA MapIs ==
    ASSUME MapOK
    PROVE  /\ OwnerMatchesProvider <=>
                \A s \in Services : /\ ProviderOf(s) # None <=> OwnerOf(s) # None
                                    /\ ProviderOf(s) # None => MayOwn(s, OwnerOf(s))
           /\ NoDanglingReferences <=>
                /\ \A task \in timeouts : task[2] \in QueueOf(task[1])
                /\ \A x \in Contexts : \A pair \in legacy[x] : pair[2] \in byUid[pair[1]]
<1>1. OwnerMatchesProvider <=>
                \A s \in Services : /\ ProviderOf(s) # None <=> OwnerOf(s) # None
                                    /\ ProviderOf(s) # None => MayOwn(s, OwnerOf(s))
    BY DEF OwnerMatchesProvider, Bound, ProviderOf, OwnerOf, MapOK
<1>2. NoDanglingReferences <=>
                /\ \A task \in timeouts : task[2] \in QueueOf(task[1])
                /\ \A x \in Contexts : \A pair \in legacy[x] : pair[2] \in byUid[pair[1]]
    BY DEF NoDanglingReferences, QueueOf
<1> QED BY <1>1, <1>2

\* The invariant holds at the start.
LEMMA InitIInv == Init => IInv
<1> SUFFICES ASSUME Init PROVE IInv
    OBVIOUS
<1>1. TypeOK
    BY InitType
<1>2. \A s \in Services : ProviderOf(s) = None /\ OwnerOf(s) = None /\ QueueOf(s) = {}
    BY DEF Init, NewServiceState, ProviderOf, OwnerOf, QueueOf
<1>3. NoDanglingReferences /\ OwnerMatchesProvider
    BY <1>1, <1>2, TypeMap, MapIs DEF Init
<1>4. ViewsAreCurrent
    BY ServiceManagerAssumption DEF Init, ViewsAreCurrent
<1>5. RequestsInv
    BY <1>2 DEF Init, RequestsInv, PlacedOnce, WaitingAt, HandedTo
<1>6. ObserversInv
    BY DEF Init, ObserversInv
<1> QED BY <1>1, <1>3, <1>4, <1>5, <1>6 DEF IInv

\* Where a request is does not change if its queue, its provider and what it
\* was rejected with do not.
LEMMA SamePlace ==
    ASSUME NEW r \in Requests,
           \A s \in Services : /\ r \in QueueOf(s)' <=> r \in QueueOf(s)
                               /\ r \in QueueOf(s) => ProviderOf(s)' = ProviderOf(s),
           \A p \in Providers : r \in delivered'[p] <=> r \in delivered[p],
           rejected'[r] = rejected[r],
           r \in used' <=> r \in used,
           PlacedOnce(r)
    PROVE  PlacedOnce(r)'
<1>1. WaitingAt(r)' = WaitingAt(r) /\ HandedTo(r)' = HandedTo(r)
    BY DEF WaitingAt, HandedTo
<1> QED BY <1>1 DEF PlacedOnce

\* The same of the next state as BoundIs says of this one.
LEMMA BoundIsNext == \A s \in Services : Bound(s)' <=> ProviderOf(s)' # None
BY DEF Bound, ProviderOf

\* MapIs for the state after a step.
LEMMA MapIsNext ==
    ASSUME MapOK'
    PROVE  /\ (\A s \in Services : /\ ProviderOf(s)' # None <=> OwnerOf(s)' # None
                                   /\ ProviderOf(s)' # None => MayOwn(s, OwnerOf(s))')
                => OwnerMatchesProvider'
           /\ (/\ \A task \in timeouts' : task[2] \in QueueOf(task[1])'
               /\ \A x \in Contexts : \A pair \in legacy'[x] : pair[2] \in byUid'[pair[1]])
                => NoDanglingReferences'
<1>1. (\A s \in Services : /\ ProviderOf(s)' # None <=> OwnerOf(s)' # None
                           /\ ProviderOf(s)' # None => MayOwn(s, OwnerOf(s))')
          => OwnerMatchesProvider'
    BY DEF OwnerMatchesProvider, Bound, ProviderOf, OwnerOf, MapOK
<1>2. (/\ \A task \in timeouts' : task[2] \in QueueOf(task[1])'
       /\ \A x \in Contexts : \A pair \in legacy'[x] : pair[2] \in byUid'[pair[1]])
          => NoDanglingReferences'
    BY DEF NoDanglingReferences, QueueOf
<1> QED BY <1>1, <1>2

ReceiversByUid(s) == UNION {byUid[u] : u \in PolicyOf(s).requestersUid}

\* Who gets an event: everybody in permissive mode, else the requesters by uid and by context.
LEMMA ReceiversAre ==
    ASSUME NEW s
    PROVE  /\ permissive => EventReceivers(s) = UNION {byUid[u] : u \in Uids}
           /\ ~permissive => EventReceivers(s) = ReceiversByUid(s) \cup LegacyReceivers(s)
BY DEF EventReceivers, ReceiversByUid

\* SendServiceEvent() reaches the observers of every process that may request
\* the service, by one map or the other.
LEMMA RequestersAreTold ==
    ASSUME TypeOK, NoDanglingReferences, NEW s \in Services, NEW x \in Processes, NEW o \in Observers,
           <<UidOf[x], o>> \in legacy[ContextOf[x]], MayRequest(s, x)
    PROVE  o \in EventReceivers(s)
<1>1. UidOf[x] \in Uids /\ ContextOf[x] \in Contexts
    BY ServiceManagerAssumption
<1>2. o \in byUid[UidOf[x]]
    BY <1>1 DEF NoDanglingReferences
<1>3. CASE permissive
    BY <1>1, <1>2, <1>3, ReceiversAre
<1>4. CASE ~permissive /\ UidOf[x] \in PolicyOf(s).requestersUid
    <2>1. o \in ReceiversByUid(s)
        BY <1>2, <1>4 DEF ReceiversByUid
    <2> QED BY <1>4, <2>1, ReceiversAre
<1>5. CASE ~permissive /\ ContextOf[x] \in PolicyOf(s).requesters
    <2>1. <<UidOf[x], o>> \in UNION {legacy[c] : c \in PolicyOf(s).requesters}
        BY <1>5
    <2>2. <<UidOf[x], o>>[2] = o
        OBVIOUS
    <2>3. o \in LegacyReceivers(s)
        BY <2>1, <2>2 DEF LegacyReceivers
    <2> QED BY <1>5, <2>3, ReceiversAre
<1> QED BY <1>3, <1>4, <1>5 DEF MayRequest

\* It reaches no others.
LEMMA OnlyRequestersAreTold ==
    ASSUME TypeOK, ObserversInv, NEW s \in Services, NEW o \in EventReceivers(s)
    PROVE  \E x \in Processes : <<UidOf[x], o>> \in legacy[ContextOf[x]] /\ MayRequest(s, x)
<1>1. PolicyOf(s).requestersUid \subseteq Uids /\ PolicyOf(s).requesters \subseteq Contexts
    BY ServiceManagerAssumption DEF PolicyOf, ServicePolicy
<1>2. CASE permissive
    <2>1. PICK u \in Uids : o \in byUid[u]
        BY <1>2, ReceiversAre
    <2>2. PICK x \in Processes : UidOf[x] = u /\ <<u, o>> \in legacy[ContextOf[x]]
        BY <2>1 DEF ObserversInv
    <2> QED BY <1>2, <2>2 DEF MayRequest
<1>3. CASE o \in ReceiversByUid(s)
    <2>1. PICK u \in PolicyOf(s).requestersUid : o \in byUid[u]
        BY <1>3 DEF ReceiversByUid
    <2>2. PICK x \in Processes : UidOf[x] = u /\ <<u, o>> \in legacy[ContextOf[x]]
        BY <1>1, <2>1 DEF ObserversInv
    <2> QED BY <2>1, <2>2 DEF MayRequest
<1>4. CASE o \in LegacyReceivers(s)
    <2>1. PICK c \in PolicyOf(s).requesters : \E pair \in legacy[c] : pair[2] = o
        BY <1>4 DEF LegacyReceivers
    <2>2. PICK pair \in legacy[c] : pair[2] = o
        BY <2>1
    <2>3. pair = <<pair[1], o>>
        BY <1>1, <2>2 DEF TypeOK
    <2>4. PICK x \in Processes : UidOf[x] = pair[1] /\ ContextOf[x] = c
        BY <1>1, <2>1, <2>2 DEF ObserversInv
    <2>5. <<UidOf[x], o>> \in legacy[ContextOf[x]]
        BY <2>2, <2>3, <2>4
    <2> QED BY <2>1, <2>4, <2>5 DEF MayRequest
<1> QED BY <1>2, <1>3, <1>4, ReceiversAre

\* Views stay current when a service is registered or unregistered.
LEMMA EventViews ==
    ASSUME TypeOK, NoDanglingReferences, ViewsAreCurrent,
           NEW s \in Services, NEW b \in BOOLEAN, SendServiceEvent(s, b),
           b <=> ProviderOf(s)' # None,
           \A t \in Services \ {s} : SameEntry(t),
           UNCHANGED <<permissive, legacy, closed>>
    PROVE  ViewsAreCurrent'
<1> SUFFICES ASSUME NEW x \in Processes, NEW t \in Services, NEW o \in Observers,
                    <<UidOf[x], o>> \in legacy[ContextOf[x]], o \notin closed, MayRequest(t, x)
             PROVE  view'[o][t] = Bound(t)'
    BY DEF ViewsAreCurrent, MayRequest
<1>1. view[o] \in [Services -> BOOLEAN]
    BY DEF TypeOK
<1>2. CASE t = s
    <2>1. o \in EventReceivers(s) \ closed
        BY <1>2, RequestersAreTold
    <2>2. view'[o][s] = b
        BY <1>1, <2>1 DEF SendServiceEvent
    <2>3. Bound(s)' = (ProviderOf(s)' # None)
        BY DEF Bound, ProviderOf
    <2> QED BY <1>2, <2>2, <2>3
<1>3. CASE t # s
    <2>1. view'[o][t] = view[o][t]
        BY <1>1, <1>3 DEF SendServiceEvent
    <2>2. Bound(t)' = Bound(t)
        <3>1. Bound(t)' = (ProviderOf(t)' # None) /\ Bound(t) = (ProviderOf(t) # None)
            BY DEF Bound, ProviderOf
        <3> QED BY <1>3, <3>1 DEF SameEntry
    <2> QED BY <2>1, <2>2 DEF ViewsAreCurrent
<1> QED BY <1>2, <1>3

\* Nor do they change when no service is registered or unregistered and no
\* observer is added.
LEMMA SameViews ==
    ASSUME ViewsAreCurrent, \A t \in Services : ProviderOf(t)' = ProviderOf(t),
           \A c \in Contexts : legacy'[c] \subseteq legacy[c],
           closed \subseteq closed', UNCHANGED <<permissive, view>>
    PROVE  ViewsAreCurrent'
<1> SUFFICES ASSUME NEW x \in Processes, NEW t \in Services, NEW o \in Observers,
                    <<UidOf[x], o>> \in legacy'[ContextOf[x]], o \notin closed', MayRequest(t, x)
             PROVE  view'[o][t] = Bound(t)'
    BY DEF ViewsAreCurrent, MayRequest
<1>1. Bound(t)' = (ProviderOf(t)' # None) /\ Bound(t) = (ProviderOf(t) # None)
    BY DEF Bound, ProviderOf
<1>2. ContextOf[x] \in Contexts
    BY ServiceManagerAssumption
<1> QED BY <1>1, <1>2 DEF ViewsAreCurrent

-----------------------------------------------------------------------------
(***************************************************************************)
(* Every action preserves the invariant.                                   *)
(***************************************************************************)

\* A provider that is refused leaves nothing but a pipe that was used.
LEMMA RefusedRegister ==
    ASSUME IInv, NEW s \in Services, NEW p \in Providers, NEW x \in Processes, Register(s, p, x),
           UNCHANGED <<service, timeouts, delivered, view>>
    PROVE  IInv'
<1>1. TypeOK'
    BY RegisterType DEF IInv
<1>2. NoDanglingReferences' /\ OwnerMatchesProvider' /\ ObserversInv'
    BY DEF Register, IInv, NoDanglingReferences, OwnerMatchesProvider, ObserversInv, Bound, MayOwn
<1>3. ViewsAreCurrent'
    BY SameViews DEF Register, IInv, ProviderOf
<1>4. RequestsInv'
    <2>1. \A t \in Services : QueueOf(t)' = QueueOf(t) /\ ProviderOf(t)' = ProviderOf(t)
        BY DEF QueueOf, ProviderOf
    <2>2. \A r \in Requests : r \in used' <=> r \in used
        BY ServiceManagerAssumption DEF Register
    <2>3. \A r \in Requests : PlacedOnce(r)'
        BY <2>1, <2>2, SamePlace DEF Register, IInv, RequestsInv
    <2> QED BY <2>1, <2>3 DEF Register, IInv, RequestsInv
<1> QED BY <1>1, <1>2, <1>3, <1>4 DEF IInv

\* A provider that is accepted takes the whole queue.
LEMMA AcceptedRegister ==
    ASSUME IInv, NEW s \in Services, NEW p \in Providers, NEW x \in Processes, Register(s, p, x),
           MayOwn(s, x), ~Bound(s), SendServiceEvent(s, TRUE),
           service' = [FindOrCreate(s) EXCEPT ![s] = [provider |-> p, owner |-> x, queue |-> {}]],
           timeouts' = timeouts \ ({s} \X FindOrCreate(s)[s].queue),
           delivered' = [delivered EXCEPT ![p] = FindOrCreate(s)[s].queue]
    PROVE  IInv'
<1> DEFINE waiting == QueueOf(s)
<1>1. TypeOK' /\ MapOK /\ MapOK'
    BY RegisterType, TypeMap, BindEffect DEF IInv
<1>2. /\ ProviderOf(s)' = p /\ OwnerOf(s)' = x /\ QueueOf(s)' = {}
      /\ \A t \in Services \ {s} : SameEntry(t)
    BY <1>1, BindEffect
<1>3. /\ timeouts' = timeouts \ ({s} \X waiting)
      /\ delivered' = [delivered EXCEPT ![p] = waiting]
    BY <1>1, CreateEffect
<1>4. ProviderOf(s) = None /\ p # None /\ x # None
    BY BoundIs, ServiceManagerAssumption
<1>5. OwnerMatchesProvider'
    BY <1>1, <1>2, <1>4, MapIs, MapIsNext DEF IInv, SameEntry, MayOwn, Register
<1>6. NoDanglingReferences'
    <2>1. ASSUME NEW task \in timeouts' PROVE task[2] \in QueueOf(task[1])'
        <3>1. task \in timeouts /\ task \notin {s} \X waiting /\ task \in Services \X Requests
            BY <1>3 DEF IInv, TypeOK
        <3>2. task[2] \in QueueOf(task[1]) /\ task[1] \in Services
            BY <1>1, <3>1, MapIs DEF IInv
        <3>3. task[1] # s
            BY <3>1, <3>2
        <3> QED BY <1>2, <3>2, <3>3 DEF SameEntry
    <2> QED BY <1>1, <2>1, MapIs, MapIsNext DEF IInv, Register
<1>7. ViewsAreCurrent'
    BY <1>2, <1>4, EventViews DEF IInv, Register
<1>8. RequestsInv'
    <2>1. \A q \in Providers \ used' : delivered'[q] = {}
        BY <1>3 DEF IInv, RequestsInv, Register
    <2>2. \A t \in Services : QueueOf(t)' # {} => ProviderOf(t)' = None
        BY <1>2 DEF IInv, RequestsInv, SameEntry
    <2> \A t \in Services : ProviderOf(t)' \in used' \cup {None}
        BY <1>2 DEF IInv, RequestsInv, SameEntry, Register
    <2>3. ASSUME NEW r \in Requests PROVE PlacedOnce(r)'
        <3>1. /\ r \in used' <=> r \in used
              /\ rejected'[r] = rejected[r]
              /\ delivered[p] = {}
              /\ PlacedOnce(r)
            BY ServiceManagerAssumption DEF Register, IInv, RequestsInv
        <3>2. CASE r \notin waiting
            <4>1. \A t \in Services : /\ r \in QueueOf(t)' <=> r \in QueueOf(t)
                                      /\ r \in QueueOf(t) => ProviderOf(t)' = ProviderOf(t)
                BY <1>2, <3>2 DEF SameEntry
            <4>2. \A q \in Providers : r \in delivered'[q] <=> r \in delivered[q]
                BY <1>3, <3>1, <3>2 DEF IInv, TypeOK
            <4> QED BY <3>1, <4>1, <4>2, SamePlace
        <3>3. CASE r \in waiting
            <4>1. s \in WaitingAt(r)
                BY <1>4, <3>3 DEF WaitingAt
            <4>2. WaitingAt(r) = {s} /\ HandedTo(r) = {} /\ rejected[r] = {} /\ r \in used
                BY <3>1, <4>1 DEF PlacedOnce
            <4>3. WaitingAt(r)' = {}
                BY <1>2, <4>2 DEF WaitingAt, SameEntry
            <4>4. HandedTo(r)' = {p}
                BY <1>3, <3>3, <4>2 DEF HandedTo, IInv, TypeOK
            <4> QED BY <3>1, <4>2, <4>3, <4>4 DEF PlacedOnce
        <3> QED BY <3>2, <3>3
    <2> QED BY <2>1, <2>2, <2>3 DEF RequestsInv
<1>9. ObserversInv'
    BY DEF IInv, ObserversInv, Register
<1> QED BY <1>1, <1>5, <1>6, <1>7, <1>8, <1>9 DEF IInv

\* Register() keeps the invariant, refused or accepted.
LEMMA RegisterStep ==
    ASSUME IInv, NEW s \in Services, NEW p \in Providers, NEW x \in Processes, Register(s, p, x)
    PROVE  IInv'
BY RefusedRegister, AcceptedRegister DEF Register, TakeAllRequests

\* Request() of a service that is not there or not for this process, or of one
\* that is registered: the map stays as it is.
LEMMA AnsweredRequest ==
    ASSUME IInv, NEW s \in Services, NEW r \in Requests, NEW x \in Processes,
           NEW hasTimeout \in BOOLEAN, Request(s, r, x, hasTimeout),
           UNCHANGED <<service, timeouts>>,
           \/ (\E e \in ErrorCode : Reject(r, e)) /\ UNCHANGED delivered
           \/ (\E p \in Providers \cap used : delivered' = [delivered EXCEPT ![p] = @ \cup {r}])
              /\ UNCHANGED rejected
    PROVE  IInv'
<1>1. TypeOK'
    BY RequestType DEF IInv
<1>2. NoDanglingReferences' /\ OwnerMatchesProvider' /\ ObserversInv'
    BY DEF Request, IInv, NoDanglingReferences, OwnerMatchesProvider, ObserversInv, Bound, MayOwn
<1>3. \A t \in Services : QueueOf(t)' = QueueOf(t) /\ ProviderOf(t)' = ProviderOf(t)
    BY DEF QueueOf, ProviderOf
<1>4. ViewsAreCurrent'
    BY <1>3, SameViews DEF Request, IInv
<1>5. RequestsInv'
    <2>1. \A p \in Providers \ used' : delivered'[p] = {}
        BY DEF IInv, RequestsInv, Request, TypeOK
    <2>2. PlacedOnce(r)'
        <3>1. WaitingAt(r) = {} /\ HandedTo(r) = {} /\ rejected[r] = {} /\ r \in used'
            BY DEF Request, IInv, RequestsInv, PlacedOnce
        <3>2. WaitingAt(r)' = {}
            BY <1>3, <3>1 DEF WaitingAt
        <3>3. ASSUME NEW e \in ErrorCode, Reject(r, e), UNCHANGED delivered
              PROVE  HandedTo(r)' = {} /\ rejected'[r] = {e}
            BY <3>1, <3>3 DEF HandedTo, Reject, IInv, TypeOK
        <3>4. ASSUME NEW p \in Providers, delivered' = [delivered EXCEPT ![p] = @ \cup {r}],
                     UNCHANGED rejected
              PROVE  HandedTo(r)' = {p} /\ rejected'[r] = {}
            BY <3>1, <3>4 DEF HandedTo, IInv, TypeOK
        <3> QED BY <3>1, <3>2, <3>3, <3>4 DEF PlacedOnce
    <2>3. ASSUME NEW q \in Requests \ {r} PROVE PlacedOnce(q)'
        <3>1. \A p \in Providers : q \in delivered'[p] <=> q \in delivered[p]
            BY DEF IInv, TypeOK
        <3>2. rejected'[q] = rejected[q] /\ (q \in used' <=> q \in used)
            BY DEF Reject, Request, IInv, TypeOK
        <3> QED BY <1>3, <3>1, <3>2, SamePlace DEF IInv, RequestsInv
    <2> QED BY <1>3, <2>1, <2>2, <2>3 DEF IInv, RequestsInv, Request
<1> QED BY <1>1, <1>2, <1>4, <1>5 DEF IInv

\* Request() of a service that is not registered.
LEMMA QueuedRequest ==
    ASSUME IInv, NEW s \in Services, NEW r \in Requests, NEW x \in Processes,
           NEW hasTimeout \in BOOLEAN, Request(s, r, x, hasTimeout),
           ~Bound(s), Push(s, r, hasTimeout), UNCHANGED <<delivered, rejected>>
    PROVE  IInv'
<1>1. TypeOK' /\ MapOK /\ MapOK'
    BY RequestType, TypeMap, PushEffect DEF IInv
<1>2. /\ ProviderOf(s)' = ProviderOf(s) /\ OwnerOf(s)' = OwnerOf(s)
      /\ QueueOf(s)' = QueueOf(s) \cup {r}
      /\ \A t \in Services \ {s} : SameEntry(t)
    BY <1>1, PushEffect
<1>3. \A t \in Services : /\ ProviderOf(t)' = ProviderOf(t) /\ OwnerOf(t)' = OwnerOf(t)
                          /\ QueueOf(t)' = IF t = s THEN QueueOf(t) \cup {r} ELSE QueueOf(t)
    BY <1>2 DEF SameEntry
<1>4. OwnerMatchesProvider'
    BY <1>1, <1>3, MapIs, MapIsNext DEF IInv, MayOwn, Request
<1>5. NoDanglingReferences'
    <2>1. ASSUME NEW task \in timeouts' PROVE task[2] \in QueueOf(task[1])'
        <3>1. CASE task \in timeouts
            BY <1>1, <1>3, <3>1, MapIs DEF IInv, TypeOK
        <3>2. CASE task = <<s, r>>
            BY <1>3, <3>2
        <3> QED BY <3>1, <3>2 DEF Push
    <2> QED BY <1>1, <2>1, MapIs, MapIsNext DEF IInv, Request
<1>6. ViewsAreCurrent'
    BY <1>3, SameViews DEF IInv, Request
<1>7. RequestsInv'
    <2>1. \A p \in Providers \ used' : delivered'[p] = {}
        BY DEF IInv, RequestsInv, Request
    <2>2. \A t \in Services : QueueOf(t)' # {} => ProviderOf(t)' = None
        BY <1>3, BoundIs DEF IInv, RequestsInv
    <2> \A t \in Services : ProviderOf(t)' \in used' \cup {None}
        BY <1>3 DEF IInv, RequestsInv, Request
    <2>3. PlacedOnce(r)'
        <3>1. WaitingAt(r) = {} /\ HandedTo(r) = {} /\ rejected[r] = {} /\ r \in used'
            BY DEF Request, IInv, RequestsInv, PlacedOnce
        <3>2. WaitingAt(r)' = {s}
            BY <1>3, <3>1, BoundIs DEF WaitingAt
        <3>3. HandedTo(r)' = {}
            BY <3>1 DEF HandedTo
        <3> QED BY <3>1, <3>2, <3>3 DEF PlacedOnce
    <2>4. ASSUME NEW q \in Requests \ {r} PROVE PlacedOnce(q)'
        <3>1. \A t \in Services : q \in QueueOf(t)' <=> q \in QueueOf(t)
            BY <1>3
        <3>2. q \in used' <=> q \in used
            BY DEF Request
        <3> QED BY <1>3, <3>1, <3>2, SamePlace DEF IInv, RequestsInv
    <2> QED BY <2>1, <2>2, <2>3, <2>4 DEF RequestsInv
<1>8. ObserversInv'
    BY DEF IInv, ObserversInv, Request
<1> QED BY <1>1, <1>4, <1>5, <1>6, <1>7, <1>8 DEF IInv

\* Request() keeps the invariant: refused, handed to a provider at once, or queued.
LEMMA RequestStep ==
    ASSUME IInv, NEW s \in Services, NEW r \in Requests, NEW x \in Processes,
           NEW hasTimeout \in BOOLEAN, Request(s, r, x, hasTimeout)
    PROVE  IInv'
<1>1. CASE UNCHANGED <<service, timeouts, delivered>> /\ \E e \in ErrorCode : Reject(r, e)
    BY <1>1, AnsweredRequest
<1>2. CASE /\ Bound(s)
           /\ delivered' = [delivered EXCEPT ![service[s].provider] = @ \cup {r}]
           /\ UNCHANGED <<service, timeouts, rejected>>
    <2>1. service[s].provider \in Providers \cap used
        BY <1>2 DEF IInv, TypeOK, ServiceState, RequestsInv, Bound, ProviderOf
    <2> QED BY <1>2, <2>1, AnsweredRequest
<1>3. CASE ~Bound(s) /\ Push(s, r, hasTimeout) /\ UNCHANGED <<delivered, rejected>>
    BY <1>3, QueuedRequest
<1> QED BY <1>1, <1>2, <1>3 DEF Request, ErrorCode

\* The timeout of a request that is still waiting.
LEMMA PopStep ==
    ASSUME IInv, NEW s \in Services, NEW r \in Requests, PopAndRejectTimeoutRequest(s, r)
    PROVE  IInv'
<1>1. s \in DOMAIN service /\ r \in QueueOf(s)
    BY DEF PopAndRejectTimeoutRequest, IInv, NoDanglingReferences, QueueOf
<1>2. TypeOK' /\ MapOK /\ MapOK'
    BY <1>1, PopType, TypeMap, PopEffect DEF IInv, PopAndRejectTimeoutRequest
<1>3. \A t \in Services : /\ ProviderOf(t)' = ProviderOf(t) /\ OwnerOf(t)' = OwnerOf(t)
                          /\ QueueOf(t)' = IF t = s THEN QueueOf(t) \ {r} ELSE QueueOf(t)
    BY <1>1, <1>2, PopEffect DEF PopAndRejectTimeoutRequest, SameEntry
<1>4. s \in WaitingAt(r)
    BY <1>1 DEF IInv, RequestsInv, WaitingAt
<1>5. WaitingAt(r) = {s} /\ HandedTo(r) = {} /\ rejected[r] = {} /\ r \in used
    BY <1>4 DEF IInv, RequestsInv, PlacedOnce
<1>6. OwnerMatchesProvider'
    BY <1>2, <1>3, MapIs, MapIsNext DEF IInv, MayOwn, PopAndRejectTimeoutRequest
<1>7. NoDanglingReferences'
    <2>1. ASSUME NEW task \in timeouts' PROVE task[2] \in QueueOf(task[1])'
        <3>1. task \in timeouts /\ task # <<s, r>> /\ task \in Services \X Requests
            BY DEF PopAndRejectTimeoutRequest, IInv, TypeOK
        <3>2. task[2] \in QueueOf(task[1]) /\ task[1] \in Services
            BY <1>2, <3>1, MapIs DEF IInv
        <3>3. ~(task[1] = s /\ task[2] = r)
            BY <3>1
        <3> QED BY <1>3, <3>2, <3>3
    <2> QED BY <1>2, <2>1, MapIs, MapIsNext DEF IInv, PopAndRejectTimeoutRequest
<1>8. ViewsAreCurrent'
    BY <1>3, SameViews DEF IInv, PopAndRejectTimeoutRequest
<1>9. RequestsInv'
    <2>1. PlacedOnce(r)'
        <3>1. WaitingAt(r)' = {}
            BY <1>3, <1>5 DEF WaitingAt
        <3>2. HandedTo(r)' = {} /\ rejected'[r] = {"kTimeout"} /\ r \in used'
            BY <1>5 DEF HandedTo, PopAndRejectTimeoutRequest, Reject, IInv, TypeOK
        <3> QED BY <3>1, <3>2 DEF PlacedOnce
    <2>2. ASSUME NEW q \in Requests \ {r} PROVE PlacedOnce(q)'
        <3>1. \A t \in Services : q \in QueueOf(t)' <=> q \in QueueOf(t)
            BY <1>3
        <3>2. rejected'[q] = rejected[q] /\ UNCHANGED <<used, delivered>>
            BY DEF PopAndRejectTimeoutRequest, Reject, IInv, TypeOK
        <3> QED BY <1>3, <3>1, <3>2, SamePlace DEF IInv, RequestsInv
    <2> QED BY <1>3, <2>1, <2>2 DEF IInv, RequestsInv, PopAndRejectTimeoutRequest
<1>10. ObserversInv'
    BY DEF IInv, ObserversInv, PopAndRejectTimeoutRequest
<1> QED BY <1>2, <1>6, <1>7, <1>8, <1>9, <1>10 DEF IInv

\* The provider of a service has gone.
LEMMA UnbindStep ==
    ASSUME IInv, NEW s \in Services, ServiceProviderDisconnectHandler(s)
    PROVE  IInv'
<1>1. s \in DOMAIN service /\ ProviderOf(s) # None
    BY DEF ServiceProviderDisconnectHandler, Bound, ProviderOf
<1>2. TypeOK' /\ MapOK /\ MapOK'
    BY <1>1, UnbindType, TypeMap, UnbindEffect DEF IInv, ServiceProviderDisconnectHandler
<1>3. /\ ProviderOf(s)' = None /\ OwnerOf(s)' = None
      /\ \A t \in Services : QueueOf(t)' = QueueOf(t)
      /\ \A t \in Services \ {s} : SameEntry(t)
    BY <1>1, <1>2, UnbindEffect DEF ServiceProviderDisconnectHandler, SameEntry
<1>4. QueueOf(s) = {}
    BY <1>1 DEF IInv, RequestsInv
<1>5. OwnerMatchesProvider'
    BY <1>2, <1>3, MapIs, MapIsNext DEF IInv, MayOwn, ServiceProviderDisconnectHandler, SameEntry
<1>6. NoDanglingReferences'
    BY <1>2, <1>3, MapIs, MapIsNext DEF IInv, ServiceProviderDisconnectHandler, TypeOK
<1>7. ViewsAreCurrent'
    BY <1>3, EventViews DEF IInv, ServiceProviderDisconnectHandler
<1>8. RequestsInv'
    <2>1. \A r \in Requests, t \in Services : r \in QueueOf(t) => ProviderOf(t)' = ProviderOf(t)
        BY <1>3, <1>4 DEF SameEntry
    <2>2. \A r \in Requests : PlacedOnce(r)'
        BY <1>3, <2>1, SamePlace DEF IInv, RequestsInv, ServiceProviderDisconnectHandler
    <2>3. \A t \in Services : /\ QueueOf(t)' # {} => ProviderOf(t)' = None
                              /\ ProviderOf(t)' \in used' \cup {None}
        BY <1>3 DEF IInv, RequestsInv, ServiceProviderDisconnectHandler, SameEntry
    <2> QED BY <2>2, <2>3 DEF IInv, RequestsInv, ServiceProviderDisconnectHandler
<1>9. ObserversInv'
    BY DEF IInv, ObserversInv, ServiceProviderDisconnectHandler
<1> QED BY <1>2, <1>5, <1>6, <1>7, <1>8, <1>9 DEF IInv

\* Calls and handlers that leave services, requests and providers alone.
LEMMA SameRequests ==
    ASSUME RequestsInv, UNCHANGED <<service, delivered, rejected>>,
           used \subseteq used', used' \cap Requests = used \cap Requests
    PROVE  RequestsInv'
<1>1. \A t \in Services : QueueOf(t)' = QueueOf(t) /\ ProviderOf(t)' = ProviderOf(t)
    BY DEF QueueOf, ProviderOf
<1>2. \A r \in Requests : PlacedOnce(r)'
    BY <1>1, SamePlace DEF RequestsInv
<1> QED BY <1>1, <1>2 DEF RequestsInv

\* AddServiceObserver() keeps it: both maps get the observer, and Query() gives it the present state.
LEMMA AddObserverStep ==
    ASSUME IInv, NEW o \in Observers, NEW x \in Processes, AddServiceObserver(o, x)
    PROVE  IInv'
<1>1. TypeOK' /\ UidOf[x] \in Uids /\ ContextOf[x] \in Contexts
    BY ObserverType, ServiceManagerAssumption DEF IInv
<1>2. /\ \A u \in Uids : byUid'[u] = IF u = UidOf[x] THEN byUid[u] \cup {o} ELSE byUid[u]
      /\ \A c \in Contexts : legacy'[c] = IF c = ContextOf[x]
                                          THEN legacy[c] \cup {<<UidOf[x], o>>} ELSE legacy[c]
    BY DEF AddServiceObserver, IInv, TypeOK
<1>3. NoDanglingReferences'
    <2>1. ASSUME NEW c \in Contexts, NEW pair \in legacy'[c] PROVE pair[2] \in byUid'[pair[1]]
        <3>1. CASE pair = <<UidOf[x], o>>
            BY <1>1, <1>2, <3>1
        <3>2. CASE pair \in legacy[c]
            <4>1. pair[1] \in Uids /\ pair[2] \in byUid[pair[1]]
                BY <3>2 DEF IInv, TypeOK, NoDanglingReferences
            <4> QED BY <1>2, <4>1
        <3> QED BY <1>2, <3>1, <3>2
    <2> QED BY <2>1 DEF AddServiceObserver, IInv, NoDanglingReferences
<1>4. OwnerMatchesProvider'
    BY DEF AddServiceObserver, IInv, OwnerMatchesProvider, Bound, MayOwn
<1>5. ViewsAreCurrent'
    <2> SUFFICES ASSUME NEW y \in Processes, NEW t \in Services, NEW q \in Observers,
                        <<UidOf[y], q>> \in legacy'[ContextOf[y]], q \notin closed, MayRequest(t, y)
                 PROVE  view'[q][t] = Bound(t)
        BY DEF ViewsAreCurrent, MayRequest, AddServiceObserver, Bound
    <2>1. CASE q = o
        <3>1. view'[o][t] = (t \in DOMAIN service /\ service[t].owner # None)
            BY DEF AddServiceObserver, IInv, TypeOK
        <3>2. CASE t \in DOMAIN service
            <4>1. (service[t].owner # None) <=> (service[t].provider # None)
                BY <3>2 DEF IInv, OwnerMatchesProvider, Bound
            <4>2. view'[o][t] = (service[t].provider # None)
                BY <3>1, <3>2, <4>1
            <4> QED BY <2>1, <3>2, <4>2 DEF Bound
        <3>3. CASE t \notin DOMAIN service
            <4>1. view'[o][t] = FALSE
                BY <3>1, <3>3
            <4> QED BY <2>1, <3>3, <4>1 DEF Bound
        <3> QED BY <3>2, <3>3
    <2>2. CASE q # o
        <3>1. ContextOf[y] \in Contexts
            BY ServiceManagerAssumption
        <3>2. <<UidOf[y], q>> \in legacy[ContextOf[y]]
            <4>1. <<UidOf[y], q>> # <<UidOf[x], o>>
                BY <2>2
            <4> QED BY <1>2, <3>1, <4>1
        <3>3. view'[q] = view[q]
            BY <2>2 DEF AddServiceObserver, IInv, TypeOK
        <3> QED BY <3>2, <3>3 DEF IInv, ViewsAreCurrent
    <2> QED BY <2>1, <2>2
<1>6. RequestsInv'
    BY SameRequests, ServiceManagerAssumption DEF AddServiceObserver, IInv
<1>7. ObserversInv'
    <2>1. \A u \in Uids : \A q \in byUid'[u] :
              \E y \in Processes : UidOf[y] = u /\ <<u, q>> \in legacy'[ContextOf[y]]
        <3> TAKE u \in Uids
        <3> TAKE q \in byUid'[u]
        <3>1. CASE u = UidOf[x] /\ q = o
            BY <1>1, <1>2, <3>1
        <3>2. CASE q \in byUid[u]
            <4>1. PICK y \in Processes : UidOf[y] = u /\ <<u, q>> \in legacy[ContextOf[y]]
                BY <3>2 DEF IInv, ObserversInv
            <4>2. ContextOf[y] \in Contexts
                BY ServiceManagerAssumption
            <4> QED BY <1>2, <4>1, <4>2
        <3> QED BY <1>2, <3>1, <3>2
    <2>2. \A c \in Contexts : \A pair \in legacy'[c] :
              \E y \in Processes : UidOf[y] = pair[1] /\ ContextOf[y] = c
        <3> TAKE c \in Contexts
        <3> TAKE pair \in legacy'[c]
        <3>1. CASE c = ContextOf[x] /\ pair = <<UidOf[x], o>>
            BY <3>1
        <3>2. CASE pair \in legacy[c]
            BY <3>2 DEF IInv, ObserversInv
        <3> QED BY <1>2, <3>1, <3>2
    <2> QED BY <2>1, <2>2 DEF ObserversInv
<1> QED BY <1>1, <1>3, <1>4, <1>5, <1>6, <1>7 DEF IInv

\* An observer's disconnect handler keeps it: both maps lose the observer.
LEMMA RemoveObserverStep ==
    ASSUME IInv, NEW u \in Uids, NEW o \in Observers, HandleObserverDisconnect(u, o)
    PROVE  IInv'
<1>1. TypeOK'
    BY ObserverType DEF IInv
<1>2. /\ \A v \in Uids : byUid'[v] = IF v = u THEN byUid[v] \ {o} ELSE byUid[v]
      /\ \A c \in Contexts : legacy'[c] = legacy[c] \ {<<u, o>>}
    BY DEF HandleObserverDisconnect, IInv, TypeOK
<1>3. NoDanglingReferences'
    <2>1. ASSUME NEW c \in Contexts, NEW pair \in legacy'[c] PROVE pair[2] \in byUid'[pair[1]]
        <3>1. pair \in legacy[c] /\ pair # <<u, o>> /\ pair \in Uids \X Observers
            BY <1>2 DEF IInv, TypeOK
        <3>2. pair[1] \in Uids /\ pair[2] \in byUid[pair[1]] /\ ~(pair[1] = u /\ pair[2] = o)
            BY <3>1 DEF IInv, NoDanglingReferences
        <3> QED BY <1>2, <3>2
    <2> QED BY <2>1 DEF HandleObserverDisconnect, IInv, NoDanglingReferences
<1>4. OwnerMatchesProvider'
    BY DEF HandleObserverDisconnect, IInv, OwnerMatchesProvider, Bound, MayOwn
<1>5. ViewsAreCurrent'
    BY <1>2, SameViews DEF HandleObserverDisconnect, IInv, ProviderOf
<1>6. RequestsInv'
    BY SameRequests DEF HandleObserverDisconnect, IInv
<1>7. ObserversInv'
    <2>1. \A v \in Uids : \A q \in byUid'[v] :
              \E y \in Processes : UidOf[y] = v /\ <<v, q>> \in legacy'[ContextOf[y]]
        <3> TAKE v \in Uids
        <3> TAKE q \in byUid'[v]
        <3>1. q \in byUid[v] /\ <<v, q>> # <<u, o>>
            BY <1>2
        <3>2. PICK y \in Processes : UidOf[y] = v /\ <<v, q>> \in legacy[ContextOf[y]]
            BY <3>1 DEF IInv, ObserversInv
        <3>3. ContextOf[y] \in Contexts
            BY ServiceManagerAssumption
        <3> QED BY <1>2, <3>1, <3>2, <3>3
    <2>2. \A c \in Contexts : \A pair \in legacy'[c] :
              \E y \in Processes : UidOf[y] = pair[1] /\ ContextOf[y] = c
        BY <1>2 DEF IInv, ObserversInv
    <2> QED BY <2>1, <2>2 DEF ObserversInv
<1> QED BY <1>1, <1>3, <1>4, <1>5, <1>6, <1>7 DEF IInv

\* The far end of a pipe closes, or nothing happens.
LEMMA CloseStep ==
    ASSUME IInv, (\E pipe \in Providers \cup Observers : PipeCloses(pipe)) \/ UNCHANGED vars
    PROVE  IInv'
<1>1. /\ UNCHANGED <<permissive, service, timeouts, byUid, legacy, used, delivered, rejected, view>>
      /\ closed \subseteq closed'
    BY DEF PipeCloses, vars
<1>2. TypeOK'
    BY CloseType, StutterType DEF IInv
<1>3. NoDanglingReferences' /\ OwnerMatchesProvider' /\ ObserversInv'
    BY <1>1 DEF IInv, NoDanglingReferences, OwnerMatchesProvider, ObserversInv, Bound, MayOwn
<1>4. ViewsAreCurrent'
    BY <1>1, SameViews DEF IInv, ProviderOf
<1>5. RequestsInv'
    BY <1>1, SameRequests DEF IInv
<1> QED BY <1>2, <1>3, <1>4, <1>5 DEF IInv

\* Every step keeps the invariant.
LEMMA NextIInv == IInv /\ [Next]_vars => IInv'
<1> SUFFICES ASSUME IInv, [Next]_vars PROVE IInv'
    OBVIOUS
<1>1. CASE ClientCall
    BY <1>1, RegisterStep, RequestStep, AddObserverStep DEF ClientCall
<1>2. CASE Disconnect
    BY <1>2, UnbindStep, RemoveObserverStep DEF Disconnect
<1>3. CASE \E s \in Services, r \in Requests : PopAndRejectTimeoutRequest(s, r)
    BY <1>3, PopStep
<1>4. CASE (\E pipe \in Providers \cup Observers : PipeCloses(pipe)) \/ UNCHANGED vars
    BY <1>4, CloseStep
<1> QED BY <1>1, <1>2, <1>3, <1>4 DEF Next

-----------------------------------------------------------------------------
(***************************************************************************)
(* What follows from it.                                                   *)
(***************************************************************************)

\* The daemon's invariant holds in every state it can reach, for any services,
\* policy, clients and number of pipes.
THEOREM Inductive == Spec => []IInv
BY InitIInv, NextIInv, PTL DEF Spec

\* Every variable keeps its type; in particular no request, provider or observer
\* turns up where another kind of pipe is kept.
THEOREM TypeCorrect == Spec => []TypeOK
<1>1. IInv => TypeOK
    BY DEF IInv
<1> QED BY <1>1, Inductive, PTL

\* The iterators in the delayed tasks of ServiceRequestQueue and the remote ids
\* in service_observer_map_legacy_ are valid whenever they are used.
THEOREM ReferencesAreValid == Spec => []NoDanglingReferences
<1>1. IInv => NoDanglingReferences
    BY DEF IInv
<1> QED BY <1>1, Inductive, PTL

\* Query() and Request() agree on which services are registered, and only
\* processes that the policy allows own one.
THEOREM OwnersAreProviders == Spec => []OwnerMatchesProvider
<1>1. IInv => OwnerMatchesProvider
    BY DEF IInv
<1> QED BY <1>1, Inductive, PTL

\* Observers that follow the events know which of the services they may request
\* are registered.
THEOREM ViewsStayCurrent == Spec => []ViewsAreCurrent
<1>1. IInv => ViewsAreCurrent
    BY DEF IInv
<1> QED BY <1>1, Inductive, PTL

\* Places(r), given the places of each kind.
Tagged(A, B, C) ==
    {<<"queue", s>> : s \in A} \cup {<<"provider", p>> : p \in B}
        \cup {<<"rejected", e>> : e \in C}

\* One of the three sets has one element and the others have none.
LEMMA OneOfThree ==
    /\ \A s : Tagged({s}, {}, {}) = {<<"queue", s>>}
    /\ \A p : Tagged({}, {p}, {}) = {<<"provider", p>>}
    /\ \A e : Tagged({}, {}, {e}) = {<<"rejected", e>>}
    /\ Tagged({}, {}, {}) = {}
BY DEF Tagged

\* The places of a request, from the services it waits at and the pipes it was handed to.
LEMMA PlacesAre ==
    ASSUME MapOK, NEW r \in Requests
    PROVE  Places(r) = Tagged(WaitingAt(r), HandedTo(r), rejected[r])
<1>1. {s \in DOMAIN service : r \in service[s].queue /\ ~Bound(s)} = WaitingAt(r)
    BY DEF WaitingAt, QueueOf, ProviderOf, Bound, MapOK
<1> QED BY <1>1 DEF Places, HandedTo, Tagged

\* No request is lost inside the daemon and none is answered twice.
THEOREM RequestsStayAccounted == Spec => []RequestsAreAccounted
<1>1. ASSUME IInv PROVE RequestsAreAccounted
    <2> SUFFICES ASSUME NEW r \in Requests
                 PROVE  Cardinality(Places(r)) = (IF r \in used THEN 1 ELSE 0)
        BY DEF RequestsAreAccounted
    <2>1. MapOK /\ PlacedOnce(r)
        BY <1>1, TypeMap DEF IInv, RequestsInv
    <2>2. CASE r \in used
        <3> DEFINE A == WaitingAt(r)
                   B == HandedTo(r)
                   C == rejected[r]
        <3>1. Places(r) = Tagged(A, B, C)
            BY <2>1, PlacesAre
        <3>2. ASSUME NEW x, Places(r) = {x} PROVE Cardinality(Places(r)) = 1
            BY <3>2, FS_Singleton
        <3>3. CASE (\E s : A = {s}) /\ B = {} /\ C = {}
            <4>1. PICK s : A = {s}
                BY <3>3
            <4>2. Places(r) = Tagged({s}, {}, {})
                BY <3>1, <3>3, <4>1
            <4>3. Places(r) = {<<"queue", s>>}
                BY <4>2, OneOfThree
            <4> QED BY <2>2, <3>2, <4>3
        <3>4. CASE A = {} /\ (\E p : B = {p}) /\ C = {}
            <4>1. PICK p : B = {p}
                BY <3>4
            <4>2. Places(r) = Tagged({}, {p}, {})
                BY <3>1, <3>4, <4>1
            <4>3. Places(r) = {<<"provider", p>>}
                BY <4>2, OneOfThree
            <4> QED BY <2>2, <3>2, <4>3
        <3>5. CASE A = {} /\ B = {} /\ (\E e : C = {e})
            <4>1. PICK e : C = {e}
                BY <3>5
            <4>2. Places(r) = Tagged({}, {}, {e})
                BY <3>1, <3>5, <4>1
            <4>3. Places(r) = {<<"rejected", e>>}
                BY <4>2, OneOfThree
            <4> QED BY <2>2, <3>2, <4>3
        <3> QED BY <2>1, <2>2, <3>3, <3>4, <3>5 DEF PlacedOnce
    <2>3. CASE r \notin used
        <3>1. Places(r) = {}
            BY <2>1, <2>3, PlacesAre, OneOfThree DEF PlacedOnce
        <3> QED BY <2>3, <3>1, FS_EmptySet
    <2> QED BY <2>2, <2>3
<1>2. IInv => RequestsAreAccounted
    BY <1>1
<1> QED BY <1>2, Inductive, PTL

\* What SendServiceEvent() changes in an observer's view is about the service of
\* the event, and the observer is one that it calls.
LEMMA ViewChange ==
    ASSUME TypeOK, ObserversInv, NEW t \in Services, NEW b \in BOOLEAN, SendServiceEvent(t, b),
           NEW o \in Observers, NEW s \in Services, view'[o][s] # view[o][s]
    PROVE  \E x \in Processes : <<UidOf[x], o>> \in legacy[ContextOf[x]] /\ MayRequest(s, x)
<1>1. o \in EventReceivers(t)
    BY DEF SendServiceEvent
<1>2. view'[o] = [view[o] EXCEPT ![t] = b]
    BY <1>1 DEF SendServiceEvent
<1>3. s = t
    BY <1>2 DEF TypeOK
<1> QED BY <1>1, <1>3, OnlyRequestersAreTold

\* What a process knows of a service changes only while it may request it:
\* SendServiceEvent() calls nobody else, and nothing but it changes the view of an
\* observer that was added.
THEOREM EventsReachRequesters == Spec => EventsGoToRequesters
<1> DEFINE Told(o, s) ==
        \E x \in Processes : <<UidOf[x], o>> \in legacy[ContextOf[x]] /\ MayRequest(s, x)
<1>1. ASSUME IInv, [Next]_vars, NEW o \in Observers \cap used, NEW s \in Services,
             view'[o][s] # view[o][s]
      PROVE  Told(o, s)
    <2>1. TypeOK /\ ObserversInv
        BY <1>1 DEF IInv
    <2>2. ASSUME NEW x \in Processes, NEW t \in Services, NEW p \in Providers, Register(t, p, x)
          PROVE  Told(o, s)
        BY <1>1, <2>1, <2>2, ViewChange DEF Register
    <2>3. ASSUME NEW t \in Services, ServiceProviderDisconnectHandler(t)
          PROVE  Told(o, s)
        BY <1>1, <2>1, <2>3, ViewChange DEF ServiceProviderDisconnectHandler
    <2>4. ASSUME NEW x \in Processes, NEW q \in Observers, AddServiceObserver(q, x)
          PROVE  FALSE
        BY <1>1, <2>1, <2>4 DEF AddServiceObserver, TypeOK
    <2>5. CASE view' # view
        BY <1>1, <2>2, <2>3, <2>4, <2>5
           DEF Next, ClientCall, Disconnect, Request, HandleObserverDisconnect,
               PopAndRejectTimeoutRequest, PipeCloses, vars
    <2> QED BY <1>1, <2>5
<1>2. IInv /\ [Next]_vars
          => [\A o \in Observers \cap used, s \in Services :
                 view'[o][s] # view[o][s] =>
                     \E x \in Processes :
                         <<UidOf[x], o>> \in legacy[ContextOf[x]] /\ MayRequest(s, x)]_vars
    BY <1>1
<1> QED BY <1>2, Inductive, PTL DEF Spec, EventsGoToRequesters

=============================================================================
