--------------------------- MODULE ServiceManager ---------------------------
(***************************************************************************)
(* mojo_service_manager/daemon/service_manager.{h,cc} and                  *)
(* service_request_queue.{h,cc}: the daemon that connects the processes    *)
(* that request mojo services with the processes that provide them.        *)
(*                                                                         *)
(* The daemon has one thread; an action is one mojo call, one disconnect   *)
(* handler or one delayed task.  A message pipe is named by a model value: *)
(* Requests are the receiver pipes of Request() calls, Providers the pipes *)
(* of Register() calls, Observers those of AddServiceObserver() calls, and *)
(* each is passed once.  The far end of a pipe may be closed long before   *)
(* its disconnect handler runs, and calls on other pipes run in between.   *)
(*                                                                         *)
(* A request queue is the set of its requests: they all leave it at once,  *)
(* newest first, or one at a time by their own timeouts.                   *)
(***************************************************************************)
EXTENDS Naturals, FiniteSets

CONSTANTS
    Services,   \* service names
    Policy,     \* policy_map: some of the names -> ServicePolicy
    Processes,  \* clients' connections to the daemon
    UidOf,      \* ProcessIdentity of a process: its uid ...
    ContextOf,  \* ... and its SELinux security context
    Requests, Providers, Observers,
    None        \* an unset owner or remote

Uids == {UidOf[x] : x \in Processes}
Contexts == {ContextOf[x] : x \in Processes}

ServicePolicy ==
    [ownersUid : SUBSET Uids, owners : SUBSET Contexts,
     requestersUid : SUBSET Uids, requesters : SUBSET Contexts]

ASSUME ServiceManagerAssumption ==
    /\ UidOf \in [Processes -> Uids]
    /\ ContextOf \in [Processes -> Contexts]
    /\ DOMAIN Policy \subseteq Services
    /\ Policy \in [DOMAIN Policy -> ServicePolicy]
    /\ None \notin Processes \cup Providers
    /\ Requests \cap Providers = {} /\ Requests \cap Observers = {} /\ Providers \cap Observers = {}

VARIABLES
    permissive,  \* configuration_.is_permissive
    service,     \* service_map_
    timeouts,    \* delayed PopAndRejectTimeoutRequest() tasks that will run
    byUid,       \* service_observer_map_
    legacy,      \* service_observer_map_legacy_
    closed,      \* provider and observer pipes whose far end is closed
    used,        \* pipes that a process has passed to the daemon
    timed,       \* history: requests that were queued with a timeout
    delivered,   \* history: requests handed to each provider pipe
    rejected,    \* history: reasons a request's receiver was reset with
    view         \* history: what an observer makes of the events it got

vars == <<permissive, service, timeouts, byUid, legacy, closed, used, timed,
          delivered, rejected, view>>

ServiceState ==
    [provider : Providers \cup {None}, owner : Processes \cup {None},
     queue : SUBSET Requests]

ErrorCode == {"kTimeout", "kPermissionDenied", "kServiceNotFound"}

TypeOK ==
    /\ permissive \in BOOLEAN
    /\ DOMAIN service \subseteq Services
    /\ service \in [DOMAIN service -> ServiceState]
    /\ timeouts \subseteq Services \X Requests
    /\ byUid \in [Uids -> SUBSET Observers]
    /\ legacy \in [Contexts -> SUBSET (Uids \X Observers)]
    /\ closed \subseteq Providers \cup Observers
    /\ used \subseteq Requests \cup Providers \cup Observers
    /\ timed \subseteq Requests
    /\ delivered \in [Providers -> SUBSET Requests]
    /\ rejected \in [Requests -> SUBSET ErrorCode]
    /\ view \in [Observers -> [Services -> BOOLEAN]]

MutantNewServiceState == [provider |-> None, owner |-> 0, queue |-> {}]

NewServiceState == [provider |-> None, owner |-> None, queue |-> {}]

Init ==
    /\ permissive \in BOOLEAN
    /\ service = [s \in DOMAIN Policy |-> NewServiceState]
    /\ timeouts = {}
    /\ byUid = [u \in Uids |-> {}]
    /\ legacy = [x \in Contexts |-> {}]
    /\ closed = {}
    /\ used = {}
    /\ timed = {}
    /\ delivered = [p \in Providers |-> {}]
    /\ rejected = [r \in Requests |-> {}]
    /\ view = [o \in Observers |-> [s \in Services |-> FALSE]]

-----------------------------------------------------------------------------

\* Found in service_map_, or about to be created there in permissive mode.
Found(s) == s \in DOMAIN service \/ permissive

\* service_map_ after find() and try_emplace().
FindOrCreate(s) ==
    [t \in DOMAIN service \cup {s} |->
       IF t \in DOMAIN service THEN service[t] ELSE NewServiceState]

PolicyOf(s) ==
    IF s \in DOMAIN Policy
    THEN Policy[s]
    ELSE [ownersUid |-> {}, owners |-> {}, requestersUid |-> {}, requesters |-> {}]

MayOwn(s, x) ==
    \/ permissive
    \/ UidOf[x] \in PolicyOf(s).ownersUid
    \/ ContextOf[x] \in PolicyOf(s).owners

MayRequest(s, x) ==
    \/ permissive
    \/ UidOf[x] \in PolicyOf(s).requestersUid
    \/ ContextOf[x] \in PolicyOf(s).requesters

Bound(s) == s \in DOMAIN service /\ service[s].provider # None

MutantEventReceivers(s) ==
    IF permissive
    THEN UNION {byUid[u] : u \in Uids}
    ELSE UNION {byUid[u] : u \in PolicyOf(s).requestersUid}

MutantEventReceiversAnyContext(s) ==
    IF permissive
    THEN UNION {byUid[u] : u \in Uids}
    ELSE (UNION {byUid[u] : u \in PolicyOf(s).requestersUid})
         \cup {pair[2] : pair \in UNION {legacy[x] : x \in Contexts}}

\* Observers of the processes whose security contexts may request s.
LegacyReceivers(s) == {pair[2] : pair \in UNION {legacy[x] : x \in PolicyOf(s).requesters}}

\* The observers that SendServiceEvent() calls.  One that its uid and its
\* security context both make a requester is called twice.
EventReceivers(s) ==
    IF permissive
    THEN UNION {byUid[u] : u \in Uids}
    ELSE (UNION {byUid[u] : u \in PolicyOf(s).requestersUid})
         \cup LegacyReceivers(s)

\* kRegistered or kUnRegistered; what is sent into a closed pipe is lost.
SendServiceEvent(s, registered) ==
    view' = [o \in Observers |->
               IF o \in EventReceivers(s) \ closed
               THEN [view[o] EXCEPT ![s] = registered]
               ELSE view[o]]

MutantTakeAllRequests(s, requests) ==
    [queue |-> {}, timeouts |-> timeouts]

\* What the queue of s and the delayed tasks are after TakeAllRequests(),
\* which invalidates the weak pointers all tasks of the queue were bound to.
TakeAllRequests(s, requests) ==
    [queue |-> {}, timeouts |-> timeouts \ ({s} \X requests)]

\* A provider that is refused has its pipe reset with the reason and nothing
\* else changes.  The others get every request that waited for the service (a
\* receiver that waits is valid, so that the test for it skips none).
Register(s, p, x) ==
    /\ p \notin used
    /\ used' = used \cup {p}
    /\ \/ /\ ~Found(s) \/ ~MayOwn(s, x) \/ Bound(s)
          /\ UNCHANGED <<service, timeouts, delivered, view>>
       \/ /\ Found(s) /\ MayOwn(s, x) /\ ~Bound(s)
          /\ LET waiting == FindOrCreate(s)[s].queue
                 taken   == TakeAllRequests(s, waiting)
             IN  /\ service' = [FindOrCreate(s) EXCEPT
                                  ![s] = [provider |-> p, owner |-> x,
                                          queue |-> taken.queue]]
                 /\ timeouts' = taken.timeouts
                 /\ delivered' = [delivered EXCEPT ![p] = waiting]
          /\ SendServiceEvent(s, TRUE)
    /\ UNCHANGED <<permissive, byUid, legacy, closed, timed, rejected>>

Reject(r, reason) == rejected' = [rejected EXCEPT ![r] = @ \cup {reason}]

MutantPush(s, r, hasTimeout) ==
    /\ service' = [FindOrCreate(s) EXCEPT ![s].queue = @ \cup {r}]
    /\ timeouts' = IF hasTimeout /\ FindOrCreate(s)[s].queue = {}
                   THEN timeouts \cup {<<s, r>>} ELSE timeouts
    /\ timed' = IF hasTimeout THEN timed \cup {r} ELSE timed

\* ServiceRequestQueue::Push(): a request with a timeout gets a delayed task.
Push(s, r, hasTimeout) ==
    /\ service' = [FindOrCreate(s) EXCEPT ![s].queue = @ \cup {r}]
    /\ timeouts' = IF hasTimeout THEN timeouts \cup {<<s, r>>} ELSE timeouts
    /\ timed' = IF hasTimeout THEN timed \cup {r} ELSE timed

Request(s, r, x, hasTimeout) ==
    /\ r \notin used
    /\ used' = used \cup {r}
    /\ \/ /\ ~Found(s)
          /\ Reject(r, "kServiceNotFound")
          /\ UNCHANGED <<service, timeouts, timed, delivered>>
       \/ /\ Found(s) /\ ~MayRequest(s, x)
          /\ Reject(r, "kPermissionDenied")
          /\ UNCHANGED <<service, timeouts, timed, delivered>>
       \/ /\ Found(s) /\ MayRequest(s, x) /\ Bound(s)
          /\ delivered' = [delivered EXCEPT ![service[s].provider] = @ \cup {r}]
          /\ UNCHANGED <<service, timeouts, timed, rejected>>
       \/ /\ Found(s) /\ MayRequest(s, x) /\ ~Bound(s)
          /\ Push(s, r, hasTimeout)
          /\ UNCHANGED <<delivered, rejected>>
    /\ UNCHANGED <<permissive, byUid, legacy, closed, view>>

MutantPopAndRejectTimeoutRequest(s, r) ==
    /\ <<s, r>> \in timeouts
    /\ timeouts' = timeouts \ {<<s, r>>}
    /\ Reject(r, "kTimeout")
    /\ UNCHANGED <<permissive, service, byUid, legacy, closed, used, timed, delivered, view>>

\* The task holds an iterator into the queue and erases what it refers to.
PopAndRejectTimeoutRequest(s, r) ==
    /\ <<s, r>> \in timeouts
    /\ timeouts' = timeouts \ {<<s, r>>}
    /\ Reject(r, "kTimeout")
    /\ service' = [service EXCEPT ![s].queue = @ \ {r}]
    /\ UNCHANGED <<permissive, byUid, legacy, closed, used, timed, delivered, view>>

MutantServiceProviderDisconnectHandler(s) ==
    /\ Bound(s) /\ service[s].provider \in closed
    /\ service' = [service EXCEPT ![s].provider = None]
    /\ SendServiceEvent(s, FALSE)
    /\ UNCHANGED <<permissive, timeouts, byUid, legacy, closed, used, timed, delivered, rejected>>

ServiceProviderDisconnectHandler(s) ==
    /\ Bound(s) /\ service[s].provider \in closed
    /\ service' = [service EXCEPT ![s] = [@ EXCEPT !.provider = None, !.owner = None]]
    /\ SendServiceEvent(s, FALSE)
    /\ UNCHANGED <<permissive, timeouts, byUid, legacy, closed, used, timed, delivered, rejected>>

\* The observer's view starts with what a Query() would answer: Query() tells
\* registered from unregistered by the owner.
AddServiceObserver(o, x) ==
    /\ o \notin used
    /\ used' = used \cup {o}
    /\ byUid' = [byUid EXCEPT ![UidOf[x]] = @ \cup {o}]
    /\ legacy' = [legacy EXCEPT ![ContextOf[x]] = @ \cup {<<UidOf[x], o>>}]
    /\ view' = [view EXCEPT
                  ![o] = [s \in Services |->
                            s \in DOMAIN service /\ service[s].owner # None]]
    /\ UNCHANGED <<permissive, service, timeouts, closed, timed, delivered, rejected>>

\* The RemoteSet drops the remote and then runs the handler.
HandleObserverDisconnect(u, o) ==
    /\ o \in byUid[u] \cap closed
    /\ byUid' = [byUid EXCEPT ![u] = @ \ {o}]
    /\ legacy' = [x \in Contexts |-> legacy[x] \ {<<u, o>>}]
    /\ UNCHANGED <<permissive, service, timeouts, closed, used, timed, delivered, rejected, view>>

\* The process at the far end of a pipe closes it or dies.
PipeCloses(pipe) ==
    /\ pipe \notin closed
    /\ closed' = closed \cup {pipe}
    /\ UNCHANGED <<permissive, service, timeouts, byUid, legacy, used, timed, delivered,
                   rejected, view>>

ClientCall ==
    \E x \in Processes :
        \/ \E s \in Services, p \in Providers : Register(s, p, x)
        \/ \E s \in Services, r \in Requests, hasTimeout \in BOOLEAN :
              Request(s, r, x, hasTimeout)
        \/ \E o \in Observers : AddServiceObserver(o, x)

Disconnect ==
    \/ \E s \in Services : ServiceProviderDisconnectHandler(s)
    \/ \E u \in Uids, o \in Observers : HandleObserverDisconnect(u, o)

Next ==
    \/ ClientCall
    \/ Disconnect
    \/ \E s \in Services, r \in Requests : PopAndRejectTimeoutRequest(s, r)
    \/ \E pipe \in Providers \cup Observers : PipeCloses(pipe)

Spec == Init /\ [][Next]_vars

\* The thread runs delayed tasks and disconnect handlers; nobody has to call.
FairSpec ==
    /\ Spec
    /\ \A s \in Services, r \in Requests : WF_vars(PopAndRejectTimeoutRequest(s, r))
    /\ \A s \in Services : WF_vars(ServiceProviderDisconnectHandler(s))

-----------------------------------------------------------------------------

\* Nothing refers to what is gone.  Every delayed task refers to a request that
\* is still in its queue, so that the iterator in PopAndRejectTimeoutRequest() is
\* valid; every observer the legacy map names is still in the RemoteSet of its
\* uid, so that Get(remote_id) in SendServiceEvent() never returns null.
NoDanglingReferences ==
    /\ \A task \in timeouts :
          task[1] \in DOMAIN service /\ task[2] \in service[task[1]].queue
    /\ \A x \in Contexts : \A pair \in legacy[x] : pair[2] \in byUid[pair[1]]

\* Where a request is or what became of it.  One that is queued for a service
\* that has a provider is nowhere: nothing would hand it over.
Places(r) ==
    {<<"queue", s>> : s \in {s \in DOMAIN service : r \in service[s].queue /\ ~Bound(s)}}
    \cup {<<"provider", p>> : p \in {p \in Providers : r \in delivered[p]}}
    \cup {<<"rejected", reason>> : reason \in rejected[r]}

\* A request is never lost inside the daemon and never answered twice: it
\* waits for a provider in one queue, went to one or was reset with one reason.
RequestsAreAccounted ==
    \A r \in Requests : Cardinality(Places(r)) = (IF r \in used THEN 1 ELSE 0)

\* What Query() answers (from the owner) and what Request() does (by the
\* remote) agree, and whoever owns a service is allowed to.
OwnerMatchesProvider ==
    \A s \in DOMAIN service :
        /\ Bound(s) <=> service[s].owner # None
        /\ Bound(s) => MayOwn(s, service[s].owner)

\* An observer of a process that may request a service, and that follows the
\* events from the state it could query when it was added, knows whether the
\* service is registered, however providers come and go.
ViewsAreCurrent ==
    \A x \in Processes, s \in Services, o \in Observers :
        (<<UidOf[x], o>> \in legacy[ContextOf[x]] /\ o \notin closed /\ MayRequest(s, x))
            => view[o][s] = Bound(s)

\* "The observer can only receive the events related to the services which
\* the callers are allowed to request" (service_manager.mojom): what an
\* observer knows of a service changes only if its process may request it.
EventsGoToRequesters ==
    [][\A o \in Observers \cap used, s \in Services :
          view'[o][s] # view[o][s] =>
              \E x \in Processes :
                  <<UidOf[x], o>> \in legacy[ContextOf[x]] /\ MayRequest(s, x)]_vars

\* A request that was queued with a timeout does not wait for ever, whether
\* providers come and go or never come.
TimedRequestsEnd ==
    \A r \in Requests :
        r \in timed ~> \A s \in DOMAIN service : r \notin service[s].queue

=============================================================================
