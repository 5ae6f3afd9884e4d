---------------------------- MODULE SuspendDelays ----------------------------
(***************************************************************************)
(* One SuspendDelayController with everything that calls it: D-Bus clients *)
(* that register and unregister delays, report readiness (late, twice or   *)
(* for another request) and go away; classes of powerd that add and remove *)
(* internal delays; the Suspender, which announces and finishes requests;  *)
(* and the message loop, which runs the three timers.                      *)
(*                                                                         *)
(* dark tells which of Suspender's two controllers this is.  The normal    *)
(* one is prepared once per request; the dark one is prepared again for    *)
(* every dark resume of a request, without a FinishSuspend() in between.   *)
(***************************************************************************)
EXTENDS SuspendDelayController

CONSTANTS
    Timeouts,    \* timeouts that clients ask for
    MaxRequests  \* bound on the number of requests announced

ASSUME HarnessAssumption ==
    /\ Timeouts \subseteq Int
    /\ MaxRequests \in Nat

VARIABLES
    c,          \* the controller
    dark,       \* the in_dark_resume argument it gets in PrepareForSuspend()
    open,       \* a request is announced and FinishSuspend() was not called
    delivered,  \* history: OnReadyForSuspend() was called for that request
    elapsed     \* history: ticks since it was announced, until delivered

vars == <<c, dark, open, delivered, elapsed>>

TypeOK ==
    /\ c \in Controller
    /\ dark \in BOOLEAN
    /\ open \in BOOLEAN
    /\ delivered \in BOOLEAN
    /\ elapsed \in Nat

Init ==
    /\ c = NewController(1)
    /\ dark \in BOOLEAN
    /\ open = FALSE
    /\ delivered = FALSE
    /\ elapsed = 0

-----------------------------------------------------------------------------

Register(timeout, client) ==
    /\ c.nextId \in DelayIds
    /\ c' = RegisterSuspendDelay(c, timeout, client)
    /\ UNCHANGED <<dark, open, delivered, elapsed>>

Unregister(d) ==
    /\ c' = UnregisterSuspendDelay(c, d)
    /\ UNCHANGED <<dark, open, delivered, elapsed>>

Readiness(d, suspendId) ==
    /\ c' = HandleSuspendReadiness(c, d, suspendId)
    /\ UNCHANGED <<dark, open, delivered, elapsed>>

Disconnect(client) ==
    /\ c' = HandleDBusClientDisconnected(c, client)
    /\ UNCHANGED <<dark, open, delivered, elapsed>>

\* Suspender::AddSuspendInternalDelay() asks the normal controller first, and
\* that one refuses from its readiness until the request is finished, so the
\* dark controller gets no internal delay while it waits.
AddInternal(delay) ==
    /\ open => ~dark
    /\ c' = AddSuspendInternalDelay(c, delay)
    /\ UNCHANGED <<dark, open, delivered, elapsed>>

RemoveInternal(delay) ==
    /\ c' = RemoveSuspendInternalDelay(c, delay)
    /\ UNCHANGED <<dark, open, delivered, elapsed>>

\* Suspender counts request ids up and never announces an id twice.
Prepare ==
    /\ c.suspendId < MaxRequests
    /\ open => dark
    /\ c' = PrepareForSuspend(c, c.suspendId + 1, dark)
    /\ open' = TRUE
    /\ delivered' = FALSE
    /\ elapsed' = 0
    /\ UNCHANGED dark

\* Suspender passes its own id, which the dark controller has not seen until
\* the first dark resume.
Finish(suspendId) ==
    /\ c' = FinishSuspend(c, suspendId)
    /\ open' = (open /\ suspendId # c.suspendId)
    /\ delivered' = (delivered /\ open')
    /\ elapsed' = IF open' THEN elapsed ELSE 0
    /\ UNCHANGED dark

MaxDelayExpires ==
    /\ c.maxTimer = 0
    /\ c' = OnMaxDelayExpiration(c)
    /\ UNCHANGED <<dark, open, delivered, elapsed>>

MinDelayExpires ==
    /\ c.minTimer = 0
    /\ c' = OnMinDelayExpiration(c)
    /\ UNCHANGED <<dark, open, delivered, elapsed>>

Notify ==
    /\ c.notify # NoTask
    /\ c' = NotifyObservers(c)
    /\ delivered' = (delivered \/ (open /\ c.notify = c.suspendId))
    /\ UNCHANGED <<dark, open, elapsed>>

Tick ==
    /\ NothingDue(c)
    /\ Running(c.maxTimer) \/ Running(c.minTimer)
    /\ c' = PassTime(c, 1)
    /\ elapsed' = IF open /\ ~delivered THEN elapsed + 1 ELSE elapsed
    /\ UNCHANGED <<dark, open, delivered>>

ClientStep ==
    \/ \E timeout \in Timeouts, client \in Clients : Register(timeout, client)
    \/ \E d \in DelayIds : Unregister(d)
    \/ \E d \in DelayIds, suspendId \in 0..MaxRequests : Readiness(d, suspendId)
    \/ \E client \in Clients : Disconnect(client)

PowerdStep ==
    \/ \E delay \in InternalDelays : AddInternal(delay) \/ RemoveInternal(delay)
    \/ Prepare
    \/ \E suspendId \in 0..MaxRequests : Finish(suspendId)

LoopStep == MaxDelayExpires \/ MinDelayExpires \/ Notify \/ Tick

Next == ClientStep \/ PowerdStep \/ LoopStep

Spec == Init /\ [][Next]_vars

\* The message loop keeps running: due tasks are run and time passes.
FairSpec ==
    /\ Spec
    /\ WF_vars(MaxDelayExpires)
    /\ WF_vars(MinDelayExpires)
    /\ WF_vars(Notify)
    /\ WF_vars(Tick)

-----------------------------------------------------------------------------

\* Every delay that is waited for is registered, so registered_delays_[id] in
\* OnMaxDelayExpiration() never inserts an entry for a delay that is gone.
WaitedAreRegistered == c.waiting \subseteq Registered(c)

\* While a request is announced and nobody was told that it is ready, a timer
\* or a posted task is there to tell; without one the request would hang.
NeverStuck ==
    open /\ ~delivered =>
        \/ Running(c.maxTimer)
        \/ Running(c.minTimer)
        \/ c.notify = c.suspendId

\* Once readiness for the announced request is posted, nothing is waited for
\* when the observer hears of it, whatever was registered, added or removed
\* in between.
ReadyIsReady ==
    open /\ (c.notify = c.suspendId \/ delivered) =>
        c.waiting = {} /\ c.internal = {}

\* A client or an internal delay can hold up a request for max_delay_timeout_
\* and no longer, counted from the announcement.
BoundedWait == open /\ ~delivered => elapsed <= MaxDelayTimeout

\* An announced request is reported ready unless it is finished first.
EveryRequestIsReported == (open /\ ~delivered) ~> (delivered \/ ~open)

-----------------------------------------------------------------------------
(***************************************************************************)
(* The inductive invariant behind these, for SuspendDelaysProofs.          *)
(***************************************************************************)

\* A posted notification is never ahead of the controller, and one that is for
\* the announced request also bars internal delays from then on.
ReadinessInv ==
    /\ c.notify <= c.suspendId
    /\ open /\ (c.notify = c.suspendId \/ delivered) =>
          c.notified /\ c.waiting = {} /\ c.internal = {}

\* No timer outlives its request, and only dark resume has a shortest wait.
TimersInv ==
    /\ ~open => c.maxTimer = Off /\ c.minTimer = Off
    /\ ~dark => c.minTimer = Off

\* While something is waited for it is the longer timer that runs: the shorter
\* one may fire without reporting anything.
PendingInv ==
    open /\ ~delivered =>
        /\ Running(c.maxTimer) \/ Running(c.minTimer) \/ c.notify = c.suspendId
        /\ c.waiting # {} \/ c.internal # {} => Running(c.maxTimer)

\* What has passed and what is left together never exceed the limit.
DeadlineInv ==
    open /\ ~delivered =>
        /\ elapsed <= MaxDelayTimeout
        /\ Running(c.maxTimer) => elapsed + c.maxTimer <= MaxDelayTimeout
        /\ Running(c.minTimer) => elapsed + c.minTimer <= MaxDelayTimeout

IInv ==
    /\ TypeOK
    /\ WaitedAreRegistered
    /\ ReadinessInv
    /\ TimersInv
    /\ PendingInv
    /\ DeadlineInv

=============================================================================
