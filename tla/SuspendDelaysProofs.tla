------------------------- MODULE SuspendDelaysProofs -------------------------
(***************************************************************************)
(* Proofs about SuspendDelays for any set of delay ids, clients, internal  *)
(* delays and timeouts, any number of requests and both controllers.       *)
(***************************************************************************)
EXTENDS SuspendDelays, SuspendDelayControllerProofs

\* Every step of a client, of powerd or of the message loop keeps the types.
LEMMA TypeStep == TypeOK /\ [Next]_vars => TypeOK'
<1> SUFFICES ASSUME TypeOK, [Next]_vars PROVE TypeOK'
  OBVIOUS
<1> USE DEF TypeOK
<1>1. ASSUME NEW timeout \in Timeouts, NEW client \in Clients, Register(timeout, client)
      PROVE  TypeOK'
  BY <1>1, RegisterType, HarnessAssumption DEF Register
<1>2. ASSUME NEW d \in DelayIds, Unregister(d)
      PROVE  TypeOK'
  BY <1>2, ClientTypes DEF Unregister
<1>3. ASSUME NEW d \in DelayIds, NEW id \in 0..MaxRequests, Readiness(d, id)
      PROVE  TypeOK'
  BY <1>3, ClientTypes DEF Readiness
<1>4. ASSUME NEW client \in Clients, Disconnect(client)
      PROVE  TypeOK'
  BY <1>4, ClientTypes DEF Disconnect
<1>5. ASSUME NEW delay \in InternalDelays, AddInternal(delay) \/ RemoveInternal(delay)
      PROVE  TypeOK'
  BY <1>5, InternalDelayTypes DEF AddInternal, RemoveInternal
<1>6. ASSUME Prepare
      PROVE  TypeOK'
  <2>1. c.suspendId + 1 \in Nat
    BY DEF Controller
  <2> QED
    BY <1>6, <2>1, PrepareType, HarnessAssumption DEF Prepare
<1>7. ASSUME NEW id \in 0..MaxRequests, Finish(id)
      PROVE  TypeOK'
  BY <1>7, FinishType DEF Finish
<1>8. CASE MaxDelayExpires
  BY <1>8, CallbackTypes DEF MaxDelayExpires
<1>9. CASE MinDelayExpires
  BY <1>9, CallbackTypes DEF MinDelayExpires
<1>10. CASE Notify
  BY <1>10, CallbackTypes DEF Notify
<1>11. CASE Tick
  BY <1>11, PassTimeType DEF Tick
<1>12. CASE UNCHANGED vars
  BY <1>12 DEF vars
<1> QED
  BY <1>1, <1>2, <1>3, <1>4, <1>5, <1>6, <1>7, <1>8, <1>9, <1>10, <1>11, <1>12
     DEF Next, ClientStep, PowerdStep, LoopStep

\* A new controller and the harness around it have their types.
LEMMA TypeInit == Init => TypeOK
<1>1. NewController(1) \in Controller
  <2>1. [d \in {} |-> 0] \in DelayMaps
    BY DEF DelayMaps
  <2> QED
    BY <2>1 DEF NewController, Controller
<1>2. 0 \in Nat
  OBVIOUS
<1> QED
  BY <1>1, <1>2, Zenon DEF Init, TypeOK

\* The controller and the harness keep their types.
THEOREM TypeCorrect == Spec => []TypeOK
BY TypeInit, TypeStep, PTL DEF Spec

-----------------------------------------------------------------------------
(***************************************************************************)
(* The inductive step.                                                     *)
(***************************************************************************)

Core == ReadinessInv /\ TimersInv /\ PendingInv /\ DeadlineInv

\* A call that reports readiness or leaves less to wait for keeps the
\* invariant: the case of most methods.
LEMMA ReducingStep ==
    ASSUME TypeOK, Core, c' \in Controller,
           Reported(c, c') \/ Reduced(c, c'),
           UNCHANGED <<dark, open, delivered, elapsed>>
    PROVE  Core'
<1> USE DEF TypeOK, Core, Running, Off
<1>1. c \in Controller /\ c.suspendId \in Nat
  BY DEF Controller
<1>2. CASE Reported(c, c')
  BY <1>1, <1>2 DEF Reported, ReadinessInv, TimersInv, PendingInv, DeadlineInv
<1>3. CASE Reduced(c, c')
  BY <1>1, <1>3 DEF Reduced, ReadinessInv, TimersInv, PendingInv, DeadlineInv
<1> QED
  BY <1>2, <1>3

\* Clients' calls and departures.
LEMMA ClientCore == TypeOK /\ TypeOK' /\ Core /\ ClientStep => Core'
<1> SUFFICES ASSUME TypeOK, TypeOK', Core, ClientStep PROVE Core'
  OBVIOUS
<1> USE DEF TypeOK
<1>0. Reduced(c, c)
  BY DEF Reduced
<1>1. ASSUME NEW timeout \in Timeouts, NEW client \in Clients, Register(timeout, client)
      PROVE  Core'
  <2>1. Reduced(c, c')
    BY <1>1 DEF Register, RegisterSuspendDelay, Reduced, Controller
  <2> QED
    BY <1>1, <2>1, ReducingStep DEF Register
<1>2. ASSUME NEW d \in DelayIds, Unregister(d)
      PROVE  Core'
  BY <1>0, <1>2, UnregisterEffect, ReducingStep DEF Unregister, UnregisterSuspendDelay
<1>3. ASSUME NEW d \in DelayIds, NEW id \in 0..MaxRequests, Readiness(d, id)
      PROVE  Core'
  BY <1>0, <1>3, RemoveEffect, ReducingStep DEF Readiness, HandleSuspendReadiness
<1>4. ASSUME NEW client \in Clients, Disconnect(client)
      PROVE  Core'
  BY <1>4, UnregisterEffect, ReducingStep DEF Disconnect, HandleDBusClientDisconnected
<1> QED
  BY <1>1, <1>2, <1>3, <1>4 DEF ClientStep

\* Internal delays.  One that is accepted finds the longer timer running.
LEMMA InternalCore ==
    ASSUME TypeOK, TypeOK', Core, NEW delay \in InternalDelays,
           AddInternal(delay) \/ RemoveInternal(delay)
    PROVE  Core'
<1> USE DEF TypeOK
<1>1. CASE RemoveInternal(delay)
  <2> DEFINE less == [c EXCEPT !.internal = @ \ {delay}]
  <2>1. less \in Controller /\ Reduced(c, less)
    BY DEF Controller, Reduced
  <2>2. c' = NotifyIfReadyForSuspend(less)
    BY <1>1 DEF RemoveInternal, RemoveSuspendInternalDelay
  <2> HIDE DEF less
  <2>3. Reported(c, c') \/ Reduced(c, c')
    BY <2>1, <2>2, NotifyIfReadyEffect DEF Reported, Reduced
  <2> QED
    BY <1>1, <2>3, ReducingStep DEF RemoveInternal
<1>2. CASE AddInternal(delay) /\ c.notified
  <2>1. Reduced(c, c')
    BY <1>2 DEF AddInternal, AddSuspendInternalDelay, AcceptsInternalDelay, Reduced
  <2> QED
    BY <1>2, <2>1, ReducingStep DEF AddInternal
<1>3. CASE AddInternal(delay) /\ ~c.notified
  <2>1. /\ c'.suspendId = c.suspendId /\ c'.notify = c.notify
        /\ c'.maxTimer = c.maxTimer /\ c'.minTimer = c.minTimer
        /\ UNCHANGED <<dark, open, delivered, elapsed>>
        /\ open => ~dark
    BY <1>3 DEF AddInternal, AddSuspendInternalDelay, AcceptsInternalDelay, Controller
  <2>2. open => c.notify # c.suspendId /\ ~delivered /\ Running(c.maxTimer)
    BY <1>3, <2>1 DEF Core, ReadinessInv, TimersInv, PendingInv, Running
  <2> QED
    BY <2>1, <2>2 DEF Core, ReadinessInv, TimersInv, PendingInv, DeadlineInv, Running
<1> QED
  BY <1>1, <1>2, <1>3

\* Announcing a request: a timer is started or readiness is posted, under an
\* id that no earlier notification carries.
LEMMA PrepareCore == TypeOK /\ Core /\ Prepare => Core'
<1> SUFFICES ASSUME TypeOK, Core, Prepare PROVE Core'
  OBVIOUS
<1> USE DEF TypeOK
<1> DEFINE waits == Registered(c) # {} \/ c.internal # {}
           id == c.suspendId + 1
<1>1. /\ c'.suspendId = id
      /\ c'.waiting = Registered(c) /\ c'.internal = c.internal
      /\ c'.minTimer = IF dark THEN DarkResumeMinDelay ELSE c.minTimer
      /\ c'.maxTimer = IF waits THEN MaxTimeout(c) ELSE c.maxTimer
      /\ c'.notify = IF ~dark /\ ~waits THEN id ELSE c.notify
      /\ ~dark /\ ~waits => c'.notified = TRUE
  BY DEF Prepare, PrepareForSuspend, PostNotifyObserversTask, Controller
<1>2. open' = TRUE /\ delivered' = FALSE /\ elapsed' = 0 /\ dark' = dark
  BY DEF Prepare
<1>3. MaxTimeout(c) \in 0..MaxDelayTimeout
  BY MaxTimeoutType
<1>4. /\ c.suspendId \in Nat /\ c.notify \in Int
      /\ c.maxTimer \in {Off} \cup 0..MaxDelayTimeout
  BY DEF Controller, NoTask
<1>5. c.notify < id
  BY <1>4 DEF Core, ReadinessInv
<1> HIDE DEF waits
<1>6. ReadinessInv'
  BY <1>1, <1>2, <1>4, <1>5 DEF ReadinessInv, waits
<1>7. TimersInv'
  BY <1>1, <1>2 DEF Core, TimersInv
<1>8. PendingInv'
  BY <1>1, <1>3, DelayAssumption DEF PendingInv, Running, Off, waits
<1>9. DeadlineInv'
  <2>1. Running(c'.maxTimer) => 0 + c'.maxTimer <= MaxDelayTimeout
    BY <1>1, <1>3, <1>4, DelayAssumption DEF Running, Off
  <2>2. Running(c'.minTimer) => 0 + c'.minTimer <= MaxDelayTimeout
    BY <1>1, DelayAssumption DEF Core, TimersInv, Running, Off
  <2> QED
    BY <1>2, <2>1, <2>2, DelayAssumption DEF DeadlineInv
<1> QED
  BY <1>6, <1>7, <1>8, <1>9 DEF Core

\* Finishing a request stops both timers; another id changes nothing.
LEMMA FinishCore == ASSUME TypeOK, Core, NEW id, Finish(id) PROVE Core'
<1> USE DEF TypeOK
<1>1. CASE id = c.suspendId
  <2>1. /\ c'.maxTimer = Off /\ c'.minTimer = Off
        /\ c'.notify = c.notify /\ c'.suspendId = c.suspendId
        /\ open' = FALSE /\ dark' = dark
    BY <1>1 DEF Finish, FinishSuspend, Controller
  <2> QED
    BY <2>1 DEF Core, ReadinessInv, TimersInv, PendingInv, DeadlineInv
<1>2. CASE id # c.suspendId
  <2>1. c' = c /\ open' = open /\ dark' = dark
    BY <1>2 DEF Finish, FinishSuspend
  <2>2. CASE open
    <3>1. delivered' = delivered /\ elapsed' = elapsed
      BY <2>1, <2>2 DEF Finish
    <3> QED
      BY <2>1, <3>1 DEF Core, ReadinessInv, TimersInv, PendingInv, DeadlineInv
  <2>3. CASE ~open
    BY <2>1, <2>3 DEF Core, ReadinessInv, TimersInv, PendingInv, DeadlineInv
  <2> QED
    BY <2>2, <2>3
<1> QED
  BY <1>1, <1>2

\* The message loop: the callbacks of the timers, the posted task, time.
LEMMA LoopCore == TypeOK /\ TypeOK' /\ Core /\ LoopStep => Core'
<1> SUFFICES ASSUME TypeOK, TypeOK', Core, LoopStep PROVE Core'
  OBVIOUS
<1> USE DEF TypeOK
<1>1. CASE MaxDelayExpires
  <2>1. Reported(c, c')
    BY <1>1 DEF MaxDelayExpires, OnMaxDelayExpiration, PostNotifyObserversTask, Reported,
                Controller
  <2> QED
    BY <1>1, <2>1, ReducingStep DEF MaxDelayExpires
<1>2. CASE MinDelayExpires
  <2>1. UNCHANGED <<dark, open, delivered, elapsed>> /\ c.suspendId \in Nat
    BY <1>2 DEF MinDelayExpires, Controller
  <2>2. CASE c.waiting = {} /\ c.internal = {}
    <3>1. /\ c'.suspendId = c.suspendId /\ c'.notify = c.suspendId /\ c'.notified = TRUE
          /\ c'.waiting = {} /\ c'.internal = {}
          /\ c'.maxTimer = Off /\ c'.minTimer = Off
      BY <1>2, <2>2 DEF MinDelayExpires, OnMinDelayExpiration, PostNotifyObserversTask,
                        Controller
    <3> QED
      BY <2>1, <3>1 DEF Core, ReadinessInv, TimersInv, PendingInv, DeadlineInv, Running
  <2>3. CASE ~(c.waiting = {} /\ c.internal = {})
    <3>1. /\ c'.suspendId = c.suspendId /\ c'.notify = c.notify /\ c'.notified = c.notified
          /\ c'.waiting = c.waiting /\ c'.internal = c.internal
          /\ c'.maxTimer = c.maxTimer /\ c'.minTimer = Off
      BY <1>2, <2>3 DEF MinDelayExpires, OnMinDelayExpiration, Controller
    <3> QED
      BY <2>1, <2>3, <3>1 DEF Core, ReadinessInv, TimersInv, PendingInv, DeadlineInv, Running
  <2> QED
    BY <2>2, <2>3
<1>3. CASE Notify
  <2>1. /\ c'.suspendId = c.suspendId /\ c'.notify = NoTask /\ c'.notified = c.notified
        /\ c'.waiting = c.waiting /\ c'.internal = c.internal
        /\ c'.maxTimer = c.maxTimer /\ c'.minTimer = c.minTimer
        /\ UNCHANGED <<dark, open, elapsed>>
        /\ c.suspendId \in Nat
    BY <1>3 DEF Notify, NotifyObservers, Controller
  <2>2. delivered' = (delivered \/ (open /\ c.notify = c.suspendId))
    BY <1>3 DEF Notify
  <2> QED
    BY <2>1, <2>2 DEF Core, ReadinessInv, TimersInv, PendingInv, DeadlineInv, Running, NoTask
<1>4. CASE Tick
  <2>1. /\ c'.suspendId = c.suspendId /\ c'.notify = c.notify /\ c'.notified = c.notified
        /\ c'.waiting = c.waiting /\ c'.internal = c.internal
        /\ c'.maxTimer = Advance(c.maxTimer, 1) /\ c'.minTimer = Advance(c.minTimer, 1)
        /\ UNCHANGED <<dark, open, delivered>>
    BY <1>4 DEF Tick, PassTime, Controller
  <2>2. /\ c.maxTimer # 0 /\ c.minTimer # 0
        /\ Running(c.maxTimer) \/ Running(c.minTimer)
        /\ elapsed' = IF open /\ ~delivered THEN elapsed + 1 ELSE elapsed
    BY <1>4 DEF Tick, NothingDue
  <2>3. /\ c.maxTimer \in {Off} \cup 0..MaxDelayTimeout
        /\ c.minTimer \in {Off} \cup 0..DarkResumeMinDelay
    BY DEF Controller
  <2>4. /\ c'.maxTimer = IF Running(c.maxTimer) THEN c.maxTimer - 1 ELSE Off
        /\ c'.minTimer = IF Running(c.minTimer) THEN c.minTimer - 1 ELSE Off
        /\ Running(c'.maxTimer) <=> Running(c.maxTimer)
        /\ Running(c'.minTimer) <=> Running(c.minTimer)
    BY <2>1, <2>2, <2>3, DelayAssumption DEF Advance, Running, Off
  <2>5. ReadinessInv' /\ TimersInv' /\ PendingInv'
    BY <2>1, <2>4 DEF Core, ReadinessInv, TimersInv, PendingInv, Running
  <2>6. DeadlineInv'
    BY <2>1, <2>2, <2>3, <2>4, DelayAssumption DEF Core, DeadlineInv, Running, Off
  <2> QED
    BY <2>5, <2>6 DEF Core
<1> QED
  BY <1>1, <1>2, <1>3, <1>4 DEF LoopStep

\* Whoever leaves registered_delays_ leaves the wait list with it.
LEMMA WaitedStep == TypeOK /\ WaitedAreRegistered /\ [Next]_vars => WaitedAreRegistered'
<1> SUFFICES ASSUME TypeOK, WaitedAreRegistered, [Next]_vars PROVE WaitedAreRegistered'
  OBVIOUS
<1> USE DEF TypeOK, WaitedAreRegistered
<1>1. ASSUME NEW timeout \in Timeouts, NEW client \in Clients, Register(timeout, client)
      PROVE  WaitedAreRegistered'
  <2>1. c'.waiting = c.waiting /\ Registered(c') = Registered(c) \cup {c.nextId}
    BY <1>1 DEF Register, RegisterSuspendDelay, Registered, Controller
  <2> QED
    BY <2>1
<1>2. ASSUME NEW d \in DelayIds, Unregister(d)
      PROVE  WaitedAreRegistered'
  BY <1>2, UnregisterEffect DEF Unregister, UnregisterSuspendDelay
<1>3. ASSUME NEW d \in DelayIds, NEW id \in 0..MaxRequests, Readiness(d, id)
      PROVE  WaitedAreRegistered'
  BY <1>3, RemoveEffect DEF Readiness, HandleSuspendReadiness, Registered
<1>4. ASSUME NEW client \in Clients, Disconnect(client)
      PROVE  WaitedAreRegistered'
  BY <1>4, UnregisterEffect DEF Disconnect, HandleDBusClientDisconnected
<1>5. ASSUME NEW delay \in InternalDelays, AddInternal(delay)
      PROVE  WaitedAreRegistered'
  BY <1>5 DEF AddInternal, AddSuspendInternalDelay, Registered, Controller
<1>6. ASSUME NEW delay \in InternalDelays, RemoveInternal(delay)
      PROVE  WaitedAreRegistered'
  <2> DEFINE less == [c EXCEPT !.internal = @ \ {delay}]
  <2>1. less \in Controller /\ less.waiting = c.waiting /\ less.registered = c.registered
    BY DEF Controller
  <2>2. c' = NotifyIfReadyForSuspend(less)
    BY <1>6 DEF RemoveInternal, RemoveSuspendInternalDelay
  <2> HIDE DEF less
  <2> QED
    BY <2>1, <2>2, NotifyIfReadyEffect DEF Registered
<1>7. CASE Prepare
  BY <1>7 DEF Prepare, PrepareForSuspend, PostNotifyObserversTask, Registered, Controller
<1>8. ASSUME NEW id \in 0..MaxRequests, Finish(id)
      PROVE  WaitedAreRegistered'
  BY <1>8 DEF Finish, FinishSuspend, Registered, Controller
<1>9. CASE LoopStep
  <2>1. c'.registered = c.registered /\ c'.waiting \in {c.waiting, {}}
    BY <1>9 DEF LoopStep, MaxDelayExpires, MinDelayExpires, Notify, Tick,
                OnMaxDelayExpiration, OnMinDelayExpiration, NotifyObservers, PassTime,
                PostNotifyObserversTask, Controller
  <2> QED
    BY <2>1 DEF Registered
<1>10. CASE UNCHANGED vars
  BY <1>10 DEF vars
<1> QED
  BY <1>1, <1>2, <1>3, <1>4, <1>5, <1>6, <1>7, <1>8, <1>9, <1>10
     DEF Next, ClientStep, PowerdStep

\* The inductive invariant holds for a new controller.
LEMMA InitIInv == Init => IInv
<1>1. NewController(1).waiting = {} /\ NewController(1).maxTimer = Off
      /\ NewController(1).minTimer = Off /\ NewController(1).notify = NoTask
      /\ NewController(1).suspendId = 0
  BY DEF NewController
<1> QED
  BY <1>1, TypeInit DEF Init, IInv, WaitedAreRegistered, ReadinessInv, TimersInv, PendingInv,
                        DeadlineInv, NoTask

\* Every step of a client, of powerd or of the loop keeps the inductive invariant.
LEMMA NextIInv == IInv /\ [Next]_vars => IInv'
<1> SUFFICES ASSUME IInv, [Next]_vars PROVE IInv'
  OBVIOUS
<1>1. TypeOK /\ WaitedAreRegistered /\ Core
  BY DEF IInv, Core
<1>2. TypeOK' /\ WaitedAreRegistered'
  BY <1>1, TypeStep, WaitedStep
<1>3. Core'
  <2>1. CASE ClientStep
    BY <1>1, <1>2, <2>1, ClientCore
  <2>2. CASE PowerdStep
    BY <1>1, <1>2, <2>2, InternalCore, PrepareCore, FinishCore DEF PowerdStep
  <2>3. CASE LoopStep
    BY <1>1, <1>2, <2>3, LoopCore
  <2>4. CASE UNCHANGED vars
    BY <1>1, <2>4 DEF vars, Core, ReadinessInv, TimersInv, PendingInv, DeadlineInv
  <2> QED
    BY <2>1, <2>2, <2>3, <2>4 DEF Next
<1> QED
  BY <1>2, <1>3 DEF IInv, Core

\* The inductive invariant holds in every reachable state.
THEOREM Inductive == Spec => []IInv
BY InitIInv, NextIInv, PTL DEF Spec

\* OnMaxDelayExpiration() never finds a delay it waits for unregistered.
THEOREM WaitedAreAlwaysRegistered == Spec => []WaitedAreRegistered
<1>1. IInv => WaitedAreRegistered
  BY DEF IInv
<1> QED
  BY <1>1, Inductive, PTL

\* An announced request always has a timer or a posted task to report it.
THEOREM NeverStuckHolds == Spec => []NeverStuck
<1>1. IInv => NeverStuck
  BY DEF IInv, PendingInv, NeverStuck
<1> QED
  BY <1>1, Inductive, PTL

\* When readiness is reported, nothing is waited for.
THEOREM ReadyIsReadyHolds == Spec => []ReadyIsReady
<1>1. IInv => ReadyIsReady
  BY DEF IInv, ReadinessInv, ReadyIsReady
<1> QED
  BY <1>1, Inductive, PTL

\* Nobody holds up a request for longer than max_delay_timeout_.
THEOREM BoundedWaitHolds == Spec => []BoundedWait
<1>1. IInv => BoundedWait
  BY DEF IInv, DeadlineInv, BoundedWait
<1> QED
  BY <1>1, Inductive, PTL

=============================================================================
