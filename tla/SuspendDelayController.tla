----------------------- MODULE SuspendDelayController -----------------------
(***************************************************************************)
(* power_manager/powerd/policy/suspend_delay_controller.{h,cc}: the object *)
(* that tells powerd when every process that asked to delay a suspend is   *)
(* ready for it.                                                           *)
(*                                                                         *)
(* A controller is a record; each method of the class is an operator that  *)
(* maps the controller before the call to the controller after it, so that *)
(* a module with several controllers (Suspender has a normal and a dark    *)
(* one) composes calls the way the code does.                              *)
(*                                                                         *)
(* Time is the time of powerd's message loop, in ticks.  A OneShotTimer is *)
(* the number of ticks left, or Off.  A task posted with delay zero is due *)
(* at once and is run before time advances.  device_key_evicted_ is never  *)
(* assigned in the code, so every registered delay is applicable.          *)
(*                                                                         *)
(* An operator named Mutant... is a plausible mistake in the definition    *)
(* that follows it; only the mutation runs of PROJECT.json use it.         *)
(***************************************************************************)
EXTENDS Integers, FiniteSets

CONSTANTS
    DelayIds,           \* the ids next_delay_id_ may hand out
    Clients,            \* D-Bus connections that may register delays
    InternalDelays,     \* SuspendInternalDelay objects inside powerd
    MaxDelayTimeout,    \* max_delay_timeout_, 20 s
    DarkResumeMinDelay  \* dark_resume_min_delay_, 10 s

\* DCHECK_LT(dark_resume_min_delay_, max_delay_timeout_) in the constructor.
ASSUME DelayAssumption ==
    /\ DelayIds \subseteq Nat
    /\ MaxDelayTimeout \in Nat
    /\ DarkResumeMinDelay \in Nat
    /\ DarkResumeMinDelay < MaxDelayTimeout

\* A OneShotTimer that is not running.
Off == -1

\* notify_observers_timer_ when no NotifyObservers() call is posted.
NoTask == -1

Running(timer) == timer # Off

\* What is left on a timer when n ticks pass; an overdue timer stays due.
Advance(timer, n) ==
    IF timer = Off THEN Off ELSE IF timer > n THEN timer - n ELSE 0

\* struct DelayInfo; the description is only logged.
DelayInfo == [timeout : 0..MaxDelayTimeout, client : Clients]

\* The maps from delay ids to delays.
DelayMaps == UNION {[S -> DelayInfo] : S \in SUBSET DelayIds}

\* The members of a controller.
Controller ==
    [ registered : DelayMaps,       \* registered_delays_
      nextId     : Nat,             \* next_delay_id_
      suspendId  : Nat,             \* current_suspend_id_
      waiting    : SUBSET DelayIds, \* delay_ids_being_waited_on_
      internal   : SUBSET InternalDelays,           \* internal_delays_
      maxTimer   : {Off} \cup 0..MaxDelayTimeout,   \* max_delay_expiration_timer_
      minTimer   : {Off} \cup 0..DarkResumeMinDelay,
                                    \* min_delay_expiration_timer_
      notify     : {NoTask} \cup Nat,
                                    \* argument of the posted NotifyObservers()
      notified   : BOOLEAN ]        \* suspend_readiness_notified_

\* The constructor.
NewController(initialDelayId) ==
    [ registered |-> [d \in {} |-> 0],
      nextId     |-> initialDelayId,
      suspendId  |-> 0,
      waiting    |-> {},
      internal   |-> {},
      maxTimer   |-> Off,
      minTimer   |-> Off,
      notify     |-> NoTask,
      notified   |-> FALSE ]

Registered(c) == DOMAIN c.registered

ReadyForSuspend(c) ==
    c.waiting = {} /\ c.internal = {} /\ ~Running(c.minTimer)

MutantPostNotifyObserversTask(c) == [c EXCEPT !.notified = TRUE]

\* Starting the one notify timer again replaces the task that was posted.
PostNotifyObserversTask(c) ==
    [c EXCEPT !.notify = c.suspendId, !.notified = TRUE]

NotifyIfReadyForSuspend(c) ==
    IF ReadyForSuspend(c)
    THEN PostNotifyObserversTask([c EXCEPT !.maxTimer = Off])
    ELSE c

MutantRemoveDelaysFromWaitList(c, delays) ==
    IF delays \cap c.waiting = {}
    THEN c
    ELSE NotifyIfReadyForSuspend(
            [c EXCEPT !.waiting = @ \ delays, !.maxTimer = MaxDelayTimeout])

\* RemoveDelayFromWaitList() for each delay of a set.  Of several delays that
\* are removed one after the other only the last can leave the list empty, so
\* the loop in HandleDBusClientDisconnected() posts at most one task.
RemoveDelaysFromWaitList(c, delays) ==
    IF delays \cap c.waiting = {}
    THEN c
    ELSE NotifyIfReadyForSuspend([c EXCEPT !.waiting = @ \ delays])

MutantUnregisterDelaysInternal(c, delays) ==
    [c EXCEPT !.registered = [d \in Registered(c) \ delays |-> c.registered[d]]]

UnregisterDelaysInternal(c, delays) ==
    [RemoveDelaysFromWaitList(c, delays)
        EXCEPT !.registered = [d \in Registered(c) \ delays |-> c.registered[d]]]

(***************************************************************************)
(* The public methods.                                                     *)
(***************************************************************************)

MutantClampTimeout(timeout) == IF timeout < 0 THEN MaxDelayTimeout ELSE timeout

\* A timeout that is negative or too long becomes the longest one.
ClampTimeout(timeout) ==
    IF timeout < 0 \/ timeout > MaxDelayTimeout THEN MaxDelayTimeout ELSE timeout

\* A delay registered while a request is announced is not waited for.
RegisterSuspendDelay(c, timeout, client) ==
    [c EXCEPT
        !.registered = [d \in Registered(c) \cup {c.nextId} |->
                          IF d = c.nextId
                          THEN [timeout |-> ClampTimeout(timeout), client |-> client]
                          ELSE c.registered[d]],
        !.nextId = c.nextId + 1]

UnregisterSuspendDelay(c, d) ==
    IF d \in Registered(c) THEN UnregisterDelaysInternal(c, {d}) ELSE c

HandleSuspendReadiness(c, d, suspendId) ==
    IF suspendId = c.suspendId /\ d \in c.waiting
    THEN RemoveDelaysFromWaitList(c, {d})
    ELSE c

HandleDBusClientDisconnected(c, client) ==
    UnregisterDelaysInternal(
        c, {d \in Registered(c) : c.registered[d].client = client})

MutantAcceptsInternalDelay(c) == ~Running(c.minTimer)

\* The value returned by AddSuspendInternalDelay().
AcceptsInternalDelay(c) == ~c.notified

AddSuspendInternalDelay(c, delay) ==
    IF AcceptsInternalDelay(c) THEN [c EXCEPT !.internal = @ \cup {delay}] ELSE c

RemoveSuspendInternalDelay(c, delay) ==
    NotifyIfReadyForSuspend([c EXCEPT !.internal = @ \ {delay}])

\* The longest timeout of the registered delays, 0 if there is none.
MaxTimeout(c) ==
    CHOOSE m \in 0..MaxDelayTimeout :
        /\ \A d \in Registered(c) : c.registered[d].timeout <= m
        /\ m = 0 \/ \E d \in Registered(c) : c.registered[d].timeout = m

PrepareForSuspend(c, suspendId, inDarkResume) ==
    LET waiting  == Registered(c)
        waits    == waiting # {} \/ c.internal # {}
        prepared == [c EXCEPT
                       !.suspendId = suspendId,
                       !.waiting   = waiting,
                       !.minTimer  = IF inDarkResume THEN DarkResumeMinDelay ELSE @,
                       !.maxTimer  = IF waits THEN MaxTimeout(c) ELSE @]
    IN  IF ~inDarkResume /\ ~waits
        THEN PostNotifyObserversTask(prepared)
        ELSE prepared

\* A posted NotifyObservers() call is not withdrawn.
FinishSuspend(c, suspendId) ==
    IF suspendId = c.suspendId
    THEN [c EXCEPT !.maxTimer = Off, !.minTimer = Off, !.waiting = {},
                   !.internal = {}, !.notified = FALSE]
    ELSE c

(***************************************************************************)
(* The timers' callbacks.  A OneShotTimer is stopped when it fires.        *)
(***************************************************************************)

OnMaxDelayExpiration(c) ==
    PostNotifyObserversTask(
        [c EXCEPT !.maxTimer = Off, !.waiting = {}, !.internal = {}])

MutantOnMinDelayExpiration(c) == [c EXCEPT !.minTimer = Off]

OnMinDelayExpiration(c) ==
    IF c.waiting = {} /\ c.internal = {}
    THEN PostNotifyObserversTask([c EXCEPT !.minTimer = Off, !.maxTimer = Off])
    ELSE [c EXCEPT !.minTimer = Off]

\* NotifyObservers() calls OnReadyForSuspend(c.notify) on the observers, which
\* is up to the module that owns the controller.
NotifyObservers(c) == [c EXCEPT !.notify = NoTask]

\* Nothing is due: time may pass.
NothingDue(c) == c.maxTimer # 0 /\ c.minTimer # 0 /\ c.notify = NoTask

PassTime(c, n) ==
    [c EXCEPT !.maxTimer = Advance(@, n), !.minTimer = Advance(@, n)]

=============================================================================
