--------------------------- MODULE SuspenderProofs ---------------------------
(***************************************************************************)
(* Proofs about Suspender for any delays, clients, timeouts, retry limits, *)
(* policies and numbers of requests, dark resumes and crashes.             *)
(***************************************************************************)
EXTENDS Suspender, SuspendDelayControllerProofs

-----------------------------------------------------------------------------
(***************************************************************************)
(* What the operators of ChargeLimit do to the two delay controllers.      *)
(***************************************************************************)

\* Neither controller has reported readiness, so that an internal delay is taken.
Accepting(ds) == ~ds.normal.notified /\ ~ds.dark.notified

\* Controller k of ds has become r: readiness was reported, or there is no more to
\* wait for than before, except for internal delays if they were still accepted.
Moved(k, r, ds) ==
    \/ Reported(k, r)
    \/ /\ r.suspendId = k.suspendId
       /\ r.waiting \subseteq k.waiting
       /\ r.internal \subseteq k.internal \/ Accepting(ds)
       /\ r.maxTimer = k.maxTimer /\ r.minTimer = k.minTimer
       /\ r.notify = k.notify /\ r.notified = k.notified

BothMoved(ds, es) ==
    /\ es \in Delays
    /\ Moved(ds.normal, es.normal, ds)
    /\ Moved(ds.dark, es.dark, ds)

\* Both members of a pair of delay controllers are controllers.
LEMMA DelaysAre ==
    ASSUME NEW ds \in Delays
    PROVE  ds.normal \in Controller /\ ds.dark \in Controller
BY DEF Delays

\* Two controllers make a pair.
LEMMA DelaysOf ==
    ASSUME NEW n \in Controller, NEW d \in Controller
    PROVE  [normal |-> n, dark |-> d] \in Delays
BY DEF Delays

\* Leaving both controllers alone is one of the permitted moves.
LEMMA NotMoved ==
    ASSUME NEW ds \in Delays PROVE BothMoved(ds, ds)
BY DEF BothMoved, Moved

\* Calls follow one another.
LEMMA MovedTwice ==
    ASSUME NEW ds \in Delays, NEW es \in Delays, NEW fs \in Delays,
           BothMoved(ds, es), BothMoved(es, fs)
    PROVE  BothMoved(ds, fs)
<1>1. /\ ds.normal \in Controller /\ ds.dark \in Controller
      /\ es.normal \in Controller /\ es.dark \in Controller
    BY DelaysAre
<1>2. ds.normal.notified => es.normal.notified
    BY <1>1 DEF BothMoved, Moved, Reported
<1>3. ds.dark.notified => es.dark.notified
    BY <1>1 DEF BothMoved, Moved, Reported
<1>4. Accepting(es) => Accepting(ds)
    BY <1>2, <1>3 DEF Accepting
<1>5. ASSUME NEW k, NEW l \in {es.normal, es.dark}, NEW m, Moved(k, l, ds), Moved(l, m, es)
      PROVE  Moved(k, m, ds)
    <2>1. CASE Reported(l, m)
        BY <1>5, <2>1 DEF Moved, Reported
    <2>2. CASE ~Reported(l, m) /\ Reported(k, l)
        <3>1. ~Accepting(es)
            BY <2>2 DEF Reported, Accepting
        <3> QED BY <1>5, <2>2, <3>1 DEF Moved, Reported
    <2>3. CASE ~Reported(l, m) /\ ~Reported(k, l)
        BY <1>4, <1>5, <2>3 DEF Moved
    <2> QED BY <2>1, <2>2, <2>3
<1> QED BY <1>5 DEF BothMoved

\* RemoveSuspendInternalDelay() reports readiness or leaves less to wait for.
LEMMA RemoveInternalEffect ==
    ASSUME NEW k \in Controller, NEW delay \in InternalDelays
    PROVE  LET r == RemoveSuspendInternalDelay(k, delay)
           IN  r \in Controller /\ (Reported(k, r) \/ Reduced(k, r))
<1> DEFINE less == [k EXCEPT !.internal = @ \ {delay}]
<1>1. less \in Controller /\ Reduced(k, less)
    BY DEF Controller, Reduced
<1>2. RemoveSuspendInternalDelay(k, delay) = NotifyIfReadyForSuspend(less)
    BY DEF RemoveSuspendInternalDelay
<1> HIDE DEF less
<1>3. \A r : Reported(less, r) \/ Reduced(less, r) => Reported(k, r) \/ Reduced(k, r)
    BY <1>1 DEF Reported, Reduced
<1> QED BY <1>1, <1>2, <1>3, NotifyIfReadyEffect, InternalDelayTypes

\* Before readiness is reported, AddSuspendInternalDelay() adds the delay and nothing else.
LEMMA AddInternalEffect ==
    ASSUME NEW k \in Controller, NEW delay \in InternalDelays, ~k.notified
    PROVE  LET r == AddSuspendInternalDelay(k, delay)
           IN  /\ r \in Controller
               /\ r.suspendId = k.suspendId /\ r.waiting = k.waiting
               /\ r.internal = k.internal \cup {delay}
               /\ r.maxTimer = k.maxTimer /\ r.minTimer = k.minTimer
               /\ r.notify = k.notify /\ r.notified = k.notified
BY InternalDelayTypes DEF AddSuspendInternalDelay, AcceptsInternalDelay, Controller

\* A controller that reported, or waits for less, has moved as Charge Limit may move it.
LEMMA EasedIsMoved ==
    ASSUME NEW k, NEW r, NEW a, Reported(k, r) \/ Reduced(k, r)
    PROVE  Moved(k, r, a)
BY DEF Moved, Reduced

\* Suspender::RemoveSuspendInternalDelay() moves both controllers that way.
LEMMA RemoveFromBoth ==
    ASSUME NEW ds \in Delays, NEW delay \in InternalDelays
    PROVE  BothMoved(ds, SuspenderRemoveInternalDelay(ds, delay))
<1>1. ds.normal \in Controller /\ ds.dark \in Controller
    BY DelaysAre
<1> DEFINE n == RemoveSuspendInternalDelay(ds.normal, delay)
           d == RemoveSuspendInternalDelay(ds.dark, delay)
<1>2. /\ n \in Controller /\ (Reported(ds.normal, n) \/ Reduced(ds.normal, n))
      /\ d \in Controller /\ (Reported(ds.dark, d) \/ Reduced(ds.dark, d))
    BY <1>1, RemoveInternalEffect
<1>3. SuspenderRemoveInternalDelay(ds, delay) = [normal |-> n, dark |-> d]
    BY DEF SuspenderRemoveInternalDelay
<1> HIDE DEF n, d
<1> QED BY <1>2, <1>3, EasedIsMoved, DelaysOf DEF BothMoved

\* Both controllers take the delay, or the normal one gives it back.
LEMMA AddToBoth ==
    ASSUME NEW ds \in Delays, NEW delay \in InternalDelays
    PROVE  BothMoved(ds, SuspenderAddInternalDelay(ds, delay))
<1>1. ds.normal \in Controller /\ ds.dark \in Controller
    BY DelaysAre
<1> DEFINE n == AddSuspendInternalDelay(ds.normal, delay)
           d == AddSuspendInternalDelay(ds.dark, delay)
           back == RemoveSuspendInternalDelay(n, delay)
<1>2. CASE ds.normal.notified
    BY <1>2, NotMoved DEF SuspenderAddInternalDelay, AcceptsInternalDelay
<1>3. CASE ~ds.normal.notified /\ ds.dark.notified
    <2>1. n = [ds.normal EXCEPT !.internal = @ \cup {delay}]
        BY <1>3 DEF AddSuspendInternalDelay, AcceptsInternalDelay
    <2>2. n \in Controller
        BY <1>1, InternalDelayTypes
    <2> DEFINE less == [n EXCEPT !.internal = @ \ {delay}]
    <2>3. less \in Controller /\ Reduced(ds.normal, less)
        BY <1>1, <2>1 DEF Controller, Reduced
    <2>4. back = NotifyIfReadyForSuspend(less)
        BY DEF RemoveSuspendInternalDelay
    <2> HIDE DEF less
    <2>5. \A r : Reported(less, r) \/ Reduced(less, r) =>
                     Reported(ds.normal, r) \/ Reduced(ds.normal, r)
        BY <2>3 DEF Reported, Reduced
    <2>6. back \in Controller /\ (Reported(ds.normal, back) \/ Reduced(ds.normal, back))
        BY <2>3, <2>4, <2>5, NotifyIfReadyEffect, NotifyIfReadyType
    <2>7. SuspenderAddInternalDelay(ds, delay) = [ds EXCEPT !.normal = back]
        BY <1>3 DEF SuspenderAddInternalDelay, AcceptsInternalDelay
    <2> HIDE DEF back
    <2>8. [ds EXCEPT !.normal = back] = [normal |-> back, dark |-> ds.dark]
        BY DEF Delays
    <2>9. Reduced(ds.dark, ds.dark)
        BY DEF Reduced
    <2> QED BY <1>1, <2>6, <2>7, <2>8, <2>9, EasedIsMoved, DelaysOf DEF BothMoved
<1>4. CASE ~ds.normal.notified /\ ~ds.dark.notified
    <2>1. SuspenderAddInternalDelay(ds, delay) = [normal |-> n, dark |-> d]
        BY <1>4 DEF SuspenderAddInternalDelay, AcceptsInternalDelay
    <2>2. /\ n \in Controller /\ d \in Controller
          /\ Moved(ds.normal, n, ds) /\ Moved(ds.dark, d, ds)
        BY <1>1, <1>4, AddInternalEffect DEF Moved, Accepting
    <2> HIDE DEF n, d
    <2> QED BY <2>1, <2>2, DelaysOf DEF BothMoved
<1> QED BY <1>2, <1>3, <1>4

-----------------------------------------------------------------------------
(***************************************************************************)
(* The feature's own operations, on both controllers and its state.        *)
(***************************************************************************)

\* The parts of what Charge Limit's methods work on.
LEMMA WorldIs ==
    ASSUME NEW w \in World
    PROVE  w.delays \in Delays /\ w.charge \in ChargeLimitState
BY DEF World

\* What an operation leaves: a world whose controllers have moved.
Carried(w, v) ==
    /\ v.delays \in Delays /\ v.charge \in ChargeLimitState
    /\ BothMoved(w.delays, v.delays)

\* Assignments to the members of the feature.
LEMMA ChargeUpdates ==
    ASSUME NEW g \in ChargeLimitState, NEW b \in BOOLEAN
    PROVE  /\ [g EXCEPT !.enabled = b] \in ChargeLimitState
           /\ [g EXCEPT !.sustain = b] \in ChargeLimitState
           /\ [g EXCEPT !.posted = b] \in ChargeLimitState
           /\ [g EXCEPT !.timer = Off] \in ChargeLimitState
           /\ [g EXCEPT !.enabled = FALSE, !.sustain = FALSE] \in ChargeLimitState
           /\ [g EXCEPT !.timer = Off, !.sustain = FALSE] \in ChargeLimitState
           /\ [g EXCEPT !.sustain = TRUE, !.timer = DischargeDelay] \in ChargeLimitState
<1>1. DischargeDelay \in {Off} \cup 0..DischargeDelay
    BY ChargeLimitAssumption
<1>2. [g EXCEPT !.sustain = TRUE, !.timer = DischargeDelay] \in ChargeLimitState
    BY <1>1 DEF ChargeLimitState
<1>3. /\ [g EXCEPT !.enabled = b] \in ChargeLimitState
      /\ [g EXCEPT !.sustain = b] \in ChargeLimitState
      /\ [g EXCEPT !.posted = b] \in ChargeLimitState
    BY DEF ChargeLimitState
<1>4. /\ [g EXCEPT !.timer = Off] \in ChargeLimitState
      /\ [g EXCEPT !.enabled = FALSE, !.sustain = FALSE] \in ChargeLimitState
      /\ [g EXCEPT !.timer = Off, !.sustain = FALSE] \in ChargeLimitState
    BY DEF ChargeLimitState
<1> QED BY <1>2, <1>3, <1>4

\* CompleteChargeLimit() removes the internal delay and keeps the types.
LEMMA CompleteEffect ==
    ASSUME NEW w, w.delays \in Delays, w.charge \in ChargeLimitState, NEW ec
    PROVE  Carried(w, CompleteChargeLimit(w, ec))
<1>1. BothMoved(w.delays, SuspenderRemoveInternalDelay(w.delays, ChargeLimitDelay))
    BY RemoveFromBoth, ChargeLimitAssumption
<1>2. CompleteChargeLimit(w, ec).charge \in ChargeLimitState
    BY ChargeUpdates DEF CompleteChargeLimit
<1>3. CompleteChargeLimit(w, ec).delays =
          SuspenderRemoveInternalDelay(w.delays, ChargeLimitDelay)
    BY DEF CompleteChargeLimit
<1> QED BY <1>1, <1>2, <1>3 DEF Carried, BothMoved

\* StartChargeLimit() adds the internal delay only where the controllers accept it.
LEMMA StartEffect ==
    ASSUME NEW w \in World, NEW ec
    PROVE  Carried(w, StartChargeLimit(w, ec))
<1> DEFINE v == StartChargeLimit(w, ec)
           added == SuspenderAddInternalDelay(w.delays, ChargeLimitDelay)
           removed == SuspenderRemoveInternalDelay(added, ChargeLimitDelay)
           on == [w EXCEPT !.charge.sustain = TRUE]
<1>1. w.delays \in Delays /\ w.charge \in ChargeLimitState
    BY WorldIs
<1>2. BothMoved(w.delays, added) /\ added \in Delays
    BY <1>1, AddToBoth, ChargeLimitAssumption DEF BothMoved
<1> HIDE DEF added
<1>3. BothMoved(added, removed) /\ removed \in Delays
    BY <1>2, RemoveFromBoth, ChargeLimitAssumption DEF BothMoved
<1> HIDE DEF removed
<1>4. BothMoved(w.delays, removed)
    BY <1>1, <1>2, <1>3, MovedTwice
<1>5. on.delays = w.delays /\ on.charge = [w.charge EXCEPT !.sustain = TRUE]
    BY DEF World
<1>6. on.charge \in ChargeLimitState
    BY <1>1, <1>5, ChargeUpdates
<1> HIDE DEF on
<1>7. CASE w.charge.sustain
    BY <1>1, <1>7, NotMoved DEF StartChargeLimit, Carried
<1>8. CASE ~w.charge.sustain /\ ec \in {"sustained", "notSustained"}
    <2>1. v = CompleteChargeLimit(on, ec)
        BY <1>8 DEF StartChargeLimit, on
    <2>2. Carried(on, CompleteChargeLimit(on, ec))
        BY <1>1, <1>5, <1>6, CompleteEffect
    <2> QED BY <1>5, <2>1, <2>2 DEF Carried
<1>9. CASE ~w.charge.sustain /\ ec \notin {"sustained", "notSustained"}
           /\ ~InternalDelayAdded(w.delays)
    <2>1. v = [w EXCEPT !.delays = added]
        BY <1>9 DEF StartChargeLimit, added
    <2>2. v.delays = added /\ v.charge = w.charge
        BY <2>1 DEF World
    <2> QED BY <1>1, <1>2, <2>2 DEF Carried
<1>10. CASE ~w.charge.sustain /\ InternalDelayAdded(w.delays) /\ ec = "fullFails"
    <2>1. v.delays = removed /\ v.charge = [w.charge EXCEPT !.enabled = FALSE]
        BY <1>10 DEF StartChargeLimit, added, removed
    <2> QED BY <1>1, <1>3, <1>4, <2>1, ChargeUpdates DEF Carried
<1>11. CASE ~w.charge.sustain /\ InternalDelayAdded(w.delays)
            /\ ec \notin {"sustained", "notSustained", "fullFails"}
    <2>1. v.delays = added
          /\ v.charge = [w.charge EXCEPT !.sustain = TRUE, !.timer = DischargeDelay]
        BY <1>11 DEF StartChargeLimit, added
    <2> QED BY <1>1, <1>2, <2>1, ChargeUpdates DEF Carried
<1> QED BY <1>7, <1>8, <1>9, <1>10, <1>11

\* StopChargeLimit() moves the controllers as permitted, whether or not a discharge was on.
LEMMA StopEffect ==
    ASSUME NEW w \in World
    PROVE  Carried(w, StopChargeLimit(w))
<1>1. w.delays \in Delays /\ w.charge \in ChargeLimitState
    BY WorldIs
<1>2. BothMoved(w.delays, SuspenderRemoveInternalDelay(w.delays, ChargeLimitDelay))
    BY <1>1, RemoveFromBoth, ChargeLimitAssumption
<1>3. /\ StopChargeLimit(w).delays = SuspenderRemoveInternalDelay(w.delays, ChargeLimitDelay)
      /\ StopChargeLimit(w).charge = [w.charge EXCEPT !.timer = Off, !.sustain = FALSE]
    BY DEF StopChargeLimit
<1> QED BY <1>1, <1>2, <1>3, ChargeUpdates DEF Carried, BothMoved

\* So does a policy update, which may start or stop Charge Limit.
LEMMA PolicyEffect ==
    ASSUME NEW w \in World, NEW enable \in BOOLEAN, NEW restart \in BOOLEAN, NEW ec
    PROVE  Carried(w, ChargeHandlePolicyChange(w, enable, restart, ec))
<1> DEFINE switched == [w EXCEPT !.charge.enabled = enable]
           changed == IF w.charge.enabled /\ ~enable THEN StopChargeLimit(switched) ELSE switched
<1>1. w.delays \in Delays /\ w.charge \in ChargeLimitState
    BY WorldIs
<1>2. /\ switched.delays = w.delays /\ switched.charge = [w.charge EXCEPT !.enabled = enable]
      /\ switched = [delays |-> w.delays, charge |-> [w.charge EXCEPT !.enabled = enable]]
    BY DEF World
<1>3. switched \in World
    BY <1>1, <1>2, ChargeUpdates DEF World
<1>4. changed \in {switched, StopChargeLimit(switched)}
    OBVIOUS
<1>5. ChargeHandlePolicyChange(w, enable, restart, ec) \in {changed, StartChargeLimit(changed, ec)}
    BY DEF ChargeHandlePolicyChange
<1> HIDE DEF switched, changed
<1>6. changed \in World /\ BothMoved(w.delays, changed.delays)
    <2>1. CASE changed = switched
        BY <1>1, <1>2, <1>3, <2>1, NotMoved
    <2>2. CASE changed = StopChargeLimit(switched)
        <3>1. Carried(switched, changed)
            BY <1>3, <2>2, StopEffect
        <3>2. changed = [delays |-> changed.delays, charge |-> changed.charge]
            BY <2>2 DEF StopChargeLimit
        <3> QED BY <1>2, <3>1, <3>2 DEF Carried, World
    <2> QED BY <1>4, <2>1, <2>2
<1>7. changed.delays \in Delays /\ changed.charge \in ChargeLimitState
    BY <1>6, WorldIs
<1>8. Carried(changed, StartChargeLimit(changed, ec))
    BY <1>6, StartEffect
<1>9. BothMoved(w.delays, StartChargeLimit(changed, ec).delays)
    BY <1>1, <1>6, <1>7, <1>8, MovedTwice DEF Carried
<1> QED BY <1>5, <1>6, <1>7, <1>8, <1>9 DEF Carried

\* So does Charge Limit's part of a resume.
LEMMA ResumeEffect ==
    ASSUME NEW w \in World, NEW ec
    PROVE  Carried(w, ChargeHandleResume(w, ec))
BY WorldIs, NotMoved, StartEffect DEF ChargeHandleResume, Carried

\* What an attempt does to Charge Limit keeps its type.
LEMMA StopDischargeType ==
    ASSUME NEW g \in ChargeLimitState
    PROVE  ChargeStopDischarge(g) \in ChargeLimitState
BY ChargeUpdates DEF ChargeStopDischarge

-----------------------------------------------------------------------------
(***************************************************************************)
(* The inductive invariant.                                                *)
(***************************************************************************)

Normal == "WAITING_FOR_NORMAL_SUSPEND_DELAYS"
Dark == "WAITING_FOR_DARK_SUSPEND_DELAYS"
Retry == "WAITING_TO_RETRY_SUSPEND"

\* Events that a handler may raise while another event is being handled.
LaterEvents == {"SUSPEND_REQUESTED", "SHUTDOWN_STARTED"}

\* Only these wait behind the event that is being handled, and none of them when
\* that event came from the message loop.
QueueInv ==
    queue # <<>> =>
        /\ Tail(queue) \in Seq(LaterEvents)
        /\ Head(queue) \in LaterEvents \/ Tail(queue) = <<>>

Has(q, event) == \E i \in 1..Len(q) : q[i] = event

\* A shutdown that has begun is known or about to be, and no other is reported.
ShutdownInv ==
    /\ shutdown = "started" => state = "SHUTTING_DOWN" \/ Has(queue, "SHUTDOWN_STARTED")
    /\ Has(queue, "SHUTDOWN_STARTED") => shutdown = "started"

\* A powerd that is down has crashed and has forgotten everything.
DownInv == powerd = "down" => state = "IDLE" /\ queue = <<>> /\ crashes > 0

\* A controller that no request is announced to.
Quiet(k) == k.waiting = {} /\ k.maxTimer = Off /\ k.minTimer = Off

\* The controllers know the ids that Suspender will finish them with, and no
\* notification carries the id of a request that is still to come.
IdsInv ==
    /\ delays.normal.suspendId <= requestId
    /\ delays.normal.notify <= delays.normal.suspendId
    /\ state \in WaitingStates => delays.normal.suspendId = requestId
    /\ Quiet(delays.dark) \/ delays.dark.suspendId = darkId
    /\ state = Dark => delays.dark.suspendId = darkId

\* The normal controller reports readiness only when it waits for nothing, and
\* takes no internal delays from then on.
ReadyInv ==
    /\ /\ state = Normal
       /\ Handling("SUSPEND_DELAYS_READY") \/ delays.normal.notify = requestId
       => /\ delays.normal.notified
          /\ delays.normal.waiting = {} /\ delays.normal.internal = {}
    /\ state \in {Dark, Retry} => delays.normal.notified

\* NoLostWakeup, also while an event is being handled.
WakeupInv ==
    /\ state = Normal =>
           \/ Handling("SUSPEND_DELAYS_READY")
           \/ Running(delays.normal.maxTimer) \/ delays.normal.notify = requestId
    /\ state = Dark =>
           /\ \/ Handling("READY_TO_RESUSPEND")
              \/ Running(delays.dark.maxTimer) \/ Running(delays.dark.minTimer)
              \/ delays.dark.notify = darkId
           /\ \/ Running(delays.dark.maxTimer)
              \/ (delays.dark.waiting = {} /\ delays.dark.internal = {})
    /\ state = Retry => Handling("READY_TO_RESUSPEND") \/ Running(resuspend)

\* No dark resume was seen before the first attempt.
FirstInv == state = Normal => ~inDark /\ ~sfs.dark

IInv ==
    /\ TypeOK
    /\ RetriesAreBounded
    /\ ShutdownInv
    /\ ToldIsAnnounced
    /\ DownInv
    /\ QueueInv
    /\ IdleIsClean
    /\ IdsInv
    /\ ReadyInv
    /\ WakeupInv
    /\ FirstInv

-----------------------------------------------------------------------------
(***************************************************************************)
(* The parts of the system.                                                *)
(***************************************************************************)

\* The five states, by name.
LEMMA StatesAre ==
    /\ WaitingStates = {Normal, Dark, Retry}
    /\ States = {"IDLE", "SHUTTING_DOWN"} \cup WaitingStates
    /\ "IDLE" \notin WaitingStates /\ "SHUTTING_DOWN" \notin WaitingStates
    /\ Normal # Dark /\ Normal # Retry /\ Dark # Retry
BY DEF WaitingStates, States, Normal, Dark, Retry

\* A new delay controller waits for nothing and has reported nothing.
LEMMA NewControllerIs ==
    ASSUME NEW n \in Nat
    PROVE  /\ NewController(n) \in Controller
           /\ Quiet(NewController(n))
           /\ NewController(n).suspendId = 0 /\ NewController(n).notify = NoTask
<1>1. [d \in {} |-> 0] \in DelayMaps
    BY DEF DelayMaps
<1> QED BY <1>1 DEF NewController, Controller, Quiet

\* The other objects as a new powerd makes them.
LEMMA NewOthersAre ==
    /\ NewChargeLimit \in ChargeLimitState
    /\ NewShutdownFromSuspend \in ShutdownFromSuspendState
    /\ ~NewShutdownFromSuspend.dark /\ ~NewShutdownFromSuspend.timer
    /\ ~NewShutdownFromSuspend.fired
    /\ DefaultRequest \in Requests
BY ChargeLimitAssumption
   DEF NewChargeLimit, ChargeLimitState, NewShutdownFromSuspend, ShutdownFromSuspendState,
       DefaultRequest, Requests, Flavors

\* ShutdownFromSuspend keeps its type, and a full resume clears it.
LEMMA ShutdownObjectIs ==
    ASSUME NEW s \in ShutdownFromSuspendState
    PROVE  /\ ShutdownPrepareForSuspendAttempt(s) \in ShutdownFromSuspendState
           /\ ShutdownHandleDarkResume(s) \in ShutdownFromSuspendState
           /\ OnShutdownTimerWake(s) \in ShutdownFromSuspendState
           /\ ShutdownHandleFullResume(s) \in ShutdownFromSuspendState
           /\ LET r == ShutdownHandleFullResume(s) IN ~r.dark /\ ~r.timer /\ ~r.fired
BY DEF ShutdownPrepareForSuspendAttempt, ConfigureShutdownTimer, ShutdownHandleDarkResume,
       OnShutdownTimerWake, ShutdownHandleFullResume, ShutdownFromSuspendState

\* Each thing outside of powerd changes by itself.
LEMMA OutsideUpdates ==
    ASSUME NEW o \in Outside, NEW b \in BOOLEAN
    PROVE  /\ LET p == [o EXCEPT !.told = b]
              IN  /\ p \in Outside /\ p.told = b /\ p.announced = o.announced
                  /\ p.audio = o.audio /\ p.audioFile = o.audioFile
           /\ LET p == [o EXCEPT !.announced = b]
              IN  /\ p \in Outside /\ p.told = o.told /\ p.announced = b
                  /\ p.audio = o.audio /\ p.audioFile = o.audioFile
           /\ LET p == [o EXCEPT !.audio = b]
              IN  /\ p \in Outside /\ p.told = o.told /\ p.announced = o.announced
                  /\ p.audio = b /\ p.audioFile = o.audioFile
           /\ LET p == [o EXCEPT !.audioFile = b]
              IN  /\ p \in Outside /\ p.told = o.told /\ p.announced = o.announced
                  /\ p.audio = o.audio /\ p.audioFile = b
BY DEF Outside

\* The two stages of a handler that makes one call and one file.
LEMMA TwoStages ==
    ASSUME NEW a, NEW b
    PROVE  Elements(<<a, b>>) = {a, b} /\ <<a, b>>[2] = b
<1>1. DOMAIN <<a, b>> = {1, 2}
    OBVIOUS
<1> QED BY <1>1 DEF Elements

\* The four stages of finishing a request.
LEMMA FourStages ==
    ASSUME NEW a, NEW b, NEW c, NEW d
    PROVE  Elements(<<a, b, c, d>>) = {a, b, c, d} /\ <<a, b, c, d>>[4] = d
<1>1. DOMAIN <<a, b, c, d>> = {1, 2, 3, 4}
    OBVIOUS
<1> QED BY <1>1 DEF Elements

\* The stages of StartRequest(): the file is there before anybody is told.
LEMMA StartStagesAre ==
    ASSUME NEW o \in Outside, o.told => o.announced
    PROVE  /\ \A x \in Elements(StartRequestStages(o)) :
                  x \in Outside /\ (x.told => x.announced)
           /\ LET x == StartRequestStages(o)[2]
              IN  x \in Outside /\ x.told /\ x.announced
<1> DEFINE file == [o EXCEPT !.announced = TRUE]
           both == [file EXCEPT !.told = TRUE]
<1>1. file \in Outside /\ file.announced = TRUE
    BY OutsideUpdates
<1> HIDE DEF file
<1>2. both \in Outside /\ both.announced = TRUE /\ both.told = TRUE
    BY <1>1, OutsideUpdates
<1>3. StartRequestStages(o) = <<file, both>>
    BY DEF StartRequestStages, file
<1> HIDE DEF both
<1> QED BY <1>1, <1>2, <1>3, TwoStages

\* A crash while audio is suspended leaves announcement and file as they were.
LEMMA AudioStagesAre ==
    ASSUME NEW o \in Outside
    PROVE  /\ \A x \in Elements(SuspendAudioStages(o)) :
                  x \in Outside /\ x.told = o.told /\ x.announced = o.announced
           /\ SuspendAudioStages(o)[2] \in Elements(SuspendAudioStages(o))
<1> DEFINE call == [o EXCEPT !.audio = TRUE]
           both == [call EXCEPT !.audioFile = TRUE]
<1>1. call \in Outside /\ call.told = o.told /\ call.announced = o.announced
    BY OutsideUpdates
<1> HIDE DEF call
<1>2. both \in Outside /\ both.told = o.told /\ both.announced = o.announced
    BY <1>1, OutsideUpdates
<1>3. SuspendAudioStages(o) = <<call, both>>
    BY DEF SuspendAudioStages, call
<1> HIDE DEF both
<1> QED BY <1>1, <1>2, <1>3, TwoStages

\* At every stage of the end of a request, whoever was told is announced in the file.
LEMMA FinishStagesAre ==
    ASSUME NEW o \in Outside, o.told => o.announced
    PROVE  /\ \A x \in Elements(FinishRequestStages(o)) :
                  x \in Outside /\ (x.told => x.announced)
           /\ LET x == FinishRequestStages(o)[4]
              IN  x \in Outside /\ ~x.told /\ ~x.announced /\ ~x.audio /\ ~x.audioFile
<1> DEFINE call == [o EXCEPT !.audio = FALSE]
           file == [call EXCEPT !.audioFile = FALSE]
           done == [file EXCEPT !.told = FALSE]
           all  == [done EXCEPT !.announced = FALSE]
<1>1. /\ call \in Outside /\ call.audio = FALSE
      /\ call.told = o.told /\ call.announced = o.announced
    BY OutsideUpdates
<1> HIDE DEF call
<1>2. /\ file \in Outside /\ file.audio = FALSE /\ file.audioFile = FALSE
      /\ file.told = o.told /\ file.announced = o.announced
    BY <1>1, OutsideUpdates
<1> HIDE DEF file
<1>3. done \in Outside /\ done.audio = FALSE /\ done.audioFile = FALSE /\ done.told = FALSE
    BY <1>2, OutsideUpdates
<1> HIDE DEF done
<1>4. /\ all \in Outside /\ all.audio = FALSE /\ all.audioFile = FALSE
      /\ all.told = FALSE /\ all.announced = FALSE
    BY <1>3, OutsideUpdates
<1>5. FinishRequestStages(o) = <<call, file, done, all>>
    BY DEF FinishRequestStages, call, file, done
<1> HIDE DEF all
<1> QED BY <1>1, <1>2, <1>3, <1>4, <1>5, FourStages

\* What Init() does for a previous run, whether or not it gets through.
LEMMA InitStagesAre ==
    ASSUME NEW o \in Outside, o.told => o.announced
    PROVE  /\ \A x \in Elements(InitStages(o)) : x \in Outside /\ (x.told => x.announced)
           /\ LET x == InitStages(o)[4]
              IN  x \in Outside /\ ~x.told /\ ~x.announced /\ ~x.audioFile
<1> DEFINE call == [o EXCEPT !.audio = IF o.audioFile THEN FALSE ELSE @]
           file == [call EXCEPT !.audioFile = FALSE]
           done == [file EXCEPT !.told = FALSE]
           all  == [done EXCEPT !.announced = FALSE]
<1>1. call \in Outside /\ call.told = o.told /\ call.announced = o.announced
    <2>1. CASE o.audioFile
        <3>1. call = [o EXCEPT !.audio = FALSE]
            BY <2>1
        <3> HIDE DEF call
        <3> QED BY <3>1, OutsideUpdates
    <2>2. CASE ~o.audioFile
        BY <2>2 DEF Outside
    <2> QED BY <2>1, <2>2
<1>2. InitStages(o) = <<call, file, [file EXCEPT !.told = IF o.announced THEN FALSE ELSE @],
             [[file EXCEPT !.told = IF o.announced THEN FALSE ELSE @] EXCEPT !.announced = FALSE]>>
    BY DEF InitStages
<1> HIDE DEF call
<1>3. /\ file \in Outside /\ file.audioFile = FALSE
      /\ file.told = o.told /\ file.announced = o.announced
    BY <1>1, OutsideUpdates
<1>4. [file EXCEPT !.told = IF o.announced THEN FALSE ELSE @] = done
    <2>1. CASE o.announced
        BY <2>1
    <2>2. CASE ~o.announced
        <3>1. file.told = FALSE
            BY <1>3, <2>2 DEF Outside
        <3> HIDE DEF file
        <3> QED BY <1>3, <2>2, <3>1
    <2> QED BY <2>1, <2>2
<1> HIDE DEF file
<1>5. done \in Outside /\ done.audioFile = FALSE /\ done.told = FALSE
    BY <1>3, OutsideUpdates
<1> HIDE DEF done
<1>6. all \in Outside /\ all.audioFile = FALSE /\ all.told = FALSE /\ all.announced = FALSE
    BY <1>5, OutsideUpdates
<1>7. InitStages(o) = <<call, file, done, all>>
    BY <1>2, <1>4
<1> HIDE DEF all
<1> QED BY <1>1, <1>3, <1>5, <1>6, <1>7, FourStages

-----------------------------------------------------------------------------
(***************************************************************************)
(* The queue.                                                              *)
(***************************************************************************)

\* What a handler may leave of the queue q.
Left(q) == {Tail(q), Append(Tail(q), "SUSPEND_REQUESTED"), Append(Tail(q), "SHUTDOWN_STARTED")}

\* The events that may wait behind a handled one are not the ones that start an attempt.
LEMMA LaterAreEvents ==
    /\ LaterEvents \subseteq Events
    /\ "SUSPEND_DELAYS_READY" \notin LaterEvents /\ "READY_TO_RESUSPEND" \notin LaterEvents
BY DEF LaterEvents, Events, WakeEvents

\* A sequence over a set is one over every larger set.
LEMMA SeqOfMore ==
    ASSUME NEW S, NEW T, S \subseteq T, NEW s \in Seq(S)
    PROVE  s \in Seq(T)
OBVIOUS

\* What a handler leaves of the queue: the rest, and perhaps one event it raised itself.
LEMMA LeftIs ==
    ASSUME NEW q \in Seq(Events), q # <<>>, Tail(q) \in Seq(LaterEvents), NEW r \in Left(q)
    PROVE  /\ r \in Seq(Events)
           /\ r # <<>> => Tail(r) \in Seq(LaterEvents) /\ Head(r) \in LaterEvents
           /\ \A e : Has(q, e) /\ Head(q) # e => Has(r, e)
           /\ \A e : Has(r, e) => Has(q, e) \/ r = Append(Tail(q), e)
<1>1. r \in Seq(LaterEvents)
    <2>1. "SUSPEND_REQUESTED" \in LaterEvents /\ "SHUTDOWN_STARTED" \in LaterEvents
        BY DEF LaterEvents
    <2> QED BY <2>1 DEF Left
<1>2. r \in Seq(Events)
    BY <1>1, LaterAreEvents, SeqOfMore
<1>3. r # <<>> => Tail(r) \in Seq(LaterEvents) /\ Head(r) \in LaterEvents
    BY <1>1
<1>4. ASSUME NEW e, Has(q, e), Head(q) # e
      PROVE  Has(r, e)
    <2>1. PICK i \in 1..Len(q) : q[i] = e
        BY <1>4 DEF Has
    <2>2. i # 1
        BY <1>4, <2>1
    <2>3. i - 1 \in 1..Len(Tail(q)) /\ Tail(q)[i - 1] = e
        BY <2>1, <2>2
    <2>4. Len(Tail(q)) <= Len(r) /\ r[i - 1] = Tail(q)[i - 1]
        BY <2>3 DEF Left
    <2>5. i - 1 \in 1..Len(r)
        BY <1>1, <2>3, <2>4
    <2> QED BY <2>3, <2>4, <2>5 DEF Has
<1>5. ASSUME NEW e, Has(r, e), r # Append(Tail(q), e)
      PROVE  Has(q, e)
    <2>1. PICK i \in 1..Len(r) : r[i] = e
        BY <1>5 DEF Has
    <2>2. Len(Tail(q)) = Len(q) - 1 /\ \A j \in 1..Len(Tail(q)) : Tail(q)[j] = q[j + 1]
        OBVIOUS
    <2>3. i \in 1..Len(Tail(q)) /\ Tail(q)[i] = e
        <3>1. CASE r = Tail(q)
            BY <2>1, <3>1
        <3>2. ASSUME NEW x, r = Append(Tail(q), x)
              PROVE  i \in 1..Len(Tail(q)) /\ Tail(q)[i] = e
            <4>1. x # e
                BY <1>5, <3>2
            <4> QED BY <2>1, <3>2, <4>1
        <3> QED BY <3>1, <3>2 DEF Left
    <2>4. i + 1 \in 1..Len(q) /\ q[i + 1] = e
        BY <2>2, <2>3
    <2> QED BY <2>4 DEF Has
<1> QED BY <1>2, <1>3, <1>4, <1>5

\* The empty queue holds no event.
LEMMA NothingHas == \A e : ~Has(<<>>, e)
BY DEF Has

\* An event that was appended is in the queue.
LEMMA AppendHas ==
    ASSUME NEW S, NEW q \in Seq(S), NEW e
    PROVE  Has(Append(q, e), e)
<1>1. Len(q) + 1 \in 1..Len(Append(q, e)) /\ Append(q, e)[Len(q) + 1] = e
    OBVIOUS
<1> QED BY <1>1 DEF Has

\* An event that is raised when no other is being handled.
LEMMA RaisedIs ==
    ASSUME NEW e \in Events
    PROVE  /\ Append(<<>>, e) \in Seq(Events)
           /\ Append(<<>>, e) # <<>>
           /\ Head(Append(<<>>, e)) = e
           /\ Tail(Append(<<>>, e)) \in Seq(LaterEvents)
           /\ Tail(Append(<<>>, e)) = <<>>
           /\ \A x : Has(Append(<<>>, e), x) <=> x = e
<1>1. Append(<<>>, e) = <<e>> /\ Tail(<<e>>) = <<>> /\ Len(<<e>>) = 1 /\ <<e>>[1] = e
    OBVIOUS
<1>2. \A x : Has(Append(<<>>, e), x) <=> x = e
    BY <1>1 DEF Has
<1> QED BY <1>1, <1>2

\* Calls of the Daemon leave one event more at most; a shutdown that begins is
\* put in the queue, and one that has begun goes on.
Signalled(q) ==
    /\ shutdown' \in {"no", "postponed", "started"}
    /\ \/ /\ queue' \in {q, Append(q, "SUSPEND_REQUESTED")}
          /\ shutdown' = "started" <=> shutdown = "started"
       \/ queue' = Append(q, "SHUTDOWN_STARTED") /\ shutdown' = "started"

\* Daemon::ShutDown() tells Suspender when the shutdown starts.
LEMMA ShutDownSignals ==
    ASSUME NEW S, NEW q \in Seq(S), shutdown \in {"no", "postponed", "started"}, ShutDown(q)
    PROVE  Signalled(q)
BY DEF ShutDown, Signalled

\* UndoPrepareToSuspend() may raise a request or start a shutdown, which Suspender then hears of.
LEMMA UndoSignals ==
    ASSUME NEW S, NEW q \in Seq(S), shutdown \in {"no", "postponed", "started"},
           request \in Requests, UndoPrepareToSuspend(q)
    PROVE  Signalled(q) /\ request' \in Requests
<1>1. CASE queue' = q /\ UNCHANGED <<request, shutdown>>
    BY <1>1 DEF Signalled
<1>2. CASE RequestSuspend(DefaultRequest, q)
    BY <1>2, NewOthersAre DEF Signalled, RequestSuspend
<1>3. CASE ShutDown(q) /\ UNCHANGED request
    BY <1>3, ShutDownSignals
<1> QED BY <1>1, <1>2, <1>3 DEF UndoPrepareToSuspend

\* After the handler of an event the queue is as it should be, and a shutdown is
\* known or still in the queue.
LEMMA AfterEvent ==
    ASSUME IInv, queue # <<>>, powerd = "up", powerd' = "up", Signalled(Tail(queue)),
           Head(queue) = "SHUTDOWN_STARTED" \/ state = "SHUTTING_DOWN" => state' = "SHUTTING_DOWN"
    PROVE  /\ queue' \in Seq(Events) /\ shutdown' \in {"no", "postponed", "started"}
           /\ QueueInv' /\ ShutdownInv' /\ DownInv'
           /\ ~Handling("SUSPEND_DELAYS_READY")' /\ ~Handling("READY_TO_RESUSPEND")'
<1>1. queue \in Seq(Events) /\ Tail(queue) \in Seq(LaterEvents)
    BY DEF IInv, TypeOK, QueueInv
<1>2. queue' \in Left(queue)
    BY DEF Signalled, Left
<1>3. /\ queue' \in Seq(Events)
      /\ queue' # <<>> => Tail(queue') \in Seq(LaterEvents) /\ Head(queue') \in LaterEvents
      /\ \A e : Has(queue, e) /\ Head(queue) # e => Has(queue', e)
      /\ \A e : Has(queue', e) => Has(queue, e) \/ queue' = Append(Tail(queue), e)
    BY <1>1, <1>2, LeftIs
<1>4. ShutdownInv'
    <2>1. CASE queue' = Append(Tail(queue), "SHUTDOWN_STARTED") /\ shutdown' = "started"
        <3>1. Has(queue', "SHUTDOWN_STARTED")
            BY <1>1, <2>1, AppendHas
        <3> QED BY <2>1, <3>1 DEF ShutdownInv
    <2>2. CASE /\ queue' \in {Tail(queue), Append(Tail(queue), "SUSPEND_REQUESTED")}
               /\ shutdown' = "started" <=> shutdown = "started"
        <3>1. queue' = Append(Tail(queue), "SHUTDOWN_STARTED") => FALSE
            <4>1. /\ Append(Tail(queue), "SHUTDOWN_STARTED")[Len(Tail(queue)) + 1] = "SHUTDOWN_STARTED"
                  /\ Append(Tail(queue), "SUSPEND_REQUESTED")[Len(Tail(queue)) + 1] = "SUSPEND_REQUESTED"
                  /\ Len(Append(Tail(queue), "SHUTDOWN_STARTED")) = Len(Tail(queue)) + 1
                  /\ Len(Tail(queue)) \in Nat
                BY <1>1
            <4> QED BY <2>2, <4>1
        <3>2. Has(queue', "SHUTDOWN_STARTED") => Has(queue, "SHUTDOWN_STARTED")
            BY <1>3, <3>1
        <3> QED BY <1>3, <2>2, <3>2 DEF ShutdownInv, IInv
    <2> QED BY <2>1, <2>2 DEF Signalled
<1>5. ~Handling("SUSPEND_DELAYS_READY")' /\ ~Handling("READY_TO_RESUSPEND")'
    BY <1>3, LaterAreEvents DEF Handling
<1> QED BY <1>3, <1>4, <1>5 DEF QueueInv, DownInv, Signalled

-----------------------------------------------------------------------------
(***************************************************************************)
(* The end of a request.                                                   *)
(***************************************************************************)

\* FinishSuspend() with the id that the controller knows.
LEMMA FinishEffect ==
    ASSUME NEW k \in Controller, NEW id, Quiet(k) \/ k.suspendId = id
    PROVE  LET r == FinishSuspend(k, id)
           IN  /\ r \in Controller /\ Quiet(r)
               /\ r.suspendId = k.suspendId /\ r.notify = k.notify
BY FinishType DEF FinishSuspend, Quiet, Controller

\* A controller that waits for nothing is not made to wait by Charge Limit.
LEMMA MovedQuiet ==
    ASSUME NEW k \in Controller, NEW r \in Controller, NEW ds, Moved(k, r, ds), Quiet(k)
    PROVE  Quiet(r)
BY DEF Moved, Reported, Quiet

\* Moves of a controller outside of prepare and finish keep its id.
LEMMA MovedIds ==
    ASSUME NEW k \in Controller, NEW r \in Controller, NEW ds, Moved(k, r, ds)
    PROVE  /\ r.suspendId = k.suspendId
           /\ k.notify <= k.suspendId => r.notify <= r.suspendId
           /\ k.notified => r.notified
<1>1. k.suspendId \in Nat
    BY DEF Controller
<1> QED BY <1>1 DEF Moved, Reported

\* The members that FinishRequest() finds: the controllers know its ids.
Finishable(m) ==
    /\ m.delays \in Delays /\ m.charge \in ChargeLimitState
    /\ m.sfs \in ShutdownFromSuspendState
    /\ m.attempts \in 0..(MaxRetries + 1)
    /\ m.count \in Counts
    /\ m.resuspend \in {Off} \cup 0..RetryDelay
    /\ m.outside \in Outside /\ (m.outside.told => m.outside.announced)
    /\ m.delays.normal.suspendId = requestId
    /\ m.delays.normal.notify <= m.delays.normal.suspendId
    /\ Quiet(m.delays.dark) \/ m.delays.dark.suspendId = darkId

\* FinishRequest() with any controllers that know their ids reaches a state of the invariant.
LEMMA FinishStep ==
    ASSUME IInv, queue # <<>>, powerd = "up", NEW m, Finishable(m), FinishRequest(m),
           state' \in {"IDLE", "SHUTTING_DOWN"},
           Head(queue) = "SHUTDOWN_STARTED" \/ state = "SHUTTING_DOWN" => state' = "SHUTTING_DOWN"
    PROVE  IInv'
<1> DEFINE n == FinishSuspend(m.delays.normal, requestId)
           d == FinishSuspend(m.delays.dark, darkId)
           v == [delays |-> [normal |-> n, dark |-> d], charge |-> m.charge]
<1>1. /\ m.delays.normal \in Controller /\ m.delays.dark \in Controller
    BY DelaysAre DEF Finishable
<1>2. /\ n \in Controller /\ Quiet(n)
      /\ n.suspendId = requestId /\ n.notify = m.delays.normal.notify
    BY <1>1, FinishEffect DEF Finishable
<1>3. d \in Controller /\ Quiet(d)
    BY <1>1, FinishEffect DEF Finishable
<1>4. PICK ec \in ChargerOutcomes :
        /\ delays' = ChargeHandleResume(v, ec).delays
        /\ charge' = IF shutdown = "started"
                     THEN ChargeStopDischarge(ChargeHandleResume(v, ec).charge)
                     ELSE ChargeHandleResume(v, ec).charge
    BY DEF FinishRequest
<1> HIDE DEF n, d
<1>5. v \in World
    BY <1>2, <1>3, DelaysOf DEF World, Finishable
<1>6. Carried(v, ChargeHandleResume(v, ec))
    BY <1>5, ResumeEffect
<1>7. /\ delays' \in Delays /\ charge' \in ChargeLimitState
      /\ Moved(n, delays'.normal, v.delays) /\ Moved(d, delays'.dark, v.delays)
    BY <1>4, <1>6, StopDischargeType DEF Carried, BothMoved
<1>8. delays'.normal \in Controller /\ delays'.dark \in Controller
    BY <1>7, DelaysAre
<1>9. /\ Quiet(delays'.normal) /\ Quiet(delays'.dark)
      /\ delays'.normal.suspendId = requestId
      /\ delays'.normal.notify <= delays'.normal.suspendId
    BY <1>2, <1>3, <1>7, <1>8, MovedQuiet, MovedIds DEF Finishable
<1>10. Signalled(Tail(queue)) /\ request' \in Requests
    <2>1. Tail(queue) \in Seq(LaterEvents)
        BY DEF IInv, QueueInv
    <2> QED BY <2>1, UndoSignals DEF IInv, TypeOK, FinishRequest
<1>11. powerd' = powerd /\ crashes' = crashes /\ requestId' = requestId /\ darkId' = darkId
    BY DEF FinishRequest, ids, process
<1>12. /\ queue' \in Seq(Events) /\ shutdown' \in {"no", "postponed", "started"}
       /\ QueueInv' /\ ShutdownInv' /\ DownInv'
       /\ ~Handling("SUSPEND_DELAYS_READY")' /\ ~Handling("READY_TO_RESUSPEND")'
    BY <1>10, <1>11, AfterEvent
<1>13. /\ outside' \in Outside /\ ~outside'.told /\ ~outside'.announced
       /\ ~outside'.audio /\ ~outside'.audioFile
    BY FinishStagesAre DEF Finishable, FinishRequest
<1>14. /\ sfs' \in ShutdownFromSuspendState /\ ~sfs'.dark /\ ~sfs'.timer /\ ~sfs'.fired
    BY ShutdownObjectIs DEF Finishable, FinishRequest
<1>15. /\ resuspend' = Off /\ inDark' = FALSE
       /\ attempts' \in 0..(MaxRetries + 1) /\ count' \in Counts
    BY DEF Finishable, FinishRequest
<1>16. TypeOK'
    BY <1>7, <1>10, <1>11, <1>12, <1>13, <1>14, <1>15, StatesAre DEF IInv, TypeOK
<1>17. RetriesAreBounded' /\ ReadyInv' /\ WakeupInv' /\ FirstInv'
    BY StatesAre DEF RetriesAreBounded, ReadyInv, WakeupInv, FirstInv
<1>18. IdsInv'
    BY <1>9, <1>11, StatesAre DEF IdsInv, IInv, TypeOK
<1>19. IdleIsClean'
    BY <1>9, <1>13, <1>14, <1>15 DEF IdleIsClean, Quiet, Controllers
<1>20. ToldIsAnnounced'
    BY <1>13 DEF ToldIsAnnounced
<1> QED BY <1>12, <1>16, <1>17, <1>18, <1>19, <1>20 DEF IInv

-----------------------------------------------------------------------------
(***************************************************************************)
(* An attempt to suspend.                                                  *)
(***************************************************************************)

\* Time passing neither starts nor stops a timer.
LEMMA AdvanceRuns ==
    ASSUME NEW t \in Int, t = Off \/ t >= 0, NEW n \in Nat
    PROVE  /\ Running(Advance(t, n)) <=> Running(t)
           /\ \A max \in Nat : t \in {Off} \cup 0..max => Advance(t, n) \in {Off} \cup 0..max
BY DEF Advance, Running, Off

\* Time starts and stops no timer and changes nothing else.
LEMMA PassTimeEffect ==
    ASSUME NEW k \in Controller, NEW n \in Nat
    PROVE  LET r == PassTime(k, n)
           IN  /\ r \in Controller
               /\ r.suspendId = k.suspendId /\ r.waiting = k.waiting
               /\ r.internal = k.internal /\ r.notify = k.notify
               /\ r.notified = k.notified
               /\ Running(r.maxTimer) <=> Running(k.maxTimer)
               /\ Running(r.minTimer) <=> Running(k.minTimer)
<1> DEFINE r == PassTime(k, n)
<1>1. /\ k.maxTimer \in Int /\ (k.maxTimer = Off \/ k.maxTimer >= 0)
      /\ k.minTimer \in Int /\ (k.minTimer = Off \/ k.minTimer >= 0)
    BY DelayAssumption DEF Controller, Off
<1>2. /\ r.suspendId = k.suspendId /\ r.waiting = k.waiting
      /\ r.internal = k.internal /\ r.notify = k.notify
      /\ r.notified = k.notified
      /\ r.maxTimer = Advance(k.maxTimer, n) /\ r.minTimer = Advance(k.minTimer, n)
    BY DEF PassTime, Controller
<1> HIDE DEF r
<1>3. /\ Running(r.maxTimer) <=> Running(k.maxTimer)
      /\ Running(r.minTimer) <=> Running(k.minTimer)
    BY <1>1, <1>2, AdvanceRuns
<1> QED BY <1>2, <1>3, PassTimeType DEF r

\* Nor does it make a quiet controller wait.
LEMMA PassTimeQuiet ==
    ASSUME NEW k \in Controller, NEW n \in Nat, Quiet(k)
    PROVE  Quiet(PassTime(k, n))
BY PassTimeEffect DEF Quiet, Running

\* The state in which Suspend() is called: readiness was reported.
CanSuspend ==
    /\ IInv /\ queue # <<>> /\ powerd = "up"
    /\ \/ state = Normal /\ Head(queue) = "SUSPEND_DELAYS_READY"
       \/ state \in {Dark, Retry} /\ Head(queue) = "READY_TO_RESUSPEND"

\* The members that the attempt leaves.
Attempted(m) == Finishable(m) /\ m.delays.normal.notified

\* What holds whenever Suspend() is called.
LEMMA CanSuspendIs ==
    ASSUME CanSuspend
    PROVE  /\ Finishable(Members) /\ delays.normal.notified
           /\ attempts \in 0..MaxRetries
           /\ Head(queue) # "SHUTDOWN_STARTED" /\ state # "SHUTTING_DOWN" /\ state # "IDLE"
<1>1. state \in WaitingStates /\ IInv
    BY StatesAre DEF CanSuspend
<1>2. delays.normal.notified
    BY DEF CanSuspend, IInv, ReadyInv, Handling
<1>3. attempts \in 0..MaxRetries
    BY <1>1, SuspenderAssumption DEF IInv, TypeOK, RetriesAreBounded
<1>4. Finishable(Members)
    BY <1>1 DEF Finishable, Members, IInv, TypeOK, IdsInv, ToldIsAnnounced
<1> QED BY <1>1, <1>2, <1>3, <1>4, StatesAre DEF CanSuspend

\* What the steps common to all attempts leave, before the result is judged.
LEMMA AttemptLeaves ==
    ASSUME CanSuspend, NEW n \in Nat, NEW after \in Counts
    PROVE  Attempted([ delays    |-> [normal |-> PassTime(delays.normal, n),
                                      dark   |-> PassTime(delays.dark, n)],
                       charge    |-> ChargeStopDischarge(charge),
                       sfs       |-> ShutdownPrepareForSuspendAttempt(sfs),
                       attempts  |-> attempts + 1,
                       count     |-> after,
                       resuspend |-> Advance(resuspend, n),
                       outside   |-> SuspendAudioStages(outside)[2] ])
<1> DEFINE a == PassTime(delays.normal, n)
           b == PassTime(delays.dark, n)
           c == ChargeStopDischarge(charge)
           s == ShutdownPrepareForSuspendAttempt(sfs)
           t == Advance(resuspend, n)
           o == SuspendAudioStages(outside)[2]
<1>1. IInv /\ TypeOK
    BY DEF CanSuspend, IInv
<1>2. /\ delays.normal \in Controller /\ delays.dark \in Controller
      /\ delays.normal.suspendId = requestId /\ delays.normal.notified
      /\ delays.normal.notify <= delays.normal.suspendId
      /\ Quiet(delays.dark) \/ delays.dark.suspendId = darkId
    BY <1>1, CanSuspendIs, DelaysAre DEF TypeOK, Finishable, Members
<1>3. /\ a \in Controller /\ a.suspendId = requestId /\ a.notified
      /\ a.notify <= a.suspendId
    BY <1>2, PassTimeEffect
<1>4. b \in Controller /\ (Quiet(b) \/ b.suspendId = darkId)
    BY <1>2, PassTimeEffect, PassTimeQuiet
<1>5. c \in ChargeLimitState
    BY <1>1, StopDischargeType DEF TypeOK
<1>6. s \in ShutdownFromSuspendState
    BY <1>1, ShutdownObjectIs DEF TypeOK
<1>7. t \in {Off} \cup 0..RetryDelay
    <2>1. resuspend \in Int /\ (resuspend = Off \/ resuspend >= 0)
        BY <1>1, SuspenderAssumption DEF TypeOK, Off
    <2> QED BY <1>1, <2>1, AdvanceRuns, SuspenderAssumption DEF TypeOK
<1>8. o \in Outside /\ (o.told => o.announced)
    BY <1>1, AudioStagesAre DEF TypeOK, IInv, ToldIsAnnounced
<1>9. attempts + 1 \in 0..(MaxRetries + 1)
    BY CanSuspendIs, SuspenderAssumption
<1> HIDE DEF a, b, c, s, t, o
<1>10. [normal |-> a, dark |-> b] \in Delays
    BY <1>3, <1>4, DelaysOf
<1> QED BY <1>3, <1>4, <1>5, <1>6, <1>7, <1>8, <1>9, <1>10 DEF Attempted, Finishable, a, b, c, s, t, o

\* The attempt failed: another one is scheduled, or powerd gives up.
LEMMA UnsuccessfulStep ==
    ASSUME CanSuspend, NEW m, Attempted(m), NEW result, HandleUnsuccessfulSuspend(m, result),
           inDark' \in BOOLEAN
    PROVE  IInv'
<1>1. IInv /\ TypeOK /\ queue # <<>> /\ powerd = "up"
    BY DEF CanSuspend, IInv
<1>2. /\ delays' = m.delays /\ charge' = m.charge /\ sfs' = m.sfs /\ attempts' = m.attempts
      /\ outside' = m.outside /\ requestId' = requestId /\ darkId' = darkId
      /\ request' = request /\ powerd' = powerd /\ crashes' = crashes
    BY DEF HandleUnsuccessfulSuspend, ids, process
<1>3. Tail(queue) \in Seq(LaterEvents)
    BY <1>1 DEF IInv, QueueInv
<1>4. /\ Signalled(Tail(queue)) /\ count' \in Counts
      /\ resuspend' \in {Off} \cup 0..RetryDelay
      /\ \/ state' = "SHUTTING_DOWN"
         \/ state' = Retry /\ Running(resuspend') /\ ~TooManyAttempts(m.attempts)
    <2>1. CASE TooManyAttempts(m.attempts)
        BY <1>1, <1>3, <2>1, ShutDownSignals
           DEF HandleUnsuccessfulSuspend, TypeOK, Attempted, Finishable
    <2>2. CASE ~TooManyAttempts(m.attempts)
        <3>1. /\ queue' = Tail(queue) /\ shutdown' = shutdown
              /\ state' = Retry /\ resuspend' = RetryDelay
            BY <2>2 DEF HandleUnsuccessfulSuspend, ScheduleResuspend, Retry
        <3>2. count' \in Counts
            BY <2>2 DEF HandleUnsuccessfulSuspend, ReadSuspendWakeupCount, Counts,
                        Attempted, Finishable
        <3>3. Signalled(Tail(queue))
            BY <1>1, <3>1 DEF Signalled, TypeOK
        <3>4. RetryDelay \in {Off} \cup 0..RetryDelay /\ Running(RetryDelay)
            BY SuspenderAssumption DEF Running, Off
        <3> QED BY <2>2, <3>1, <3>2, <3>3, <3>4
    <2> QED BY <2>1, <2>2
<1>5. /\ queue' \in Seq(Events) /\ shutdown' \in {"no", "postponed", "started"}
      /\ QueueInv' /\ ShutdownInv' /\ DownInv'
      /\ ~Handling("SUSPEND_DELAYS_READY")' /\ ~Handling("READY_TO_RESUSPEND")'
    BY <1>1, <1>2, <1>4, AfterEvent, CanSuspendIs
<1>6. TypeOK'
    BY <1>1, <1>2, <1>4, <1>5, StatesAre DEF TypeOK, Attempted, Finishable
<1>7. RetriesAreBounded'
    BY <1>2, <1>4, StatesAre, SuspenderAssumption
       DEF RetriesAreBounded, TooManyAttempts, Attempted, Finishable
<1>8. IdsInv'
    <2>1. delays'.normal.suspendId <= requestId'
        BY <1>1, <1>2 DEF Attempted, Finishable, TypeOK
    <2>2. state' # Dark
        BY <1>4, StatesAre
    <2> QED BY <1>2, <2>1, <2>2 DEF IdsInv, Attempted, Finishable
<1>9. ReadyInv' /\ WakeupInv' /\ FirstInv'
    BY <1>2, <1>4, <1>5, StatesAre DEF ReadyInv, WakeupInv, FirstInv, Attempted
<1>10. IdleIsClean' /\ ToldIsAnnounced'
    <2>1. state' # "IDLE"
        BY <1>4, StatesAre
    <2> QED BY <1>2, <2>1 DEF IdleIsClean, ToldIsAnnounced, Attempted, Finishable
<1> QED BY <1>5, <1>6, <1>7, <1>8, <1>9, <1>10 DEF IInv

\* What PrepareForSuspend() leaves for a dark resume.
LEMMA PrepareDark ==
    ASSUME NEW k \in Controller, NEW id \in Nat
    PROVE  LET r == PrepareForSuspend(k, id, TRUE)
           IN  /\ r \in Controller
               /\ r.suspendId = id
               /\ Running(r.minTimer)
               /\ Running(r.maxTimer) \/ (r.waiting = {} /\ r.internal = {})
<1> DEFINE waits == Registered(k) # {} \/ k.internal # {}
           max == IF waits THEN MaxTimeout(k) ELSE k.maxTimer
           r == [k EXCEPT !.suspendId = id, !.waiting = Registered(k),
                          !.minTimer = DarkResumeMinDelay, !.maxTimer = max]
<1>1. PrepareForSuspend(k, id, TRUE) = r
    BY DEF PrepareForSuspend
<1>2. r \in Controller
    <2>1. PrepareForSuspend(k, id, TRUE) \in Controller
        BY PrepareType
    <2> QED BY <1>1, <2>1
<1>3. /\ r.suspendId = id /\ r.waiting = Registered(k) /\ r.internal = k.internal
      /\ r.minTimer = DarkResumeMinDelay /\ r.maxTimer = max
    BY DEF Controller
<1>4. Running(DarkResumeMinDelay)
    BY DelayAssumption DEF Running, Off
<1>5. Running(MaxTimeout(k))
    BY MaxTimeoutType DEF Running, Off
<1> HIDE DEF r
<1> QED BY <1>1, <1>2, <1>3, <1>4, <1>5

\* HandleDarkResume() keeps the invariant: it waits, retries or shuts down.
LEMMA DarkResumeStep ==
    ASSUME CanSuspend, NEW m, Attempted(m), NEW result \in {"SUCCESS", "FAILURE", "CANCELED"},
           HandleDarkResume(m, result)
    PROVE  IInv'
<1>1. IInv /\ TypeOK /\ queue # <<>> /\ powerd = "up"
    BY DEF CanSuspend, IInv
<1>2. CASE FailsInDarkResume(m, result)
    BY <1>2, UnsuccessfulStep DEF HandleDarkResume
<1>3. CASE ~FailsInDarkResume(m, result)
  <2> DEFINE v == [delays |-> m.delays, charge |-> m.charge]
  <2>1. /\ darkId' = NextDarkId /\ sfs' = ShutdownHandleDarkResume(m.sfs)
        /\ attempts' = IF result = "SUCCESS" THEN 0 ELSE m.attempts
        /\ state' = Dark /\ inDark' = TRUE /\ resuspend' = m.resuspend
        /\ outside' = m.outside /\ count' = m.count /\ queue' = Tail(queue)
        /\ requestId' = requestId /\ request' = request /\ shutdown' = shutdown
        /\ powerd' = powerd /\ crashes' = crashes
    BY <1>3 DEF HandleDarkResume, Dark, process
  <2>2. PICK ec \in ChargerOutcomes :
          /\ delays' = [ChargeHandleResume(v, ec).delays EXCEPT
                          !.dark = PrepareForSuspend(@, NextDarkId, TRUE)]
          /\ charge' = ChargeHandleResume(v, ec).charge
    BY <1>3 DEF HandleDarkResume
  <2> DEFINE w == ChargeHandleResume(v, ec)
  <2>3. v \in World
    BY DEF World, Attempted, Finishable
  <2>4. w.delays \in Delays /\ w.charge \in ChargeLimitState /\ BothMoved(m.delays, w.delays)
    BY <2>3, ResumeEffect DEF Carried
  <2> HIDE DEF w
  <2>5. /\ m.delays.normal \in Controller /\ m.delays.dark \in Controller
        /\ w.delays.normal \in Controller /\ w.delays.dark \in Controller
    BY <2>4, DelaysAre DEF Attempted, Finishable
  <2>6. /\ w.delays.normal.suspendId = requestId
        /\ w.delays.normal.notify <= w.delays.normal.suspendId
        /\ w.delays.normal.notified
    BY <2>4, <2>5, MovedIds DEF BothMoved, Attempted, Finishable
  <2> DEFINE p == PrepareForSuspend(w.delays.dark, NextDarkId, TRUE)
  <2>7. darkId \in Nat /\ requestId \in Nat /\ NextDarkId \in Nat
    BY <1>1 DEF TypeOK, NextDarkId, FirstDarkId
  <2>8. /\ p \in Controller /\ p.suspendId = NextDarkId /\ Running(p.minTimer)
        /\ Running(p.maxTimer) \/ (p.waiting = {} /\ p.internal = {})
    BY <2>5, <2>7, PrepareDark
  <2>9. delays' = [normal |-> w.delays.normal, dark |-> p]
    BY <2>2, <2>4 DEF Delays, w
  <2> HIDE DEF p
  <2>10. delays' \in Delays /\ delays'.normal = w.delays.normal /\ delays'.dark = p
    BY <2>5, <2>8, <2>9, DelaysOf
  <2>11. charge' \in ChargeLimitState
    BY <2>2, <2>4 DEF w
  <2>12. Signalled(Tail(queue))
    BY <1>1, <2>1 DEF Signalled, TypeOK
  <2>13. /\ queue' \in Seq(Events) /\ shutdown' \in {"no", "postponed", "started"}
         /\ QueueInv' /\ ShutdownInv' /\ DownInv'
         /\ ~Handling("SUSPEND_DELAYS_READY")' /\ ~Handling("READY_TO_RESUSPEND")'
    BY <1>1, <2>1, <2>12, AfterEvent, CanSuspendIs
  <2>14. attempts' \in 0..MaxRetries
    BY <1>3, <2>1, SuspenderAssumption
       DEF FailsInDarkResume, TooManyAttempts, Attempted, Finishable
  <2>15. TypeOK'
    <3>1. sfs' \in ShutdownFromSuspendState
        BY <2>1, ShutdownObjectIs DEF Attempted, Finishable
    <3>2. attempts' \in 0..(MaxRetries + 1)
        BY <2>14, SuspenderAssumption
    <3> QED BY <1>1, <2>1, <2>7, <2>10, <2>11, <2>13, <3>1, <3>2, StatesAre
            DEF TypeOK, Attempted, Finishable
  <2>16. RetriesAreBounded'
    BY <2>14 DEF RetriesAreBounded
  <2>17. IdsInv'
    BY <2>1, <2>6, <2>7, <2>8, <2>10 DEF IdsInv
  <2>18. ReadyInv' /\ WakeupInv' /\ FirstInv'
    BY <2>1, <2>6, <2>8, <2>10, StatesAre DEF ReadyInv, WakeupInv, FirstInv
  <2>19. IdleIsClean' /\ ToldIsAnnounced'
    <3>1. state' # "IDLE"
        BY <2>1, StatesAre
    <3> QED BY <2>1, <3>1 DEF IdleIsClean, ToldIsAnnounced, Attempted, Finishable
  <2> QED BY <2>13, <2>15, <2>16, <2>17, <2>18, <2>19 DEF IInv
<1> QED BY <1>2, <1>3

\* One attempt keeps it, for every result and every way of waking up.
LEMMA AttemptStep ==
    ASSUME CanSuspend, NEW line \in BOOLEAN, NEW low \in BOOLEAN,
           NEW result \in SuspendResults(count), NEW input \in BOOLEAN,
           NEW dark \in BOOLEAN, NEW n \in AttemptTicks,
           Attempt(line, low, result, input, dark, n)
    PROVE  IInv'
<1>1. IInv /\ TypeOK /\ queue # <<>> /\ powerd = "up" /\ n \in Nat
    BY SuspenderAssumption DEF CanSuspend, IInv
<1> DEFINE judged == IF result = "CANCELED" /\ input THEN "SUCCESS" ELSE result
           m(after) == [ delays    |-> [normal |-> PassTime(delays.normal, n),
                                        dark   |-> PassTime(delays.dark, n)],
                         charge    |-> ChargeStopDischarge(charge),
                         sfs       |-> ShutdownPrepareForSuspendAttempt(sfs),
                         attempts  |-> attempts + 1,
                         count     |-> after,
                         resuspend |-> Advance(resuspend, n),
                         outside   |-> SuspendAudioStages(outside)[2] ]
<1>2. PICK after \in CountAfterAttempt(count, result) :
          HandleDarkResume(m(after), judged) \/ HandleNormalResume(m(after), judged)
    BY DEF Attempt
<1>3. after \in Counts
    BY <1>1 DEF CountAfterAttempt, TypeOK, Counts
<1>4. judged \in {"SUCCESS", "FAILURE", "CANCELED"}
    BY DEF SuspendResults
<1>5. Attempted(m(after))
    BY <1>1, <1>3, AttemptLeaves
<1> HIDE DEF m, judged
<1>6. CASE HandleDarkResume(m(after), judged)
    BY <1>4, <1>5, <1>6, DarkResumeStep
<1>7. CASE FinishRequest(m(after)) /\ state' = "IDLE"
    <2>1. Finishable(m(after))
        BY <1>5 DEF Attempted
    <2> QED BY <1>1, <1>7, <2>1, FinishStep, CanSuspendIs
<1>8. CASE HandleUnsuccessfulSuspend(m(after), judged) /\ inDark' = inDark
    BY <1>1, <1>5, <1>8, UnsuccessfulStep DEF TypeOK
<1> QED BY <1>2, <1>6, <1>7, <1>8 DEF HandleNormalResume

\* Steps that leave the members of a controller alone and end in SHUTTING_DOWN.
LEMMA ShutDownStep ==
    ASSUME IInv, queue # <<>>, powerd = "up", Signalled(Tail(queue)),
           state' = "SHUTTING_DOWN", sfs' \in ShutdownFromSuspendState,
           charge' \in ChargeLimitState,
           UNCHANGED <<delays, ids, request, attempts, count, resuspend, inDark, outside, process>>
    PROVE  IInv'
<1>1. /\ delays' = delays /\ requestId' = requestId /\ darkId' = darkId
      /\ request' = request /\ attempts' = attempts /\ count' = count
      /\ resuspend' = resuspend /\ inDark' = inDark /\ outside' = outside
      /\ powerd' = powerd /\ crashes' = crashes
    BY DEF ids, process
<1>2. /\ queue' \in Seq(Events) /\ shutdown' \in {"no", "postponed", "started"}
      /\ QueueInv' /\ ShutdownInv' /\ DownInv'
    BY <1>1, AfterEvent
<1>3. TypeOK'
    BY <1>1, <1>2, StatesAre DEF IInv, TypeOK
<1>4. state' # Normal /\ state' # Dark /\ state' # Retry /\ state' # "IDLE"
    BY StatesAre
<1>5. IdsInv'
    BY <1>1, <1>4, StatesAre DEF IInv, IdsInv
<1>6. /\ RetriesAreBounded' /\ ReadyInv' /\ WakeupInv' /\ FirstInv'
      /\ IdleIsClean' /\ ToldIsAnnounced'
    BY <1>1, <1>4, StatesAre
       DEF IInv, RetriesAreBounded, ReadyInv, WakeupInv, FirstInv, IdleIsClean, ToldIsAnnounced
<1> QED BY <1>2, <1>3, <1>5, <1>6 DEF IInv

\* Suspend() keeps it, which shuts down instead of an attempt when the alarm went off.
LEMMA SuspendStep ==
    ASSUME CanSuspend, Suspend
    PROVE  IInv'
<1>1. IInv /\ TypeOK /\ queue # <<>> /\ powerd = "up"
    BY DEF CanSuspend, IInv
<1>2. ASSUME NEW line \in BOOLEAN, NEW low \in BOOLEAN, ShutDownFromSuspend(line, low)
      PROVE  IInv'
    <2>1. Tail(queue) \in Seq(LaterEvents)
        BY <1>1 DEF IInv, QueueInv
    <2>2. Signalled(Tail(queue))
        BY <1>1, <1>2, <2>1, ShutDownSignals DEF ShutDownFromSuspend, TypeOK
    <2>3. sfs' \in ShutdownFromSuspendState
        BY <1>1, <1>2, ShutdownObjectIs DEF ShutDownFromSuspend, TypeOK
    <2>4. /\ UNCHANGED <<delays, ids, request, attempts, count, resuspend, inDark, outside,
                         process>>
          /\ state' = "SHUTTING_DOWN" /\ charge' \in ChargeLimitState
        BY <1>1, <1>2 DEF ShutDownFromSuspend, controllers, TypeOK
    <2> QED BY <1>1, <2>2, <2>3, <2>4, ShutDownStep
<1> QED BY <1>2, AttemptStep DEF Suspend

-----------------------------------------------------------------------------
(***************************************************************************)
(* The other events.                                                       *)
(***************************************************************************)

\* What PrepareForSuspend() leaves for a new request: something is waited for
\* and the timer runs, or readiness is posted.
LEMMA PrepareNormal ==
    ASSUME NEW k \in Controller, NEW id \in Nat
    PROVE  LET r == PrepareForSuspend(k, id, FALSE)
           IN  /\ r \in Controller
               /\ r.suspendId = id
               /\ \/ Running(r.maxTimer) /\ r.notify = k.notify
                  \/ /\ r.notify = id /\ r.notified
                     /\ r.waiting = {} /\ r.internal = {}
<1> DEFINE waits == Registered(k) # {} \/ k.internal # {}
           long == [k EXCEPT !.suspendId = id, !.waiting = Registered(k),
                             !.minTimer = k.minTimer, !.maxTimer = MaxTimeout(k)]
           short == [k EXCEPT !.suspendId = id, !.waiting = Registered(k),
                              !.minTimer = k.minTimer, !.maxTimer = k.maxTimer]
           r == PrepareForSuspend(k, id, FALSE)
<1>1. r \in Controller
    BY PrepareType
<1>2. CASE waits
    <2>1. r = long
        BY <1>2 DEF PrepareForSuspend
    <2>2. long.suspendId = id /\ long.maxTimer = MaxTimeout(k) /\ long.notify = k.notify
        BY DEF Controller
    <2>3. Running(MaxTimeout(k))
        BY MaxTimeoutType DEF Running, Off
    <2> QED BY <1>1, <2>1, <2>2, <2>3
<1>3. CASE ~waits
    <2>1. r = PostNotifyObserversTask(short)
        BY <1>3 DEF PrepareForSuspend
    <2>2. /\ short.suspendId = id /\ short.waiting = Registered(k)
          /\ short.internal = k.internal
          /\ PostNotifyObserversTask(short).suspendId = short.suspendId
          /\ PostNotifyObserversTask(short).notify = short.suspendId
          /\ PostNotifyObserversTask(short).notified = TRUE
          /\ PostNotifyObserversTask(short).waiting = short.waiting
          /\ PostNotifyObserversTask(short).internal = short.internal
        BY DEF Controller, PostNotifyObserversTask
    <2> HIDE DEF short
    <2> QED BY <1>1, <1>3, <2>1, <2>2
<1> QED BY <1>2, <1>3

\* StartRequest() keeps it: the new id is known to the controller that will be finished with it.
LEMMA StartRequestStep ==
    ASSUME IInv, queue # <<>>, powerd = "up", state = "IDLE",
           Head(queue) = "SUSPEND_REQUESTED", StartRequest, state' = Normal
    PROVE  IInv'
<1> DEFINE p == PrepareForSuspend(delays.normal, requestId + 1, FALSE)
<1>1. TypeOK /\ delays.normal \in Controller /\ delays.dark \in Controller
    BY DelaysAre DEF IInv, TypeOK
<1>2. requestId \in Nat /\ requestId + 1 \in Nat
    BY <1>1 DEF TypeOK
<1>3. /\ p \in Controller /\ p.suspendId = requestId + 1
      /\ \/ Running(p.maxTimer) /\ p.notify = delays.normal.notify
         \/ /\ p.notify = requestId + 1 /\ p.notified
            /\ p.waiting = {} /\ p.internal = {}
    BY <1>1, <1>2, PrepareNormal
<1>4. delays' = [normal |-> p, dark |-> delays.dark]
    BY <1>1 DEF StartRequest, TypeOK, Delays
<1> HIDE DEF p
<1>5. delays' \in Delays /\ delays'.normal = p /\ delays'.dark = delays.dark
    BY <1>1, <1>3, <1>4, DelaysOf
<1>6. delays.normal.notify \in Int /\ delays.normal.notify < requestId + 1
    <2>1. delays.normal.notify \in Int /\ delays.normal.suspendId \in Nat
        BY <1>1 DEF Controller, NoTask
    <2> QED BY <1>2, <2>1 DEF IInv, IdsInv
<1>7. /\ charge' = charge /\ sfs' = sfs /\ darkId' = darkId /\ request' = request
      /\ resuspend' = resuspend /\ inDark' = inDark /\ shutdown' = shutdown
      /\ powerd' = powerd /\ crashes' = crashes
      /\ requestId' = requestId + 1 /\ attempts' = 0 /\ queue' = Tail(queue)
    BY DEF StartRequest, process
<1>8. count' \in Counts
    BY DEF StartRequest, ReadSuspendWakeupCount, Counts
<1>9. outside' \in Outside /\ outside'.announced
    BY <1>1, StartStagesAre DEF StartRequest, IInv, ToldIsAnnounced, TypeOK
<1>10. Signalled(Tail(queue))
    BY <1>1, <1>7 DEF Signalled, TypeOK
<1>11. /\ queue' \in Seq(Events) /\ shutdown' \in {"no", "postponed", "started"}
       /\ QueueInv' /\ ShutdownInv' /\ DownInv'
       /\ ~Handling("SUSPEND_DELAYS_READY")' /\ ~Handling("READY_TO_RESUSPEND")'
    BY <1>7, <1>10, AfterEvent
<1>12. attempts' \in 0..MaxRetries /\ attempts' \in 0..(MaxRetries + 1)
    BY <1>7, SuspenderAssumption
<1>13. TypeOK'
    BY <1>1, <1>2, <1>5, <1>7, <1>8, <1>9, <1>11, <1>12, StatesAre DEF TypeOK
<1>14. RetriesAreBounded'
    BY <1>12 DEF RetriesAreBounded
<1>15. IdsInv'
    <2>1. Quiet(delays.dark)
        BY DEF IInv, IdleIsClean, Quiet, Controllers
    <2>2. p.notify <= p.suspendId
        BY <1>2, <1>3, <1>6
    <2> QED BY <1>2, <1>3, <1>5, <1>7, <2>1, <2>2, StatesAre DEF IdsInv
<1>16. ReadyInv' /\ WakeupInv'
    <2>1. p.notify = requestId + 1 => p.notified /\ p.waiting = {} /\ p.internal = {}
        BY <1>2, <1>3, <1>6
    <2> QED BY <1>3, <1>5, <1>7, <1>11, <2>1, StatesAre DEF ReadyInv, WakeupInv
<1>17. IdleIsClean' /\ ToldIsAnnounced'
    <2>1. state' # "IDLE"
        BY StatesAre
    <2> QED BY <1>9, <2>1 DEF IdleIsClean, ToldIsAnnounced
<1>18. FirstInv'
    BY <1>7 DEF FirstInv, IInv, IdleIsClean
<1> QED BY <1>11, <1>13, <1>14, <1>15, <1>16, <1>17, <1>18 DEF IInv

\* An event that is dropped, which is never the one a state waits for.
LEMMA DropEventStep ==
    ASSUME IInv, queue # <<>>, powerd = "up", queue' = Tail(queue),
           Head(queue) = "SHUTDOWN_STARTED" => state = "SHUTTING_DOWN",
           state = Normal => Head(queue) # "SUSPEND_DELAYS_READY",
           state \in {Dark, Retry} => Head(queue) # "READY_TO_RESUSPEND",
           UNCHANGED <<state, controllers, sfs, ids, request, attempts, count, resuspend,
                       inDark, signals, process>>
    PROVE  IInv'
<1>1. /\ state' = state /\ delays' = delays /\ charge' = charge /\ sfs' = sfs
      /\ requestId' = requestId /\ darkId' = darkId /\ request' = request
      /\ attempts' = attempts /\ count' = count /\ resuspend' = resuspend
      /\ inDark' = inDark /\ outside' = outside /\ shutdown' = shutdown
      /\ powerd' = powerd /\ crashes' = crashes
    BY DEF controllers, ids, signals, process
<1>2. Signalled(Tail(queue))
    BY <1>1 DEF Signalled, IInv, TypeOK
<1>3. /\ queue' \in Seq(Events) /\ shutdown' \in {"no", "postponed", "started"}
      /\ QueueInv' /\ ShutdownInv' /\ DownInv'
      /\ ~Handling("SUSPEND_DELAYS_READY")' /\ ~Handling("READY_TO_RESUSPEND")'
    BY <1>1, <1>2, AfterEvent
<1>4. TypeOK'
    BY <1>1, <1>3 DEF IInv, TypeOK
<1>5. RetriesAreBounded' /\ IdsInv' /\ IdleIsClean' /\ ToldIsAnnounced' /\ FirstInv'
    BY <1>1 DEF IInv, RetriesAreBounded, IdsInv, IdleIsClean, ToldIsAnnounced, FirstInv
<1>6. ReadyInv'
    BY <1>1, <1>3 DEF IInv, ReadyInv
<1>7. WakeupInv'
    BY <1>1, <1>3 DEF IInv, WakeupInv, Handling
<1> QED BY <1>3, <1>4, <1>5, <1>6, <1>7 DEF IInv

\* HandleEvent() keeps it, for every event in every state.
LEMMA HandleEventStep ==
    ASSUME IInv, HandleEvent
    PROVE  IInv'
<1>1. powerd = "up" /\ queue # <<>> /\ TypeOK
    BY DEF HandleEvent, IInv
<1> DEFINE event == Head(queue)
<1>2. ASSUME state \in WaitingStates
      PROVE  Finishable(Members)
    BY <1>2 DEF Finishable, Members, IInv, TypeOK, IdsInv, ToldIsAnnounced
<1>3. CASE state = "IDLE" /\ event = "SUSPEND_REQUESTED" /\ StartRequest /\ state' = Normal
    BY <1>1, <1>3, StartRequestStep
<1>4. CASE /\ event = "SHUTDOWN_STARTED" /\ state' = "SHUTTING_DOWN"
           /\ charge' = ChargeStopDischarge(charge) /\ queue' = Tail(queue)
           /\ UNCHANGED <<delays, sfs, ids, request, attempts, count, resuspend, inDark,
                          signals, process>>
    <2>1. /\ Signalled(Tail(queue)) /\ sfs' \in ShutdownFromSuspendState
          /\ charge' \in ChargeLimitState
          /\ UNCHANGED <<delays, ids, request, attempts, count, resuspend, inDark, outside,
                         process>>
        BY <1>1, <1>4, StopDischargeType DEF Signalled, TypeOK, signals
    <2> QED BY <1>1, <1>4, <2>1, ShutDownStep
<1>5. CASE /\ \/ state = Normal /\ event = "SUSPEND_DELAYS_READY"
              \/ state \in {Dark, Retry} /\ event = "READY_TO_RESUSPEND"
           /\ Suspend
    BY <1>1, <1>5, SuspendStep DEF CanSuspend
<1>6. CASE state \in WaitingStates /\ event \in WakeEvents /\ HandleWakeEventInSuspend(event)
    <2>1. event \notin {"SHUTDOWN_STARTED", "SUSPEND_DELAYS_READY", "READY_TO_RESUSPEND"}
        BY <1>6 DEF WakeEvents
    <2>2. CASE IgnoreWakeEvent(event)
        BY <1>1, <2>1, <2>2, DropEventStep DEF IgnoreWakeEvent
    <2>3. CASE FinishRequest(Members) /\ state' = "IDLE"
        BY <1>1, <1>2, <1>6, <2>1, <2>3, FinishStep, StatesAre
    <2> QED BY <1>6, <2>2, <2>3 DEF HandleWakeEventInSuspend
<1>7. CASE state \in WaitingStates /\ FinishRequest(Members) /\ state' = "SHUTTING_DOWN"
    BY <1>1, <1>2, <1>7, FinishStep
<1>8. CASE IgnoreEvent(event)
    <2>1. Ignored(event) /\ queue' = Tail(queue)
        BY <1>8 DEF IgnoreEvent
    <2>2. /\ event = "SHUTDOWN_STARTED" => state = "SHUTTING_DOWN"
          /\ state = Normal => event # "SUSPEND_DELAYS_READY"
          /\ state \in {Dark, Retry} => event # "READY_TO_RESUSPEND"
        BY <2>1, StatesAre DEF Ignored, Normal, Dark, Retry
    <2> QED BY <1>1, <1>8, <2>1, <2>2, DropEventStep DEF IgnoreEvent
<1> QED BY <1>3, <1>4, <1>5, <1>6, <1>7, <1>8 DEF HandleEvent, Dispatch, Normal, Dark, Retry

-----------------------------------------------------------------------------
(***************************************************************************)
(* The other tasks of the message loop.                                    *)
(***************************************************************************)

\* What a task other than the handling of an event leaves as it is, in the eyes
\* of the clients: a request may at most have less to wait for.
Same ==
    /\ state' = state /\ attempts' = attempts /\ inDark' = inDark
    /\ shutdown' = "started" <=> shutdown = "started"
    /\ delays'.normal.waiting \subseteq delays.normal.waiting

\* A task that is run with an empty queue and raises at most one event keeps
\* what the invariant says about the queue.
LEMMA AfterTask ==
    ASSUME IInv, LoopFree, powerd' = "up", state' = state,
           NEW e \in Events, queue' \in {queue, Append(queue, e)},
           shutdown' = "started" <=> shutdown = "started" \/ (e = "SHUTDOWN_STARTED" /\ queue' # queue)
    PROVE  /\ queue' \in Seq(Events) /\ QueueInv' /\ ShutdownInv' /\ DownInv'
           /\ queue' = <<>> \/ (queue' # <<>> /\ Head(queue') = e)
<1>1. queue = <<>>
    BY DEF LoopFree
<1>2. CASE queue' = <<>>
    <2>1. ~Has(queue, "SHUTDOWN_STARTED")
        BY <1>1 DEF Has
    <2> QED BY <1>1, <1>2, <2>1 DEF QueueInv, ShutdownInv, DownInv, IInv
<1>3. CASE queue' = Append(<<>>, e)
    <2>1. Has(Append(<<>>, e), e)
        <3>1. <<>> \in Seq(Events)
            OBVIOUS
        <3> QED BY <3>1, AppendHas
    <2>2. ~Has(queue, "SHUTDOWN_STARTED")
        BY <1>1 DEF Has
    <2> QED BY <1>1, <1>3, <2>1, <2>2, RaisedIs DEF QueueInv, ShutdownInv, DownInv, IInv
<1> QED BY <1>1, <1>2, <1>3

\* A task that does not touch the controllers, nor the timers that are waited for.
LEMMA RaiseStep ==
    ASSUME IInv, LoopFree, NEW e \in Events, queue' \in {queue, Append(queue, e)},
           e \notin {"SUSPEND_DELAYS_READY", "READY_TO_RESUSPEND"},
           shutdown' \in {"no", "postponed", "started"},
           shutdown' = "started" <=> shutdown = "started" \/ (e = "SHUTDOWN_STARTED" /\ queue' # queue),
           request' \in Requests, count' \in Counts, sfs' \in ShutdownFromSuspendState,
           sfs'.dark = sfs.dark, state = "IDLE" => sfs' = sfs,
           UNCHANGED <<state, controllers, ids, attempts, resuspend, inDark, outside, process>>
    PROVE  IInv' /\ ((shutdown' = "started" <=> shutdown = "started") => Same)
<1>1. /\ state' = state /\ delays' = delays /\ charge' = charge
      /\ requestId' = requestId /\ darkId' = darkId
      /\ attempts' = attempts /\ resuspend' = resuspend
      /\ inDark' = inDark /\ outside' = outside
      /\ powerd' = powerd /\ crashes' = crashes
    BY DEF controllers, ids, process
<1>2. powerd = "up" /\ queue = <<>>
    BY DEF LoopFree
<1>3. /\ queue' \in Seq(Events) /\ QueueInv' /\ ShutdownInv' /\ DownInv'
      /\ queue' = <<>> \/ (queue' # <<>> /\ Head(queue') = e)
    BY <1>1, <1>2, AfterTask
<1>4. TypeOK'
    BY <1>1, <1>3 DEF IInv, TypeOK
<1>5. RetriesAreBounded' /\ IdsInv' /\ IdleIsClean' /\ ToldIsAnnounced' /\ FirstInv'
    BY <1>1 DEF IInv, RetriesAreBounded, IdsInv, IdleIsClean, ToldIsAnnounced, FirstInv
<1>6. ~Handling("SUSPEND_DELAYS_READY") /\ ~Handling("READY_TO_RESUSPEND")
    BY <1>2 DEF Handling
<1>7. ~Handling("SUSPEND_DELAYS_READY")' /\ ~Handling("READY_TO_RESUSPEND")'
    BY <1>3 DEF Handling
<1>8. ReadyInv'
    BY <1>1, <1>7 DEF IInv, ReadyInv
<1>9. WakeupInv'
    BY <1>1, <1>6, <1>7 DEF IInv, WakeupInv
<1> QED BY <1>1, <1>3, <1>4, <1>5, <1>8, <1>9 DEF IInv, Same

\* A task that lets the controllers report readiness or wait for less.
LEMMA MovedStep ==
    ASSUME IInv, LoopFree, BothMoved(delays, delays'), charge' \in ChargeLimitState,
           UNCHANGED <<rest, queue, count>>
    PROVE  IInv' /\ Same
<1>1. /\ state' = state /\ sfs' = sfs /\ requestId' = requestId /\ darkId' = darkId
      /\ request' = request /\ attempts' = attempts /\ resuspend' = resuspend
      /\ inDark' = inDark /\ outside' = outside /\ shutdown' = shutdown
      /\ powerd' = powerd /\ crashes' = crashes /\ queue' = queue /\ count' = count
    BY DEF rest, ids, signals, process
<1>2. powerd = "up" /\ queue = <<>> /\ TypeOK
    BY DEF LoopFree, IInv
<1> DEFINE n == delays.normal
           d == delays.dark
           nn == delays'.normal
           dd == delays'.dark
<1>3. /\ n \in Controller /\ d \in Controller /\ nn \in Controller /\ dd \in Controller
      /\ delays' \in Delays /\ Moved(n, nn, delays) /\ Moved(d, dd, delays)
    BY <1>2, DelaysAre DEF BothMoved, TypeOK
<1>4. /\ nn.suspendId = n.suspendId /\ (n.notify <= n.suspendId => nn.notify <= nn.suspendId)
      /\ n.notified => nn.notified
      /\ dd.suspendId = d.suspendId
      /\ Quiet(n) => Quiet(nn)
      /\ Quiet(d) => Quiet(dd)
    BY <1>3, MovedIds, MovedQuiet
<1>5. ~Handling("SUSPEND_DELAYS_READY") /\ ~Handling("READY_TO_RESUSPEND")
    BY <1>2 DEF Handling
<1>6. ~Handling("SUSPEND_DELAYS_READY")' /\ ~Handling("READY_TO_RESUSPEND")'
    BY <1>1, <1>5 DEF Handling
<1>7. TypeOK'
    BY <1>1, <1>2, <1>3 DEF TypeOK
<1>8. RetriesAreBounded' /\ ToldIsAnnounced' /\ ShutdownInv' /\ DownInv' /\ QueueInv' /\ FirstInv'
    BY <1>1 DEF IInv, RetriesAreBounded, ToldIsAnnounced, ShutdownInv, DownInv, QueueInv, FirstInv
<1>9. IdleIsClean'
    BY <1>1, <1>4 DEF IInv, IdleIsClean, Quiet, Controllers
<1>10. IdsInv'
    BY <1>1, <1>4 DEF IInv, IdsInv
<1>11. ReadyInv'
    <2>1. CASE Reported(n, nn)
        BY <1>1, <1>4, <1>6, <2>1 DEF IInv, ReadyInv, Reported
    <2>2. CASE ~Reported(n, nn)
        BY <1>1, <1>3, <1>4, <1>6, <2>2 DEF IInv, ReadyInv, Moved, Accepting
    <2> QED BY <2>1, <2>2
<1>12. WakeupInv'
    <2>1. state = Normal => Running(nn.maxTimer) \/ nn.notify = requestId
        <3>1. CASE Reported(n, nn)
            BY <3>1, StatesAre DEF IInv, IdsInv, Reported
        <3>2. CASE ~Reported(n, nn)
            BY <1>3, <1>5, <3>2 DEF IInv, WakeupInv, Moved
        <3> QED BY <3>1, <3>2
    <2>2. ASSUME state = Dark
          PROVE  /\ Running(dd.maxTimer) \/ Running(dd.minTimer) \/ dd.notify = darkId
                 /\ Running(dd.maxTimer) \/ (dd.waiting = {} /\ dd.internal = {})
        <3>1. CASE Reported(d, dd)
            BY <2>2, <3>1 DEF IInv, IdsInv, Reported
        <3>2. CASE ~Reported(d, dd)
            <4>1. ~Accepting(delays)
                BY <2>2 DEF IInv, ReadyInv, Accepting
            <4> QED BY <1>3, <1>5, <2>2, <3>2, <4>1 DEF IInv, WakeupInv, Moved
        <3> QED BY <3>1, <3>2
    <2> QED BY <1>1, <1>5, <2>1, <2>2 DEF IInv, WakeupInv
<1>13. nn.waiting \subseteq n.waiting
    BY <1>3 DEF Moved, Reported
<1> QED BY <1>1, <1>7, <1>8, <1>9, <1>10, <1>11, <1>12, <1>13 DEF IInv, Same

-----------------------------------------------------------------------------
(***************************************************************************)
(* One controller among the two.                                           *)
(***************************************************************************)

\* Moving one of the controllers moves the pair.
LEMMA MovedOne ==
    ASSUME NEW ds \in Delays, NEW k \in Controllers, NEW r \in Controller,
           Reported(ds[k], r) \/ Reduced(ds[k], r)
    PROVE  BothMoved(ds, [ds EXCEPT ![k] = r])
<1>1. ds.normal \in Controller /\ ds.dark \in Controller
    BY DelaysAre
<1>2. Reduced(ds.normal, ds.normal) /\ Reduced(ds.dark, ds.dark)
    BY DEF Reduced
<1>3. CASE k = "normal"
    <2>1. [ds EXCEPT ![k] = r] = [normal |-> r, dark |-> ds.dark]
        <3>1. [ds EXCEPT !.normal = r] = [normal |-> r, dark |-> ds.dark]
            BY DEF Delays
        <3> QED BY <1>3, <3>1
    <2>2. Reported(ds.normal, r) \/ Reduced(ds.normal, r)
        BY <1>3
    <2> QED BY <1>1, <1>2, <2>1, <2>2, DelaysOf, EasedIsMoved DEF BothMoved
<1>4. CASE k = "dark"
    <2>1. [ds EXCEPT ![k] = r] = [normal |-> ds.normal, dark |-> r]
        <3>1. [ds EXCEPT !.dark = r] = [normal |-> ds.normal, dark |-> r]
            BY DEF Delays
        <3> QED BY <1>4, <3>1
    <2>2. Reported(ds.dark, r) \/ Reduced(ds.dark, r)
        BY <1>4
    <2> QED BY <1>1, <1>2, <2>1, <2>2, DelaysOf, EasedIsMoved DEF BothMoved
<1> QED BY <1>3, <1>4 DEF Controllers

\* A task of one controller that reports readiness or leaves less to wait for.
LEMMA ControllerTaskStep ==
    ASSUME IInv, NEW k \in Controllers, NEW r \in Controller,
           Reported(delays[k], r) \/ Reduced(delays[k], r), ControllerTask(k, r)
    PROVE  IInv' /\ Same
<1>1. delays \in Delays /\ charge \in ChargeLimitState
    BY DEF IInv, TypeOK
<1>2. BothMoved(delays, delays')
    BY <1>1, MovedOne DEF ControllerTask
<1> QED BY <1>1, <1>2, MovedStep DEF ControllerTask

\* Both controllers have their type.
LEMMA ControllerIs ==
    ASSUME IInv, NEW k \in Controllers
    PROVE  delays[k] \in Controller
BY DelaysAre DEF IInv, TypeOK, Controllers

\* Registering a delay keeps the invariant and tells Suspender nothing.
LEMMA RegisterStep ==
    ASSUME IInv, NEW k \in Controllers, NEW timeout \in Timeouts, NEW client \in Clients,
           Register(k, timeout, client)
    PROVE  IInv' /\ Same
<1> DEFINE r == RegisterSuspendDelay(delays[k], timeout, client)
<1>1. delays[k] \in Controller /\ delays[k].nextId \in DelayIds /\ timeout \in Int
    BY ControllerIs, SuspenderAssumption DEF Register
<1>2. r \in Controller
    BY <1>1, RegisterType
<1>3. Reduced(delays[k], r)
    BY <1>1 DEF RegisterSuspendDelay, Reduced, Controller
<1>4. ControllerTask(k, r)
    BY DEF Register
<1> HIDE DEF r
<1> QED BY <1>2, <1>3, <1>4, ControllerTaskStep

\* Neither does unregistering one, other than readiness.
LEMMA UnregisterStep ==
    ASSUME IInv, NEW k \in Controllers, NEW d \in DelayIds, Unregister(k, d)
    PROVE  IInv' /\ Same
<1> DEFINE r == UnregisterSuspendDelay(delays[k], d)
<1>1. delays[k] \in Controller /\ r \in Controller
    BY ControllerIs, ClientTypes
<1>2. Reduced(delays[k], delays[k])
    BY DEF Reduced
<1>3. Reported(delays[k], r) \/ Reduced(delays[k], r)
    BY <1>1, <1>2, UnregisterEffect DEF UnregisterSuspendDelay
<1>4. ControllerTask(k, r)
    BY DEF Unregister
<1> HIDE DEF r
<1> QED BY <1>1, <1>3, <1>4, ControllerTaskStep

\* A client's answer, for whatever delay and id.
LEMMA ReadinessStep ==
    ASSUME IInv, NEW k \in Controllers, NEW d \in DelayIds, NEW id, Readiness(k, d, id)
    PROVE  IInv' /\ Same
<1> DEFINE r == HandleSuspendReadiness(delays[k], d, id)
<1>1. delays[k] \in Controller /\ r \in Controller
    BY ControllerIs, ClientTypes
<1>2. Reduced(delays[k], delays[k])
    BY DEF Reduced
<1>3. Reported(delays[k], r) \/ Reduced(delays[k], r)
    BY <1>1, <1>2, RemoveEffect DEF HandleSuspendReadiness
<1>4. ControllerTask(k, r)
    BY DEF Readiness
<1> HIDE DEF r
<1> QED BY <1>1, <1>3, <1>4, ControllerTaskStep

\* The expiry of the longer timer.
LEMMA MaxDelayStep ==
    ASSUME IInv, NEW k \in Controllers, MaxDelayExpires(k)
    PROVE  IInv' /\ Same
<1> DEFINE r == OnMaxDelayExpiration(delays[k])
<1>1. delays[k] \in Controller /\ r \in Controller
    BY ControllerIs, CallbackTypes
<1>2. Reported(delays[k], r)
    BY <1>1 DEF OnMaxDelayExpiration, PostNotifyObserversTask, Reported, Controller
<1>3. ControllerTask(k, r)
    BY DEF MaxDelayExpires
<1> HIDE DEF r
<1> QED BY <1>1, <1>2, <1>3, ControllerTaskStep

\* The end of a client, which both controllers hear of.
LEMMA ClientGoneStep ==
    ASSUME IInv, NEW client, ClientGone(client)
    PROVE  IInv' /\ Same
<1> DEFINE n == HandleDBusClientDisconnected(delays.normal, client)
           d == HandleDBusClientDisconnected(delays.dark, client)
<1>1. delays \in Delays /\ delays.normal \in Controller /\ delays.dark \in Controller
    BY DelaysAre DEF IInv, TypeOK
<1>2. n \in Controller /\ d \in Controller
    BY <1>1, ClientTypes
<1>3. /\ Reported(delays.normal, n) \/ Reduced(delays.normal, n)
      /\ Reported(delays.dark, d) \/ Reduced(delays.dark, d)
    BY <1>1, UnregisterEffect DEF HandleDBusClientDisconnected
<1>4. delays' = [normal |-> n, dark |-> d] /\ LoopFree /\ UNCHANGED <<rest, queue, charge, count>>
    BY DEF ClientGone
<1> HIDE DEF n, d
<1>5. BothMoved(delays, delays')
    BY <1>2, <1>3, <1>4, DelaysOf, EasedIsMoved DEF BothMoved
<1>6. charge' \in ChargeLimitState /\ UNCHANGED <<rest, queue, count>>
    BY <1>4 DEF IInv, TypeOK
<1> QED BY <1>4, <1>5, <1>6, MovedStep

-----------------------------------------------------------------------------
(***************************************************************************)
(* Timers.                                                                 *)
(***************************************************************************)

\* What remains to be shown of a task that changes controllers and timers.
LEMMA TimerTaskStep ==
    ASSUME IInv, LoopFree, NEW e \in Events, e # "SHUTDOWN_STARTED",
           queue' \in {queue, Append(queue, e)},
           delays' \in Delays, charge' \in ChargeLimitState, count' \in Counts,
           resuspend' \in {Off} \cup 0..RetryDelay, resuspend = Off => resuspend' = Off,
           UNCHANGED <<state, sfs, ids, request, attempts, inDark, signals, process>>,
           delays'.normal.suspendId = delays.normal.suspendId,
           delays'.dark.suspendId = delays.dark.suspendId,
           delays'.normal.notify <= delays'.normal.suspendId,
           delays'.normal.waiting \subseteq delays.normal.waiting,
           Quiet(delays.normal) => Quiet(delays'.normal),
           Quiet(delays.dark) => Quiet(delays'.dark),
           ReadyInv', WakeupInv'
    PROVE  IInv' /\ Same
<1>1. /\ state' = state /\ sfs' = sfs /\ requestId' = requestId /\ darkId' = darkId
      /\ request' = request /\ attempts' = attempts
      /\ inDark' = inDark /\ outside' = outside /\ shutdown' = shutdown
      /\ powerd' = powerd /\ crashes' = crashes
    BY DEF ids, signals, process
<1>2. powerd = "up"
    BY DEF LoopFree
<1>3. queue' \in Seq(Events) /\ QueueInv' /\ ShutdownInv' /\ DownInv'
    BY <1>1, <1>2, AfterTask
<1>4. TypeOK'
    BY <1>1, <1>3 DEF IInv, TypeOK
<1>5. RetriesAreBounded' /\ ToldIsAnnounced' /\ FirstInv'
    BY <1>1 DEF IInv, RetriesAreBounded, ToldIsAnnounced, FirstInv
<1>6. IdsInv'
    BY <1>1 DEF IInv, IdsInv
<1>7. IdleIsClean'
    BY <1>1 DEF IInv, IdleIsClean, Quiet, Controllers
<1> QED BY <1>1, <1>3, <1>4, <1>5, <1>6, <1>7 DEF IInv, Same

\* The variables that a client's or timer's step leaves alone, by name.
LEMMA RestIs ==
    ASSUME UNCHANGED rest
    PROVE  /\ UNCHANGED <<state, sfs, ids, request, attempts, inDark, signals, process>>
           /\ resuspend' = resuspend /\ state' = state
           /\ requestId' = requestId /\ darkId' = darkId
BY DEF rest, ids

\* The expiry of the shorter timer.
LEMMA MinDelayStep ==
    ASSUME IInv, NEW k \in Controllers, MinDelayExpires(k)
    PROVE  IInv' /\ Same
<1> DEFINE c == delays[k]
           r == OnMinDelayExpiration(c)
<1>1. c \in Controller /\ r \in Controller /\ delays \in Delays
    BY ControllerIs, CallbackTypes DEF IInv, TypeOK
<1>2. /\ r.suspendId = c.suspendId /\ r.waiting = c.waiting /\ r.internal = c.internal
      /\ r.minTimer = Off
      /\ \/ /\ c.waiting = {} /\ c.internal = {} /\ r.maxTimer = Off
            /\ r.notify = c.suspendId /\ r.notified
         \/ /\ c.waiting # {} \/ c.internal # {}
            /\ r.maxTimer = c.maxTimer /\ r.notify = c.notify
            /\ r.notified = c.notified
    BY <1>1 DEF OnMinDelayExpiration, PostNotifyObserversTask, Controller
<1>3. LoopFree /\ delays' = [delays EXCEPT ![k] = r] /\ UNCHANGED <<rest, queue, charge, count>>
    BY DEF MinDelayExpires, ControllerTask
<1> HIDE DEF r
<1>4. /\ delays.normal \in Controller /\ delays.dark \in Controller
    BY <1>1, DelaysAre
<1>5. /\ delays' \in Delays
      /\ delays'.normal = IF k = "normal" THEN r ELSE delays.normal
      /\ delays'.dark = IF k = "dark" THEN r ELSE delays.dark
    BY <1>1, <1>3 DEF Delays, Controllers
<1>6. queue = <<>> /\ ~Handling("SUSPEND_DELAYS_READY") /\ ~Handling("READY_TO_RESUSPEND")
    BY <1>3 DEF LoopFree, Handling
<1>7. ~Handling("SUSPEND_DELAYS_READY")' /\ ~Handling("READY_TO_RESUSPEND")'
    BY <1>3, <1>6 DEF Handling
<1>8. /\ delays'.normal.suspendId = delays.normal.suspendId
      /\ delays'.normal.waiting \subseteq delays.normal.waiting
      /\ delays'.dark.suspendId = delays.dark.suspendId
      /\ Quiet(delays.normal) => Quiet(delays'.normal)
      /\ Quiet(delays.dark) => Quiet(delays'.dark)
    BY <1>2, <1>5 DEF Quiet, Controllers
<1>9. delays'.normal.notify <= delays'.normal.suspendId
    <2>1. delays.normal.suspendId \in Nat
        BY <1>4 DEF Controller
    <2>2. delays.normal.notify <= delays.normal.suspendId
        BY DEF IInv, IdsInv
    <2>3. CASE k = "normal"
        BY <1>2, <1>5, <2>1, <2>2, <2>3
    <2>4. CASE k = "dark"
        BY <1>5, <2>2, <2>4
    <2> QED BY <2>3, <2>4 DEF Controllers
<1>10. ReadyInv'
    <2>1. CASE k = "normal"
        BY <1>2, <1>3, <1>5, <1>7, <2>1, RestIs DEF IInv, ReadyInv
    <2>2. CASE k = "dark"
        BY <1>3, <1>5, <1>7, <2>2, RestIs DEF IInv, ReadyInv
    <2> QED BY <2>1, <2>2 DEF Controllers
<1>11. WakeupInv'
    <2>1. CASE k = "normal"
        BY <1>2, <1>3, <1>5, <1>6, <2>1, RestIs, StatesAre DEF IInv, WakeupInv, IdsInv
    <2>2. CASE k = "dark"
        BY <1>2, <1>3, <1>5, <1>6, <2>2, RestIs DEF IInv, WakeupInv, IdsInv
    <2> QED BY <2>1, <2>2 DEF Controllers
<1>12. /\ charge' \in ChargeLimitState /\ count' \in Counts
       /\ resuspend' \in {Off} \cup 0..RetryDelay
    BY <1>3, RestIs DEF IInv, TypeOK
<1>13. "NEW_DISPLAY" \in Events /\ "NEW_DISPLAY" # "SHUTDOWN_STARTED"
    BY DEF Events, WakeEvents
<1> QED BY <1>3, <1>5, <1>8, <1>9, <1>10, <1>11, <1>12, <1>13, RestIs, TimerTaskStep

\* Delivering a notification takes it from the controller and changes nothing else.
LEMMA NotifiedIs ==
    ASSUME NEW k \in Controller
    PROVE  LET r == NotifyObservers(k)
           IN  /\ r \in Controller /\ r.notify = NoTask
               /\ r.suspendId = k.suspendId /\ r.waiting = k.waiting
               /\ r.internal = k.internal /\ r.maxTimer = k.maxTimer
               /\ r.minTimer = k.minTimer /\ r.notified = k.notified
<1>1. NotifyObservers(k) \in Controller
    BY CallbackTypes
<1> QED BY <1>1 DEF NotifyObservers, Controller

\* Readiness for the current request is handed to HandleEvent(), readiness for
\* an earlier one is dropped.
LEMMA NotifyNormalStep ==
    ASSUME IInv, NotifyNormal
    PROVE  IInv' /\ Same
<1> DEFINE n == delays.normal
           r == NotifyObservers(n)
           e == "SUSPEND_DELAYS_READY"
<1>1. TypeOK /\ delays \in Delays /\ n \in Controller /\ delays.dark \in Controller
    BY DelaysAre DEF IInv, TypeOK
<1>2. /\ r \in Controller /\ r.notify = NoTask /\ r.suspendId = n.suspendId
      /\ r.waiting = n.waiting /\ r.internal = n.internal /\ r.maxTimer = n.maxTimer
      /\ r.minTimer = n.minTimer /\ r.notified = n.notified
    BY <1>1, NotifiedIs
<1>3. /\ LoopFree /\ UNCHANGED <<rest, charge, count>>
      /\ \/ n.notify = requestId /\ queue' = Append(queue, e)
         \/ n.notify # requestId /\ queue' = queue
    BY DEF NotifyNormal, Raise
<1>4. delays' = [normal |-> r, dark |-> delays.dark]
    BY <1>1 DEF NotifyNormal, Delays
<1> HIDE DEF r
<1>5. delays' \in Delays /\ delays'.normal = r /\ delays'.dark = delays.dark
    BY <1>1, <1>2, <1>4, DelaysOf
<1>6. e \in Events /\ e # "SHUTDOWN_STARTED" /\ e # "READY_TO_RESUSPEND"
    BY DEF Events
<1>7. queue = <<>> /\ ~Handling(e) /\ ~Handling("READY_TO_RESUSPEND")
    BY <1>3 DEF LoopFree, Handling
<1>8. /\ ~Handling("READY_TO_RESUSPEND")'
      /\ Handling(e)' <=> n.notify = requestId
    BY <1>3, <1>6, <1>7, RaisedIs DEF Handling
<1>9. r.notify <= r.suspendId
    BY <1>2 DEF Controller, NoTask
<1>10. ReadyInv'
    <2>1. r.notify # requestId
        BY <1>1, <1>2 DEF TypeOK, NoTask
    <2> QED BY <1>2, <1>3, <1>5, <1>8, <2>1, RestIs DEF IInv, ReadyInv
<1>11. WakeupInv'
    BY <1>2, <1>3, <1>5, <1>7, <1>8, RestIs DEF IInv, WakeupInv
<1>12. /\ charge' \in ChargeLimitState /\ count' \in Counts
       /\ resuspend' \in {Off} \cup 0..RetryDelay
    BY <1>1, <1>3, RestIs DEF TypeOK
<1>13. Quiet(n) => Quiet(r)
    BY <1>2 DEF Quiet
<1> QED BY <1>2, <1>3, <1>5, <1>6, <1>9, <1>10, <1>11, <1>12, <1>13, RestIs, TimerTaskStep

\* A dark notification that is delivered, for the current id or a stale one.
LEMMA NotifyDarkStep ==
    ASSUME IInv, NotifyDark
    PROVE  IInv' /\ Same
<1> DEFINE d == delays.dark
           r == NotifyObservers(d)
           e == "READY_TO_RESUSPEND"
<1>1. TypeOK /\ delays \in Delays /\ d \in Controller /\ delays.normal \in Controller
    BY DelaysAre DEF IInv, TypeOK
<1>2. /\ r \in Controller /\ r.notify = NoTask /\ r.suspendId = d.suspendId
      /\ r.waiting = d.waiting /\ r.internal = d.internal /\ r.maxTimer = d.maxTimer
      /\ r.minTimer = d.minTimer /\ r.notified = d.notified
    BY <1>1, NotifiedIs
<1>3. /\ LoopFree /\ UNCHANGED <<rest, charge>>
      /\ \/ d.notify = darkId /\ queue' = Append(queue, e)
         \/ d.notify # darkId /\ queue' = queue
    BY DEF NotifyDark, Raise
<1>4. count' \in Counts
    BY <1>1 DEF NotifyDark, ReadSuspendWakeupCount, Counts, TypeOK
<1>5. delays' = [normal |-> delays.normal, dark |-> r]
    BY <1>1 DEF NotifyDark, Delays
<1> HIDE DEF r
<1>6. delays' \in Delays /\ delays'.dark = r /\ delays'.normal = delays.normal
    BY <1>1, <1>2, <1>5, DelaysOf
<1>7. e \in Events /\ e # "SHUTDOWN_STARTED" /\ e # "SUSPEND_DELAYS_READY"
    BY DEF Events
<1>8. queue = <<>> /\ ~Handling(e) /\ ~Handling("SUSPEND_DELAYS_READY")
    BY <1>3 DEF LoopFree, Handling
<1>9. /\ ~Handling("SUSPEND_DELAYS_READY")'
      /\ d.notify = darkId => Handling(e)'
    BY <1>3, <1>7, <1>8, RaisedIs DEF Handling
<1>10. ReadyInv'
    BY <1>3, <1>6, <1>9, RestIs DEF IInv, ReadyInv
<1>11. WakeupInv'
    BY <1>2, <1>3, <1>6, <1>8, <1>9, RestIs DEF IInv, WakeupInv
<1>12. /\ charge' \in ChargeLimitState
       /\ resuspend' \in {Off} \cup 0..RetryDelay
       /\ delays'.normal.notify <= delays'.normal.suspendId
    BY <1>1, <1>3, <1>6, RestIs DEF TypeOK, IInv, IdsInv
<1>13. Quiet(d) => Quiet(r)
    BY <1>2 DEF Quiet
<1> QED BY <1>2, <1>3, <1>4, <1>6, <1>7, <1>10, <1>11, <1>12, <1>13, RestIs, TimerTaskStep

\* The expiry of the retry timer.
LEMMA ResuspendStep ==
    ASSUME IInv, ResuspendTimerFires
    PROVE  IInv' /\ Same
<1> DEFINE e == "READY_TO_RESUSPEND"
<1>1. /\ LoopFree /\ resuspend' = Off /\ queue' = Append(queue, e)
      /\ delays' = delays /\ charge' = charge /\ count' = count
      /\ state' = state /\ requestId' = requestId /\ darkId' = darkId
      /\ UNCHANGED <<state, sfs, ids, request, attempts, inDark, signals, process>>
    BY DEF ResuspendTimerFires, Raise, controllers, ids
<1>2. e \in Events /\ e # "SHUTDOWN_STARTED" /\ e # "SUSPEND_DELAYS_READY"
    BY DEF Events
<1>3. queue = <<>> /\ ~Handling(e) /\ ~Handling("SUSPEND_DELAYS_READY")
    BY <1>1 DEF LoopFree, Handling
<1>4. Handling(e)' /\ ~Handling("SUSPEND_DELAYS_READY")'
    BY <1>1, <1>2, <1>3, RaisedIs DEF Handling
<1>5. ReadyInv'
    BY <1>1, <1>4 DEF IInv, ReadyInv
<1>6. WakeupInv'
    BY <1>1, <1>3, <1>4 DEF IInv, WakeupInv
<1>7. /\ delays' \in Delays /\ charge' \in ChargeLimitState /\ count' \in Counts
      /\ delays'.normal.notify <= delays'.normal.suspendId
    BY <1>1 DEF IInv, TypeOK, IdsInv
<1> QED BY <1>1, <1>2, <1>5, <1>6, <1>7, TimerTaskStep

\* The passing of time.
LEMMA TickStep ==
    ASSUME IInv, Tick
    PROVE  IInv' /\ Same
<1> DEFINE n == PassTime(delays.normal, 1)
           d == PassTime(delays.dark, 1)
<1>1. TypeOK /\ delays.normal \in Controller /\ delays.dark \in Controller
    BY DelaysAre DEF IInv, TypeOK
<1>2. /\ n \in Controller /\ d \in Controller
      /\ n.suspendId = delays.normal.suspendId /\ n.waiting = delays.normal.waiting
      /\ n.internal = delays.normal.internal /\ n.notify = delays.normal.notify
      /\ n.notified = delays.normal.notified
      /\ Running(n.maxTimer) <=> Running(delays.normal.maxTimer)
      /\ d.suspendId = delays.dark.suspendId /\ d.waiting = delays.dark.waiting
      /\ d.internal = delays.dark.internal /\ d.notify = delays.dark.notify
      /\ Running(d.maxTimer) <=> Running(delays.dark.maxTimer)
      /\ Running(d.minTimer) <=> Running(delays.dark.minTimer)
    BY <1>1, PassTimeEffect
<1>3. /\ Quiet(delays.normal) => Quiet(n)
      /\ Quiet(delays.dark) => Quiet(d)
    BY <1>1, PassTimeQuiet
<1>4. /\ LoopFree /\ delays' = [normal |-> n, dark |-> d] /\ queue' = queue
      /\ charge' = [charge EXCEPT !.timer = Advance(@, 1)]
      /\ resuspend' = Advance(resuspend, 1) /\ count' = count
      /\ state' = state /\ requestId' = requestId /\ darkId' = darkId
      /\ UNCHANGED <<state, sfs, ids, request, attempts, inDark, signals, process>>
    BY DEF Tick, ids
<1> HIDE DEF n, d
<1>5. delays' \in Delays /\ delays'.normal = n /\ delays'.dark = d
    BY <1>2, <1>4, DelaysOf
<1>6. charge' \in ChargeLimitState
    <2> DEFINE t == Advance(charge.timer, 1)
    <2>1. /\ charge \in ChargeLimitState /\ charge.timer \in {Off} \cup 0..DischargeDelay
          /\ charge.timer \in Int /\ (charge.timer = Off \/ charge.timer >= 0)
        BY <1>1, ChargeLimitAssumption DEF TypeOK, ChargeLimitState, Off
    <2>2. t \in {Off} \cup 0..DischargeDelay
        BY <2>1, AdvanceRuns, ChargeLimitAssumption
    <2>3. charge' = [charge EXCEPT !.timer = t]
        BY <1>4
    <2> HIDE DEF t
    <2> QED BY <2>1, <2>2, <2>3 DEF ChargeLimitState
<1>7. /\ resuspend' \in {Off} \cup 0..RetryDelay
      /\ Running(resuspend') <=> Running(resuspend)
    <2>1. /\ resuspend \in {Off} \cup 0..RetryDelay
          /\ resuspend \in Int /\ (resuspend = Off \/ resuspend >= 0)
        BY <1>1, SuspenderAssumption DEF TypeOK, Off
    <2> QED BY <1>4, <2>1, AdvanceRuns, SuspenderAssumption
<1>8. resuspend = Off => resuspend' = Off
    BY <1>7 DEF Running
<1>9. \A e : Handling(e)' <=> Handling(e)
    BY <1>4 DEF Handling
<1>10. ReadyInv'
    BY <1>2, <1>4, <1>5, <1>9 DEF IInv, ReadyInv
<1>11. WakeupInv'
    BY <1>2, <1>4, <1>5, <1>7, <1>9 DEF IInv, WakeupInv
<1>12. count' \in Counts /\ delays'.normal.notify <= delays'.normal.suspendId
    BY <1>1, <1>2, <1>4, <1>5 DEF IInv, TypeOK, IdsInv
<1>13. "NEW_DISPLAY" \in Events /\ "NEW_DISPLAY" # "SHUTDOWN_STARTED"
    BY DEF Events, WakeEvents
<1> QED BY <1>2, <1>3, <1>4, <1>5, <1>6, <1>7, <1>8, <1>10, <1>11, <1>12, <1>13, TimerTaskStep

-----------------------------------------------------------------------------
(***************************************************************************)
(* Charge Limit.                                                           *)
(***************************************************************************)

\* Delay controllers and Charge Limit as Charge Limit's methods see them.
LEMMA HereIs ==
    ASSUME IInv
    PROVE  Here \in World /\ Here.delays = delays /\ Here.charge = charge
BY DEF IInv, TypeOK, Here, World

\* Whatever Charge Limit does outside of Suspender's handlers keeps the invariant.
LEMMA ChargeTaskStep ==
    ASSUME IInv, NEW w, Carried(Here, w), ChargeTask(w)
    PROVE  IInv' /\ Same
BY HereIs, MovedStep DEF ChargeTask, Carried

\* A policy update.
LEMMA PolicyStepKeeps ==
    ASSUME IInv, PolicyStep
    PROVE  IInv' /\ Same
<1>1. PICK policy \in PolicyChanges, ec \in ChargerOutcomes :
          ChargeTask(ChargeHandlePolicyChange(Here, policy.enable, policy.restart, ec))
    BY DEF PolicyStep, PolicyChange
<1>2. policy.enable \in BOOLEAN /\ policy.restart \in BOOLEAN
    BY InputAssumption DEF Policies
<1>3. Carried(Here, ChargeHandlePolicyChange(Here, policy.enable, policy.restart, ec))
    BY <1>2, HereIs, PolicyEffect
<1> QED BY <1>1, <1>3, ChargeTaskStep

\* A member of Charge Limit is assigned and the feature goes on from there.
LEMMA ChargeUpdated ==
    ASSUME IInv, NEW g \in ChargeLimitState
    PROVE  /\ [delays |-> delays, charge |-> g] \in World
           /\ \A v : Carried([delays |-> delays, charge |-> g], v) => Carried(Here, v)
BY HereIs DEF IInv, TypeOK, World, Carried

\* The delayed start of Charge Limit and the end of its discharge.
LEMMA ChargeTimersStep ==
    ASSUME IInv, NEW ec \in ChargerOutcomes, PostedStartChargeLimit(ec) \/ DischargeTimerFires(ec)
    PROVE  IInv' /\ Same
<1>1. charge \in ChargeLimitState /\ delays \in Delays
    BY DEF IInv, TypeOK
<1>2. CASE PostedStartChargeLimit(ec)
    <2> DEFINE g == [charge EXCEPT !.posted = FALSE]
               w == [delays |-> delays, charge |-> g]
    <2>1. g \in ChargeLimitState
        BY <1>1, ChargeUpdates
    <2>2. [Here EXCEPT !.charge.posted = FALSE] = w
        <3>1. \A b : [Here EXCEPT !.charge.posted = b]
                        = [delays |-> delays, charge |-> [charge EXCEPT !.posted = b]]
            BY DEF Here
        <3> QED BY <3>1
    <2>3. ChargeTask(w) \/ ChargeTask(StartChargeLimit(w, ec))
        BY <1>2, <2>2 DEF PostedStartChargeLimit
    <2> HIDE DEF g
    <2>4. w \in World /\ Carried(w, w)
        BY <1>1, <2>1, ChargeUpdated, NotMoved DEF Carried
    <2>5. Carried(Here, w) /\ Carried(Here, StartChargeLimit(w, ec))
        BY <2>1, <2>4, ChargeUpdated, StartEffect
    <2> HIDE DEF w
    <2> QED BY <2>3, <2>5, ChargeTaskStep
<1>3. CASE DischargeTimerFires(ec)
    <2> DEFINE g == [charge EXCEPT !.timer = Off]
               w == [delays |-> delays, charge |-> g]
    <2>1. g \in ChargeLimitState
        BY <1>1, ChargeUpdates
    <2>2. [Here EXCEPT !.charge.timer = Off] = w
        BY DEF Here
    <2>3. ChargeTask(CompleteChargeLimit(w, ec))
        BY <1>3, <2>2 DEF DischargeTimerFires
    <2> HIDE DEF g
    <2>4. Carried(w, CompleteChargeLimit(w, ec))
        BY <1>1, <2>1, CompleteEffect
    <2>5. Carried(Here, CompleteChargeLimit(w, ec))
        BY <2>1, <2>4, ChargeUpdated
    <2> HIDE DEF w
    <2> QED BY <2>3, <2>5, ChargeTaskStep
<1> QED BY <1>2, <1>3

-----------------------------------------------------------------------------
(***************************************************************************)
(* Requests, wake events, shutdowns, the alarm and the kernel.             *)
(***************************************************************************)

\* A suspend request over D-Bus.
LEMMA RequestStep ==
    ASSUME IInv, SuspendRequested
    PROVE  IInv' /\ Same
<1>1. PICK r \in RequestKinds : RequestSuspend(r, queue)
    BY DEF SuspendRequested
<1>2. "SUSPEND_REQUESTED" \in Events
    BY DEF Events
<1>3. /\ LoopFree /\ queue' = Append(queue, "SUSPEND_REQUESTED")
      /\ request' \in Requests /\ shutdown' = shutdown
      /\ shutdown' \in {"no", "postponed", "started"} /\ count' \in Counts
      /\ sfs' = sfs /\ sfs' \in ShutdownFromSuspendState
      /\ UNCHANGED <<state, controllers, ids, attempts, resuspend, inDark, outside, process>>
    BY <1>1, InputAssumption DEF SuspendRequested, RequestSuspend, IInv, TypeOK
<1> QED BY <1>2, <1>3, RaiseStep

\* User activity and its like, which may end a request.
LEMMA WakeEventStep ==
    ASSUME IInv, NEW event \in WakeEvents, WakeEventSeen(event)
    PROVE  IInv' /\ Same
<1>1. /\ event \in Events /\ event # "SHUTDOWN_STARTED"
      /\ event \notin {"SUSPEND_DELAYS_READY", "READY_TO_RESUSPEND"}
    BY DEF Events, WakeEvents
<1>2. /\ LoopFree /\ queue' = Append(queue, event)
      /\ request' \in Requests /\ shutdown' = shutdown
      /\ shutdown' \in {"no", "postponed", "started"} /\ count' \in Counts
      /\ sfs' = sfs /\ sfs' \in ShutdownFromSuspendState
      /\ UNCHANGED <<state, controllers, ids, attempts, resuspend, inDark, outside, process>>
    BY DEF WakeEventSeen, Raise, IInv, TypeOK, rest, signals
<1> QED BY <1>1, <1>2, RaiseStep

\* A request to shut down, which a lockfile may postpone.
LEMMA ShutDownRequestStep ==
    ASSUME IInv, ShutDownRequested
    PROVE  IInv'
<1>1. "SHUTDOWN_STARTED" \in Events
    BY DEF Events
<1>2. /\ LoopFree /\ queue' \in {queue, Append(queue, "SHUTDOWN_STARTED")}
      /\ shutdown' \in {"no", "postponed", "started"}
      /\ shutdown # "started"
      /\ shutdown' = "started" <=> queue' = Append(queue, "SHUTDOWN_STARTED")
      /\ request' \in Requests /\ count' \in Counts
      /\ sfs' = sfs /\ sfs' \in ShutdownFromSuspendState
      /\ UNCHANGED <<state, controllers, ids, attempts, resuspend, inDark, outside, process>>
    BY DEF ShutDownRequested, ShutDown, IInv, TypeOK
<1>3. Append(queue, "SHUTDOWN_STARTED") # queue
    BY <1>1, <1>2, RaisedIs DEF LoopFree
<1> QED BY <1>1, <1>2, <1>3, RaiseStep

\* The alarm of ShutdownFromSuspend.
LEMMA AlarmStep ==
    ASSUME IInv, ShutdownAlarm
    PROVE  IInv' /\ Same
<1>1. "SUSPEND_REQUESTED" \in Events
    BY DEF Events
<1>2. /\ LoopFree /\ queue' = queue /\ shutdown' = shutdown
      /\ shutdown' \in {"no", "postponed", "started"}
      /\ request' \in Requests /\ count' \in Counts
      /\ sfs.timer /\ sfs' = OnShutdownTimerWake(sfs) /\ sfs \in ShutdownFromSuspendState
      /\ UNCHANGED <<state, controllers, ids, attempts, resuspend, inDark, outside, process>>
    BY DEF ShutdownAlarm, IInv, TypeOK, signals
<1>3. state # "IDLE"
    BY <1>2 DEF IInv, IdleIsClean
<1>4. sfs' \in ShutdownFromSuspendState /\ sfs'.dark = sfs.dark
    BY <1>2, ShutdownObjectIs DEF OnShutdownTimerWake, ShutdownFromSuspendState
<1> QED BY <1>1, <1>2, <1>3, <1>4, RaiseStep

\* A wakeup event that the kernel counts.
LEMMA KernelStep ==
    ASSUME IInv, KernelActivity
    PROVE  IInv' /\ Same
<1>1. "SUSPEND_REQUESTED" \in Events
    BY DEF Events
<1>2. /\ LoopFree /\ queue' = queue /\ shutdown' = shutdown
      /\ shutdown' \in {"no", "postponed", "started"}
      /\ request' \in Requests /\ count' \in Counts
      /\ sfs' = sfs /\ sfs' \in ShutdownFromSuspendState
      /\ UNCHANGED <<state, controllers, ids, attempts, resuspend, inDark, outside, process>>
    BY DEF KernelActivity, IInv, TypeOK, rest, signals, Counts
<1> QED BY <1>1, <1>2, RaiseStep

-----------------------------------------------------------------------------
(***************************************************************************)
(* Crashes.                                                                *)
(***************************************************************************)

\* Whatever a crash interrupts, nobody has been told of a request for which there
\* is no file.
LEMMA InterruptedIs ==
    ASSUME IInv, NEW x \in {outside} \cup Interrupted
    PROVE  x \in Outside /\ (x.told => x.announced)
<1>1. outside \in Outside /\ (outside.told => outside.announced)
    BY DEF IInv, TypeOK, ToldIsAnnounced
<1> DEFINE a == SuspendAudioStages(outside)[2]
<1>2. a \in Outside /\ (a.told => a.announced)
    BY <1>1, AudioStagesAre
<1>3. \/ x = outside \/ x \in Elements(StartRequestStages(outside))
      \/ x \in Elements(FinishRequestStages(outside))
      \/ x \in Elements(SuspendAudioStages(outside))
      \/ x \in Elements(FinishRequestStages(a))
    BY DEF Interrupted
<1> HIDE DEF a
<1>4. CASE x = outside
    BY <1>1, <1>4
<1>5. CASE x \in Elements(StartRequestStages(outside))
    BY <1>1, <1>5, StartStagesAre
<1>6. CASE x \in Elements(FinishRequestStages(outside))
    BY <1>1, <1>6, FinishStagesAre
<1>7. CASE x \in Elements(SuspendAudioStages(outside))
    BY <1>1, <1>7, AudioStagesAre
<1>8. CASE x \in Elements(FinishRequestStages(a))
    BY <1>2, <1>8, FinishStagesAre
<1> QED BY <1>3, <1>4, <1>5, <1>6, <1>7, <1>8

\* A crash, at every stage of the handler that was running.
LEMMA CrashStep ==
    ASSUME IInv, Crash
    PROVE  IInv'
<1>1. TypeOK /\ delays.normal \in Controller /\ delays.dark \in Controller
    BY DelaysAre DEF IInv, TypeOK
<1>2. delays.normal.nextId \in Nat /\ delays.dark.nextId \in Nat
    BY <1>1 DEF Controller
<1> DEFINE n == NewController(delays.normal.nextId)
           d == NewController(delays.dark.nextId)
<1>3. /\ n \in Controller /\ Quiet(n) /\ n.suspendId = 0 /\ n.notify = NoTask
      /\ d \in Controller /\ Quiet(d)
    BY <1>2, NewControllerIs
<1>4. /\ delays' = [normal |-> n, dark |-> d] /\ powerd' = "down" /\ crashes' = crashes + 1
      /\ outside' \in {outside} \cup Interrupted /\ state' = "IDLE" /\ queue' = <<>>
      /\ charge' = NewChargeLimit /\ sfs' = NewShutdownFromSuspend
      /\ request' = DefaultRequest /\ attempts' = 0 /\ count' = "invalid"
      /\ resuspend' = Off /\ inDark' = FALSE /\ shutdown' = "no"
      /\ requestId' = requestId /\ darkId' = darkId /\ crashes < MaxCrashes
    BY DEF Crash, ids
<1> HIDE DEF n, d
<1>5. delays' \in Delays /\ delays'.normal = n /\ delays'.dark = d
    BY <1>3, <1>4, DelaysOf
<1>6. outside' \in Outside /\ (outside'.told => outside'.announced)
    BY <1>4, InterruptedIs
<1>7. crashes' \in 0..MaxCrashes /\ crashes' > 0
    BY <1>1, <1>4, SuspenderAssumption DEF TypeOK
<1>8. queue' \in Seq(Events) /\ 0 \in 0..(MaxRetries + 1)
    BY <1>4, SuspenderAssumption
<1>9. TypeOK'
    BY <1>1, <1>4, <1>5, <1>6, <1>7, <1>8, NewOthersAre, StatesAre DEF TypeOK, Counts
<1>10. /\ RetriesAreBounded' /\ ReadyInv' /\ WakeupInv' /\ FirstInv'
       /\ ShutdownInv' /\ QueueInv' /\ DownInv'
    BY <1>4, <1>7, StatesAre, NothingHas
       DEF RetriesAreBounded, ReadyInv, WakeupInv, FirstInv, ShutdownInv, QueueInv, DownInv
<1>11. IdsInv'
    BY <1>1, <1>3, <1>4, <1>5, StatesAre DEF IdsInv, TypeOK, NoTask
<1>12. IdleIsClean'
    <2>1. crashes' # 0
        BY <1>7, <1>1, <1>4 DEF TypeOK
    <2> QED BY <1>3, <1>4, <1>5, <2>1, NewOthersAre DEF IdleIsClean, Quiet, Controllers
<1>13. ToldIsAnnounced'
    BY <1>4, <1>6 DEF ToldIsAnnounced
<1> QED BY <1>9, <1>10, <1>11, <1>12, <1>13 DEF IInv

\* A restart, which finds the files the crash has left.
LEMMA RestartStep ==
    ASSUME IInv, Restart
    PROVE  IInv'
<1>1. TypeOK /\ powerd = "down" /\ state = "IDLE" /\ queue = <<>> /\ crashes > 0
      /\ outside \in Outside /\ (outside.told => outside.announced)
    BY DEF IInv, Restart, DownInv, TypeOK, ToldIsAnnounced
<1>2. /\ state' = state /\ queue' = queue /\ delays' = delays /\ charge' = charge /\ sfs' = sfs
      /\ requestId' = requestId /\ darkId' = darkId /\ request' = request
      /\ attempts' = attempts /\ count' = count /\ resuspend' = resuspend
      /\ inDark' = inDark /\ shutdown' = shutdown
    BY DEF Restart, controllers, ids
<1>3. /\ crashes' \in 0..MaxCrashes /\ crashes' > 0 /\ powerd' \in {"up", "down"}
    BY <1>1, SuspenderAssumption DEF Restart, TypeOK
<1>4. /\ outside' \in Outside /\ (outside'.told => outside'.announced)
      /\ powerd' = "up" => ~outside'.told /\ ~outside'.announced /\ ~outside'.audioFile
    <2>1. CASE powerd' = "up" /\ outside' = InitStages(outside)[4]
        BY <1>1, <2>1, InitStagesAre
    <2>2. CASE outside' \in Elements(InitStages(outside)) /\ powerd' = powerd
        BY <1>1, <2>2, InitStagesAre
    <2> QED BY <2>1, <2>2 DEF Restart
<1>5. TypeOK'
    BY <1>1, <1>2, <1>3, <1>4 DEF TypeOK
<1>6. /\ RetriesAreBounded' /\ ReadyInv' /\ WakeupInv' /\ FirstInv'
      /\ ShutdownInv' /\ QueueInv' /\ DownInv'
    BY <1>1, <1>2, <1>3, StatesAre
       DEF IInv, RetriesAreBounded, ReadyInv, WakeupInv, FirstInv, ShutdownInv, QueueInv,
           DownInv, Handling
<1>7. IdsInv'
    BY <1>2 DEF IInv, IdsInv
<1>8. IdleIsClean'
    <2>1. crashes' # 0
        BY <1>3
    <2> QED BY <1>1, <1>2, <1>4, <2>1 DEF IInv, IdleIsClean
<1>9. ToldIsAnnounced'
    BY <1>4 DEF ToldIsAnnounced
<1> QED BY <1>5, <1>6, <1>7, <1>8, <1>9 DEF IInv

-----------------------------------------------------------------------------
(***************************************************************************)
(* Together.                                                               *)
(***************************************************************************)

\* The invariant holds at the start.
LEMMA InitHolds == Init => IInv
<1> SUFFICES ASSUME Init PROVE IInv
    OBVIOUS
<1> DEFINE n == NewController(1)
<1>1. /\ n \in Controller /\ Quiet(n) /\ n.suspendId = 0 /\ n.notify = NoTask
    BY NewControllerIs
<1>2. delays = [normal |-> n, dark |-> n]
    BY DEF Init
<1> HIDE DEF n
<1>3. delays \in Delays /\ delays.normal = n /\ delays.dark = n
    BY <1>1, <1>2, DelaysOf
<1>4. /\ outside \in Outside /\ ~outside.told /\ ~outside.announced
      /\ ~outside.audio /\ ~outside.audioFile
    BY DEF Init, Outside
<1>5. /\ queue \in Seq(Events) /\ 0 \in 0..(MaxRetries + 1) /\ 0 \in 0..MaxCrashes
    BY SuspenderAssumption DEF Init
<1>6. TypeOK
    BY <1>3, <1>4, <1>5, NewOthersAre, StatesAre DEF Init, TypeOK, Counts, FirstDarkId
<1>7. /\ RetriesAreBounded /\ ReadyInv /\ WakeupInv /\ FirstInv
      /\ ShutdownInv /\ QueueInv /\ DownInv
    BY StatesAre, NothingHas
       DEF Init, RetriesAreBounded, ReadyInv, WakeupInv, FirstInv, ShutdownInv, QueueInv, DownInv
<1>8. IdsInv
    BY <1>1, <1>3, StatesAre DEF Init, IdsInv, NoTask
<1>9. IdleIsClean
    BY <1>1, <1>3, <1>4, NewOthersAre DEF Init, IdleIsClean, Quiet, Controllers
<1>10. ToldIsAnnounced
    BY <1>4 DEF ToldIsAnnounced
<1> QED BY <1>6, <1>7, <1>8, <1>9, <1>10 DEF IInv

\* A step that changes nothing keeps it.
LEMMA StutterStep ==
    ASSUME IInv, UNCHANGED vars
    PROVE  IInv'
<1>1. /\ state' = state /\ queue' = queue /\ delays' = delays /\ charge' = charge /\ sfs' = sfs
      /\ requestId' = requestId /\ darkId' = darkId /\ request' = request
      /\ attempts' = attempts /\ count' = count /\ resuspend' = resuspend
      /\ inDark' = inDark /\ outside' = outside /\ shutdown' = shutdown
      /\ powerd' = powerd /\ crashes' = crashes
    BY DEF vars, controllers, ids, signals, process
<1>2. TypeOK'
    BY <1>1 DEF IInv, TypeOK
<1> QED BY <1>1, <1>2 DEF IInv, RetriesAreBounded, ReadyInv, WakeupInv, ShutdownInv, QueueInv,
          DownInv, IdsInv, IdleIsClean, ToldIsAnnounced, FirstInv, Handling

\* Every step of a client.
LEMMA ClientStepKeeps ==
    ASSUME IInv, ClientStep
    PROVE  IInv' /\ Same
<1>1. PICK k \in Controllers :
        \/ \E timeout \in Timeouts, client \in Clients : Register(k, timeout, client)
        \/ \E d \in DelayIds : Unregister(k, d)
        \/ \E d \in DelayIds, id \in {requestId, darkId} : Readiness(k, d, id)
    BY DEF ClientStep
<1> QED BY <1>1, RegisterStep, UnregisterStep, ReadinessStep

\* Every timer and every posted task.
LEMMA TimerStepKeeps ==
    ASSUME IInv, TimerStep
    PROVE  IInv' /\ Same
BY MaxDelayStep, MinDelayStep, NotifyNormalStep, NotifyDarkStep, ResuspendStep, ChargeTimersStep
   DEF TimerStep

\* Every step keeps the invariant.
LEMMA NextKeeps == IInv /\ [Next]_vars => IInv'
<1> SUFFICES ASSUME IInv, [Next]_vars PROVE IInv'
    OBVIOUS
<1>1. CASE HandleEvent
    BY <1>1, HandleEventStep
<1>2. CASE SuspendRequested
    BY <1>2, RequestStep
<1>3. CASE \E event \in WakeEvents : WakeEventSeen(event)
    BY <1>3, WakeEventStep
<1>4. CASE ShutDownRequested
    BY <1>4, ShutDownRequestStep
<1>5. CASE ClientStep
    BY <1>5, ClientStepKeeps
<1>6. CASE \E client \in Clients : ClientGone(client)
    BY <1>6, ClientGoneStep
<1>7. CASE PolicyStep
    BY <1>7, PolicyStepKeeps
<1>8. CASE TimerStep
    BY <1>8, TimerStepKeeps
<1>9. CASE ShutdownAlarm
    BY <1>9, AlarmStep
<1>10. CASE KernelActivity
    BY <1>10, KernelStep
<1>11. CASE Tick
    BY <1>11, TickStep
<1>12. CASE Crash
    BY <1>12, CrashStep
<1>13. CASE Restart
    BY <1>13, RestartStep
<1>14. CASE UNCHANGED vars
    BY <1>14, StutterStep
<1> QED BY <1>1, <1>2, <1>3, <1>4, <1>5, <1>6, <1>7, <1>8, <1>9, <1>10, <1>11, <1>12,
           <1>13, <1>14 DEF Next

\* The invariant behind the theorems that follow.
THEOREM Inductive == Spec => []IInv
BY InitHolds, NextKeeps, PTL DEF Spec

\* Every member of Suspender keeps its type, for any number of delays, clients,
\* requests, retries and crashes.
THEOREM TypeCorrect == Spec => []TypeOK
<1>1. IInv => TypeOK
    BY DEF IInv
<1> QED BY <1>1, Inductive, PTL

\* HandleUnsuccessfulSuspend() and HandleDarkResume() never leave a request that
\* waits for one more attempt than max_retries_ allows.
THEOREM RetriesStayBounded == Spec => []RetriesAreBounded
<1>1. IInv => RetriesAreBounded
    BY DEF IInv
<1> QED BY <1>1, Inductive, PTL

\* FinishRequest() and a restart leave nothing of a request behind.
THEOREM IdleStaysClean == Spec => []IdleIsClean
<1>1. IInv => IdleIsClean
    BY DEF IInv
<1> QED BY <1>1, Inductive, PTL

\* The suspend_announced file outlives every SuspendImminent, wherever powerd
\* crashes.
THEOREM AnnouncementsAreKept == Spec => []ToldIsAnnounced
<1>1. IInv => ToldIsAnnounced
    BY DEF IInv
<1> QED BY <1>1, Inductive, PTL

\* A shutdown that begins inside a handler, or between two events, ends in
\* SHUTTING_DOWN when the queue has been worked off.
THEOREM ShutdownIsSeen == Spec => []ShutdownReachesSuspender
<1>1. IInv => ShutdownReachesSuspender
    BY NothingHas DEF IInv, ShutdownInv, ShutdownReachesSuspender
<1> QED BY <1>1, Inductive, PTL

\* OnReadyForSuspend() for the current id comes only after every delay, internal
\* ones included, is ready, gone or timed out.
THEOREM SuspendsAreReady == Spec => []SuspendsOnlyWhenReady
<1>1. IInv => SuspendsOnlyWhenReady
    BY DEF IInv, ReadyInv, SuspendsOnlyWhenReady, Normal
<1> QED BY <1>1, Inductive, PTL

\* Every waiting state has a timer that runs or a notification for its own id.
THEOREM WakeupsAreKept == Spec => []NoLostWakeup
<1>1. IInv => NoLostWakeup
    BY DEF IInv, WakeupInv, NoLostWakeup, Handling, Normal, Dark, Retry
<1> QED BY <1>1, Inductive, PTL

=============================================================================
