------------------------- MODULE SuspendBarrierProofs -------------------------
(***************************************************************************)
(* Suspender implements SuspendBarrier: every step of powerd is a step of  *)
(* the promise to clients, or one that they cannot see.                    *)
(***************************************************************************)
EXTENDS SuspenderProofs

BarrierStep == [Barrier!Next]_(Barrier!bvars)

\* The request in the eyes of the clients.
Owed == IF Phase = "announced" THEN delays.normal.waiting ELSE {}

Tried == attempts > 0 \/ inDark

\* The refinement mapping: what phase each state of Suspender is, and who owes an answer.
LEMMA PhaseIs ==
    /\ shutdown = "started" => Phase = "off"
    /\ shutdown # "started" /\ state = "IDLE" => Phase = "awake"
    /\ shutdown # "started" /\ state = Normal => Phase = "announced"
    /\ shutdown # "started" /\ state # "IDLE" /\ state # Normal => Phase = "asleep"
    /\ Phase # "announced" => Owed = {}
    /\ Phase = "announced" => Owed = delays.normal.waiting
BY DEF Phase, Owed, Normal

\* The same of the next state.
LEMMA PhaseNext ==
    /\ shutdown' = "started" => Phase' = "off"
    /\ shutdown' # "started" /\ state' = "IDLE" => Phase' = "awake"
    /\ shutdown' # "started" /\ state' = Normal => Phase' = "announced"
    /\ shutdown' # "started" /\ state' # "IDLE" /\ state' # Normal => Phase' = "asleep"
    /\ Phase' # "announced" => Owed' = {}
    /\ Phase' = "announced" => Owed' = delays'.normal.waiting
BY DEF Phase, Owed, Normal

-----------------------------------------------------------------------------
(***************************************************************************)
(* The steps of SuspendBarrier, in the members of Suspender.               *)
(***************************************************************************)

\* Steps that leave the mapped variables alone are steps of none.
LEMMA StutterBarrier ==
    ASSUME Phase' = Phase, Owed' = Owed, Tried' = Tried
    PROVE  BarrierStep
BY DEF BarrierStep, Barrier!bvars, Owed, Tried

\* While announced, fewer clients may owe an answer.
LEMMA AnswerBarrier ==
    ASSUME Phase = "announced", Phase' = "announced", Owed' \subseteq Owed, Tried' = Tried
    PROVE  BarrierStep
BY DEF BarrierStep, Barrier!Next, Barrier!Answer, Owed, Tried

\* A request that starts announces the suspend.
LEMMA AnnounceBarrier ==
    ASSUME Phase = "awake", Phase' = "announced", Owed' \subseteq DelayIds, ~Tried'
    PROVE  BarrierStep
BY DEF BarrierStep, Barrier!Next, Barrier!Announce, Owed, Tried

\* The first attempt is made when nobody owes an answer.
LEMMA SleepBarrier ==
    ASSUME Phase = "announced", Owed = {}, Phase' \in {"asleep", "awake"}, Tried', Owed' = {}
    PROVE  BarrierStep
BY DEF BarrierStep, Barrier!Next, Barrier!Sleep, Owed, Tried

\* Later attempts end asleep or awake.
LEMMA SleepAgainBarrier ==
    ASSUME Phase = "asleep", Phase' \in {"asleep", "awake"}, Owed = {}, Owed' = {}
    PROVE  BarrierStep
BY DEF BarrierStep, Barrier!Next, Barrier!SleepAgain, Owed, Tried

\* An announced request may be given up.
LEMMA AbortBarrier ==
    ASSUME Phase = "announced", Phase' = "awake", Owed' = {}, Tried' = Tried
    PROVE  BarrierStep
BY DEF BarrierStep, Barrier!Next, Barrier!Abort, Owed, Tried

\* A crash makes powerd forget.
LEMMA ForgetBarrier ==
    ASSUME Phase # "off", Phase' = "awake", Owed' = {}, ~Tried'
    PROVE  BarrierStep
BY DEF BarrierStep, Barrier!Next, Barrier!Forget, Owed, Tried

\* A shutdown may come in every phase.
LEMMA ShutDownBarrier ==
    ASSUME Phase' = "off", Owed' = {}, Tried' => Tried \/ (Phase # "off" /\ Owed = {})
    PROVE  BarrierStep
BY DEF BarrierStep, Barrier!Next, Barrier!ShutDown, Owed, Tried

-----------------------------------------------------------------------------
(***************************************************************************)
(* The steps of Suspender.                                                 *)
(***************************************************************************)

\* Tasks outside HandleEvent() can only make clients owe less.
LEMMA SameRefines ==
    ASSUME Same
    PROVE  BarrierStep
<1>1. Phase' = Phase
    BY PhaseIs, PhaseNext DEF Same
<1>2. Tried' = Tried
    BY DEF Same, Tried
<1>3. CASE Phase = "announced"
    BY <1>1, <1>2, <1>3, PhaseIs, PhaseNext, AnswerBarrier DEF Same
<1>4. CASE Phase # "announced"
    BY <1>1, <1>2, <1>4, PhaseIs, PhaseNext, StutterBarrier
<1> QED BY <1>3, <1>4

\* A shutdown that was begun goes on.
LEMMA ShutdownGoesOn ==
    ASSUME NEW q, Signalled(q), shutdown = "started"
    PROVE  shutdown' = "started"
BY DEF Signalled

\* Nothing the clients see is left of a request but whether it was tried.
LEMMA OffRefines ==
    ASSUME shutdown' = "started", Tried' => Tried \/ (Phase # "off" /\ Owed = {})
    PROVE  BarrierStep
BY PhaseNext, ShutDownBarrier

\* StartRequest() announces.
LEMMA StartRefines ==
    ASSUME IInv, IInv', state = "IDLE", StartRequest, state' = Normal
    PROVE  BarrierStep
<1>1. shutdown' = shutdown /\ attempts' = 0 /\ inDark' = inDark /\ ~inDark
    BY DEF StartRequest, IInv, IdleIsClean
<1>2. ~Tried'
    BY <1>1 DEF Tried
<1>3. delays' \in Delays
    BY DEF IInv, TypeOK
<1>4. delays'.normal \in Controller
    BY <1>3, DelaysAre
<1>5. delays'.normal.waiting \subseteq DelayIds
    BY <1>4 DEF Controller
<1>6. CASE shutdown = "started"
    BY <1>1, <1>2, <1>6, OffRefines
<1>7. CASE shutdown # "started"
    BY <1>1, <1>2, <1>5, <1>7, PhaseIs, PhaseNext, AnnounceBarrier
<1> QED BY <1>6, <1>7

\* The end of a request without another attempt.
LEMMA CancelRefines ==
    ASSUME IInv, queue # <<>>, state \in WaitingStates, FinishRequest(Members),
           \/ state' = "IDLE"
           \/ state' = "SHUTTING_DOWN" /\ shutdown = "started"
    PROVE  BarrierStep
<1>1. Tail(queue) \in Seq(LaterEvents) /\ shutdown \in {"no", "postponed", "started"}
      /\ request \in Requests
    BY DEF IInv, QueueInv, TypeOK
<1>2. Signalled(Tail(queue))
    BY <1>1, UndoSignals DEF FinishRequest
<1>3. attempts' = attempts /\ inDark' = FALSE
    BY DEF FinishRequest, Members
<1>4. Tried' => Tried
    BY <1>3 DEF Tried
<1>5. CASE shutdown' = "started"
    BY <1>4, <1>5, OffRefines
<1>6. CASE shutdown' # "started"
    <2>1. shutdown # "started" /\ state' = "IDLE" /\ state # "IDLE"
        BY <1>2, <1>6, ShutdownGoesOn, StatesAre
    <2>2. Phase' = "awake" /\ Owed' = {}
        BY <1>6, <2>1, PhaseNext
    <2>3. CASE state = Normal
        <3>1. Tried' = Tried
            BY <1>3, <2>3 DEF IInv, FirstInv, Tried
        <3> QED BY <2>1, <2>2, <2>3, <3>1, PhaseIs, AbortBarrier
    <2>4. CASE state # Normal
        BY <2>1, <2>2, <2>4, PhaseIs, SleepAgainBarrier
    <2> QED BY <2>3, <2>4
<1> QED BY <1>5, <1>6

\* No shutdown has begun when readiness is handled, and nothing is owed.
LEMMA CanSuspendOwes ==
    ASSUME CanSuspend
    PROVE  /\ shutdown # "started" /\ Owed = {}
           /\ state = Normal => Phase = "announced"
           /\ state # Normal => Phase = "asleep"
<1>1. IInv /\ queue # <<>> /\ queue \in Seq(Events)
    BY DEF CanSuspend, IInv, TypeOK
<1>2. Head(queue) \notin LaterEvents /\ Head(queue) # "SHUTDOWN_STARTED"
    BY LaterAreEvents DEF CanSuspend
<1>3. Tail(queue) = <<>>
    BY <1>1, <1>2 DEF IInv, QueueInv
<1>4. ~Has(queue, "SHUTDOWN_STARTED")
    <2> SUFFICES ASSUME NEW i \in 1..Len(queue), queue[i] = "SHUTDOWN_STARTED"
                 PROVE  FALSE
        BY DEF Has
    <2>1. i # 1
        BY <1>1, <1>2
    <2>2. i - 1 \in 1..Len(Tail(queue)) /\ Tail(queue)[i - 1] = "SHUTDOWN_STARTED"
        BY <1>1, <2>1
    <2>3. Has(Tail(queue), "SHUTDOWN_STARTED")
        BY <2>2 DEF Has
    <2> QED BY <1>3, <2>3, NothingHas
<1>5. shutdown # "started"
    BY <1>1, <1>4, CanSuspendIs DEF IInv, ShutdownInv
<1>6. state = Normal => delays.normal.waiting = {}
    BY <1>1, StatesAre DEF CanSuspend, IInv, ReadyInv, Handling
<1> QED BY <1>5, <1>6, PhaseIs, CanSuspendIs

\* An attempt for which everybody was waited for.
LEMMA TriedRefines ==
    ASSUME CanSuspend, Tried', state' \in {"IDLE", "SHUTTING_DOWN", Dark, Retry}
    PROVE  BarrierStep
<1>1. Phase \in {"announced", "asleep"} /\ Owed = {}
    BY CanSuspendOwes
<1>2. CASE shutdown' = "started"
    BY <1>1, <1>2, OffRefines
<1>3. CASE shutdown' # "started"
    <2>1. Phase' \in {"asleep", "awake"} /\ Owed' = {}
        BY <1>3, PhaseNext, StatesAre
    <2> QED BY <1>1, <2>1, SleepBarrier, SleepAgainBarrier
<1> QED BY <1>2, <1>3

\* An attempt, whatever its outcome, is a sleep, a further sleep or a shutdown.
LEMMA AttemptRefines ==
    ASSUME CanSuspend, NEW line \in BOOLEAN, NEW low \in BOOLEAN,
           NEW result \in SuspendResults(count), NEW input \in BOOLEAN,
           NEW dark \in BOOLEAN, NEW n \in AttemptTicks,
           Attempt(line, low, result, input, dark, n)
    PROVE  BarrierStep
<1> DEFINE judged == IF result = "CANCELED" /\ input THEN "SUCCESS" ELSE result
           m(after) == [ delays    |-> [normal |-> PassTime(delays.normal, n),
                                        dark   |-> PassTime(delays.dark, n)],
                         charge    |-> ChargeStopDischarge(charge),
                         sfs       |-> ShutdownPrepareForSuspendAttempt(sfs),
                         attempts  |-> attempts + 1,
                         count     |-> after,
                         resuspend |-> Advance(resuspend, n),
                         outside   |-> SuspendAudioStages(outside)[2] ]
<1>1. PICK after \in CountAfterAttempt(count, result) :
          HandleDarkResume(m(after), judged) \/ HandleNormalResume(m(after), judged)
    BY DEF Attempt
<1>2. m(after).attempts = attempts + 1 /\ attempts + 1 > 0
    BY CanSuspendIs, SuspenderAssumption
<1> HIDE DEF m, judged
<1>3. CASE HandleDarkResume(m(after), judged)
    <2>1. inDark' = TRUE /\ state' \in {"SHUTTING_DOWN", Dark, Retry}
        BY <1>3 DEF HandleDarkResume, HandleUnsuccessfulSuspend, Dark, Retry
    <2>2. Tried'
        BY <2>1 DEF Tried
    <2> QED BY <2>1, <2>2, TriedRefines
<1>4. CASE HandleNormalResume(m(after), judged)
    <2>1. attempts' = attempts + 1 /\ state' \in {"IDLE", "SHUTTING_DOWN", Retry}
        BY <1>2, <1>4 DEF HandleNormalResume, FinishRequest, HandleUnsuccessfulSuspend, Retry
    <2>2. Tried'
        BY <1>2, <2>1 DEF Tried
    <2> QED BY <2>1, <2>2, TriedRefines
<1> QED BY <1>1, <1>3, <1>4

\* ShutdownFromSuspend acts only after a dark resume, thus after an attempt.
LEMMA SuspendRefines ==
    ASSUME CanSuspend, Suspend
    PROVE  BarrierStep
<1>1. ASSUME NEW line \in BOOLEAN, NEW low \in BOOLEAN, ShutDownFromSuspend(line, low)
      PROVE  BarrierStep
    <2>1. sfs.dark /\ state' = "SHUTTING_DOWN" /\ attempts' = attempts /\ inDark' = inDark
        BY <1>1 DEF ShutDownFromSuspend, ShutdownAction
    <2>2. state # Normal
        BY <2>1 DEF CanSuspend, IInv, FirstInv
    <2>3. Phase = "asleep" /\ Owed = {}
        BY <2>2, CanSuspendOwes
    <2>4. CASE shutdown' = "started"
        BY <2>3, <2>4, OffRefines
    <2>5. CASE shutdown' # "started"
        <3>1. Phase' = "asleep" /\ Owed' = {}
            BY <2>1, <2>5, PhaseNext, StatesAre
        <3> QED BY <2>3, <3>1, SleepAgainBarrier
    <2> QED BY <2>4, <2>5
<1> QED BY <1>1, AttemptRefines DEF Suspend

\* Every event in every state is a step of the barrier or none.
LEMMA HandleEventRefines ==
    ASSUME IInv, IInv', HandleEvent
    PROVE  BarrierStep
<1>1. powerd = "up" /\ queue # <<>> /\ queue \in Seq(Events)
    BY DEF HandleEvent, IInv, TypeOK
<1> DEFINE event == Head(queue)
<1>2. event = "SHUTDOWN_STARTED" => shutdown = "started"
    <2>1. 1 \in 1..Len(queue) /\ queue[1] = event
        BY <1>1
    <2> QED BY <2>1 DEF IInv, ShutdownInv, Has
<1>3. ASSUME UNCHANGED <<state, controllers, sfs, ids, request, attempts, count, resuspend,
                         inDark, signals, process>>
      PROVE  BarrierStep
    <2>1. Same
        BY <1>3 DEF Same, controllers, signals
    <2> QED BY <2>1, SameRefines
<1>4. CASE state = "IDLE" /\ event = "SUSPEND_REQUESTED" /\ StartRequest /\ state' = Normal
    BY <1>4, StartRefines
<1>5. CASE /\ event = "SHUTDOWN_STARTED" /\ state' = "SHUTTING_DOWN"
           /\ charge' = ChargeStopDischarge(charge) /\ queue' = Tail(queue)
           /\ UNCHANGED <<delays, sfs, ids, request, attempts, count, resuspend, inDark,
                          signals, process>>
    <2>1. shutdown' = "started"
        BY <1>2, <1>5 DEF signals
    <2>2. Tried' => Tried
        BY <1>5 DEF Tried
    <2> QED BY <2>1, <2>2, OffRefines
<1>6. CASE /\ \/ state = Normal /\ event = "SUSPEND_DELAYS_READY"
              \/ state \in {Dark, Retry} /\ event = "READY_TO_RESUSPEND"
           /\ Suspend
    BY <1>1, <1>6, SuspendRefines DEF CanSuspend
<1>7. CASE state \in WaitingStates /\ event \in WakeEvents /\ HandleWakeEventInSuspend(event)
    <2>1. CASE IgnoreWakeEvent(event)
        BY <1>3, <2>1 DEF IgnoreWakeEvent
    <2>2. CASE FinishRequest(Members) /\ state' = "IDLE"
        BY <1>1, <1>7, <2>2, CancelRefines
    <2> QED BY <1>7, <2>1, <2>2 DEF HandleWakeEventInSuspend
<1>8. CASE /\ state \in WaitingStates /\ event = "SHUTDOWN_STARTED"
           /\ FinishRequest(Members) /\ state' = "SHUTTING_DOWN"
    BY <1>1, <1>2, <1>8, CancelRefines
<1>9. CASE IgnoreEvent(event)
    BY <1>3, <1>9 DEF IgnoreEvent
<1> QED BY <1>4, <1>5, <1>6, <1>7, <1>8, <1>9 DEF HandleEvent, Dispatch, Normal, Dark, Retry

\* A shutdown request outside of Suspender's handlers.
LEMMA ShutDownRequestRefines ==
    ASSUME ShutDownRequested
    PROVE  BarrierStep
<1>1. /\ state' = state /\ attempts' = attempts /\ inDark' = inDark /\ delays' = delays
      /\ shutdown # "started"
    BY DEF ShutDownRequested, controllers
<1>2. CASE shutdown' = "started"
    <2>1. Tried' => Tried
        BY <1>1 DEF Tried
    <2> QED BY <1>2, <2>1, OffRefines
<1>3. CASE shutdown' # "started"
    BY <1>1, <1>3, SameRefines DEF Same
<1> QED BY <1>2, <1>3

\* A crash in any state but a started shutdown.
LEMMA CrashRefines ==
    ASSUME Crash
    PROVE  BarrierStep
<1>1. /\ shutdown # "started" /\ shutdown' = "no" /\ state' = "IDLE"
      /\ attempts' = 0 /\ inDark' = FALSE
    BY DEF Crash
<1>2. ~Tried'
    BY <1>1 DEF Tried
<1>3. Phase # "off"
    BY <1>1, PhaseIs
<1> QED BY <1>1, <1>2, <1>3, PhaseNext, ForgetBarrier

\* Every step between states of the invariant is a step of the barrier or none.
LEMMA StepRefines == IInv /\ IInv' /\ [Next]_vars => BarrierStep
<1> SUFFICES ASSUME IInv, IInv', [Next]_vars PROVE BarrierStep
    OBVIOUS
<1>1. CASE HandleEvent
    BY <1>1, HandleEventRefines
<1>2. CASE SuspendRequested
    BY <1>2, RequestStep, SameRefines
<1>3. CASE \E event \in WakeEvents : WakeEventSeen(event)
    BY <1>3, WakeEventStep, SameRefines
<1>4. CASE ShutDownRequested
    BY <1>4, ShutDownRequestRefines
<1>5. CASE ClientStep
    BY <1>5, ClientStepKeeps, SameRefines
<1>6. CASE \E client \in Clients : ClientGone(client)
    BY <1>6, ClientGoneStep, SameRefines
<1>7. CASE PolicyStep
    BY <1>7, PolicyStepKeeps, SameRefines
<1>8. CASE TimerStep
    BY <1>8, TimerStepKeeps, SameRefines
<1>9. CASE ShutdownAlarm
    BY <1>9, AlarmStep, SameRefines
<1>10. CASE KernelActivity
    BY <1>10, KernelStep, SameRefines
<1>11. CASE Tick
    BY <1>11, TickStep, SameRefines
<1>12. CASE Crash
    BY <1>12, CrashRefines
<1>13. CASE Restart
    <2>1. Same
        BY <1>13 DEF Restart, Same, controllers
    <2> QED BY <2>1, SameRefines
<1>14. CASE UNCHANGED vars
    <2>1. Same
        BY <1>14 DEF vars, Same, controllers, signals
    <2> QED BY <2>1, SameRefines
<1> QED BY <1>1, <1>2, <1>3, <1>4, <1>5, <1>6, <1>7, <1>8, <1>9, <1>10, <1>11, <1>12,
           <1>13, <1>14 DEF Next

\* The initial states map to initial states.
LEMMA InitRefines == Init => Barrier!Init
<1> SUFFICES ASSUME Init PROVE Barrier!Init
    OBVIOUS
<1>1. Phase = "awake"
    BY PhaseIs DEF Init
<1>2. (attempts > 0 \/ inDark) = FALSE
    BY DEF Init
<1> QED BY <1>1, <1>2 DEF Barrier!Init

\* Suspender implements SuspendBarrier: whatever clients, timers, wake events,
\* shutdowns and crashes do, Suspend() makes no first attempt for a request
\* while a delay that was announced to is still waited for.
THEOREM SuspenderKeepsBarrier == Spec => KeepsBarrier
<1>1. Init => Barrier!Init
    BY InitRefines
<1>2. IInv /\ IInv' /\ [Next]_vars => [Barrier!Next]_(Barrier!bvars)
    BY StepRefines DEF BarrierStep
<1> QED BY <1>1, <1>2, Inductive, PTL DEF Spec, KeepsBarrier, Barrier!Spec

=============================================================================
