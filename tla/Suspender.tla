------------------------------ MODULE Suspender ------------------------------
(***************************************************************************)
(* power_manager/powerd/policy/suspender.cc with the objects it drives:    *)
(* the normal and the dark SuspendDelayController, DarkResume,             *)
(* ShutdownFromSuspend, Charge Limit (the user of internal delays), and    *)
(* the parts of Daemon that carry out its decisions (the suspend_announced *)
(* file, audio, the kernel's wakeup count, shutdown and its lockfile).     *)
(* powerd is single-threaded: an action is one task of its message loop.   *)
(*                                                                         *)
(* HandleEvent() runs an event to completion and then the events that were *)
(* raised meanwhile.  Here whoever raises an event appends it to queue;    *)
(* HandleEvent takes the head, and every other task of the loop waits      *)
(* until queue is empty again, as it does in the code.  powerd may crash   *)
(* at any point, inside a handler too, and is started again.               *)
(*                                                                         *)
(* Left out: what only the metrics and the signals' payload use (reason,   *)
(* durations, initial_num_attempts_, wake reasons).  Inputs the code only  *)
(* reads are chosen where it reads them: lid and display mode, line power, *)
(* battery, the dark resume pref and the cause of a wake.                  *)
(*                                                                         *)
(* An operator named Mutant... is a plausible mistake in the definition    *)
(* that follows it; only the mutation runs of PROJECT.json use it.         *)
(***************************************************************************)
EXTENDS ChargeLimit, ShutdownFromSuspend, Sequences

CONSTANTS
    Timeouts,          \* timeouts that clients ask for
    RequestKinds,      \* requests that callers of RequestSuspend() make
    PolicyChanges,     \* policy updates that Charge Limit gets
    MaxRetries,        \* max_retries_ (pref retry_suspend_attempts)
    RetryDelay,        \* retry_delay_ (pref retry_suspend_ms)
    AttemptTicks,      \* ticks of the message loop that DoSuspend() may take
    MaxRequests,       \* bound on suspend requests
    DarkIds,           \* dark suspend ids before one is used again
    MaxCrashes         \* bound on crashes of powerd

ASSUME SuspenderAssumption ==
    /\ Timeouts \subseteq Int
    /\ MaxRetries \in Nat
    /\ RetryDelay \in Nat
    /\ AttemptTicks \subseteq Nat
    /\ MaxRequests \in Nat
    /\ DarkIds \in Nat \ {0}
    /\ MaxCrashes \in Nat
    /\ ShutdownEnabled \in BOOLEAN

Flavors == {"SUSPEND_DEFAULT", "SUSPEND_TO_RAM"}

\* suspend_request_supplied_wakeup_count_ and suspend_request_flavor_.
Requests == [supplied : BOOLEAN, flavor : Flavors]

\* What StateController asks for.
DefaultRequest == [supplied |-> FALSE, flavor |-> "SUSPEND_DEFAULT"]

\* enable: policy.charge_limit_enabled(); restart: restart_adaptive.
Policies == [enable : BOOLEAN, restart : BOOLEAN]

ASSUME InputAssumption == RequestKinds \subseteq Requests /\ PolicyChanges \subseteq Policies

VARIABLES
    state,      \* state_
    queue,      \* queued_events_, its head the event to be handled next
    delays,     \* suspend_delay_controller_, dark_suspend_delay_controller_
    charge,     \* Charge Limit
    sfs,        \* shutdown_from_suspend_
    requestId,  \* suspend_request_id_
    darkId,     \* dark_suspend_id_
    request,    \* what the last RequestSuspend() asked for
    attempts,   \* current_num_attempts_
    count,      \* wakeup_count_ and wakeup_count_valid_ against the kernel's
    resuspend,  \* resuspend_timer_
    inDark,     \* dark_resume_->InDarkResume()
    outside,    \* what outlives powerd: clients, files in /run, audio
    shutdown,   \* Daemon: shutting_down_, or waiting for a lockfile
    powerd,     \* whether the process runs
    crashes     \* number of crashes so far

controllers == <<delays, charge>>
signals == <<outside, shutdown>>
ids == <<requestId, darkId>>
process == <<powerd, crashes>>
vars == <<state, queue, controllers, sfs, ids, request, attempts, count,
          resuspend, inDark, signals, process>>

States == {"IDLE", "WAITING_FOR_NORMAL_SUSPEND_DELAYS",
           "WAITING_FOR_DARK_SUSPEND_DELAYS", "WAITING_TO_RETRY_SUSPEND",
           "SHUTTING_DOWN"}

WaitingStates == States \ {"IDLE", "SHUTTING_DOWN"}

\* Events that wake the machine up for somebody.
WakeEvents == {"WAKE_NOTIFICATION", "USER_ACTIVITY", "DISPLAY_MODE_CHANGE",
               "NEW_DISPLAY"}

Events == WakeEvents \cup {"SUSPEND_REQUESTED", "SUSPEND_DELAYS_READY",
                           "READY_TO_RESUSPEND", "SHUTDOWN_STARTED"}

\* The saved wakeup count equals the kernel's, is behind it, or is not valid.
Counts == {"fresh", "stale", "invalid"}

Outside ==
    [ told      : BOOLEAN,    \* clients got SuspendImminent and no SuspendDone
      announced : BOOLEAN,    \* the suspend_announced file
      audio     : BOOLEAN,    \* CRAS was told to suspend
      audioFile : BOOLEAN ]   \* the audio_suspended file

TypeOK ==
    /\ state \in States
    /\ queue \in Seq(Events)
    /\ delays \in Delays
    /\ charge \in ChargeLimitState
    /\ sfs \in ShutdownFromSuspendState
    /\ requestId \in Nat
    /\ darkId \in Nat
    /\ request \in Requests
    /\ attempts \in 0..(MaxRetries + 1)
    /\ count \in Counts
    /\ resuspend \in {Off} \cup 0..RetryDelay
    /\ inDark \in BOOLEAN
    /\ outside \in Outside
    /\ shutdown \in {"no", "postponed", "started"}
    /\ powerd \in {"up", "down"}
    /\ crashes \in 0..MaxCrashes

\* Daemon::GetInitialDarkSuspendId(): dark ids are counted from far above the
\* others, so that neither is the 0 a new controller starts with.
FirstDarkId == 1

\* dark_suspend_id_++.  The int wraps; in the model it does so much earlier, so
\* that there can be dark resumes without end.
NextDarkId == IF darkId < DarkIds THEN darkId + 1 ELSE FirstDarkId

Init ==
    /\ state = "IDLE"
    /\ queue = <<>>
    /\ delays = [normal |-> NewController(1), dark |-> NewController(1)]
    /\ charge = NewChargeLimit
    /\ sfs = NewShutdownFromSuspend
    /\ requestId = 1
    /\ darkId = FirstDarkId
    /\ request = DefaultRequest
    /\ attempts = 0
    /\ count = "invalid"
    /\ resuspend = Off
    /\ inDark = FALSE
    /\ outside = [told |-> FALSE, announced |-> FALSE, audio |-> FALSE,
                  audioFile |-> FALSE]
    /\ shutdown = "no"
    /\ powerd = "up"
    /\ crashes = 0

-----------------------------------------------------------------------------
(***************************************************************************)
(* What a handler leaves outside powerd, in the order in which it does so: *)
(* a crash inside the handler leaves one of the earlier stages.            *)
(***************************************************************************)

\* Daemon::SuspendAudio(): the call to CRAS, then the file.
SuspendAudioStages(o) ==
    LET call == [o EXCEPT !.audio = TRUE]
    IN  <<call, [call EXCEPT !.audioFile = TRUE]>>

MutantStartRequestStages(o) ==
    LET signal == [o EXCEPT !.told = TRUE]
    IN  <<signal, [signal EXCEPT !.announced = TRUE]>>

\* StartRequest(): SetSuspendAnnounced(true), then SuspendImminent.
StartRequestStages(o) ==
    LET file == [o EXCEPT !.announced = TRUE]
    IN  <<file, [file EXCEPT !.told = TRUE]>>

\* FinishRequest(): ResumeAudio(), SuspendDone, SetSuspendAnnounced(false).
FinishRequestStages(o) ==
    LET call == [o EXCEPT !.audio = FALSE]
        file == [call EXCEPT !.audioFile = FALSE]
        done == [file EXCEPT !.told = FALSE]
    IN  <<call, file, done, [done EXCEPT !.announced = FALSE]>>

MutantInitStages(o) ==
    LET file == [o EXCEPT !.audioFile = FALSE]
    IN  <<o, file, file, [file EXCEPT !.announced = FALSE]>>

\* AudioClient::Init() and Suspender::Init(): what a previous run left over.
InitStages(o) ==
    LET call  == [o EXCEPT !.audio = IF o.audioFile THEN FALSE ELSE @]
        file  == [call EXCEPT !.audioFile = FALSE]
        done  == [file EXCEPT !.told = IF o.announced THEN FALSE ELSE @]
    IN  <<call, file, done, [done EXCEPT !.announced = FALSE]>>

-----------------------------------------------------------------------------
(***************************************************************************)
(* Daemon.                                                                 *)
(***************************************************************************)

MutantShutDownUnseen(q) ==
    /\ queue' = q
    /\ shutdown' \in IF shutdown = "started" THEN {"started"} ELSE {"postponed", "started"}

MutantShutDownDropped(q) ==
    \/ queue' = q /\ UNCHANGED shutdown
    \/ /\ shutdown # "started"
       /\ shutdown' = "started"
       /\ queue' = Append(q, "SHUTDOWN_STARTED")

\* Daemon::ShutDown(), with q what is left of the queue.  A lockfile postpones
\* it without telling Suspender.
ShutDown(q) ==
    \/ /\ shutdown = "started"
       /\ queue' = q
       /\ UNCHANGED shutdown
    \/ /\ shutdown # "started"
       /\ shutdown' = "postponed"
       /\ queue' = q
    \/ /\ shutdown # "started"
       /\ shutdown' = "started"
       /\ queue' = Append(q, "SHUTDOWN_STARTED")

\* Daemon::Suspend() and Suspender::RequestSuspend(): the fields of a request
\* are overwritten even if one is in progress.  The second conjunct bounds the
\* number of requests.
RequestSuspend(r, q) ==
    /\ shutdown # "started"
    /\ requestId <= MaxRequests
    /\ request' = r
    /\ queue' = Append(q, "SUSPEND_REQUESTED")
    /\ UNCHANGED shutdown

\* Daemon::UndoPrepareToSuspend() calls StateController::HandleResume(), which
\* may suspend again or shut down at once.
UndoPrepareToSuspend(q) ==
    \/ queue' = q /\ UNCHANGED <<request, shutdown>>
    \/ RequestSuspend(DefaultRequest, q)
    \/ ShutDown(q) /\ UNCHANGED request

\* Daemon::ReadSuspendWakeupCount()
ReadSuspendWakeupCount(c) == c \in {"fresh", "invalid"}

\* Daemon::DoSuspend() and the powerd_suspend script: without a valid count an
\* attempt is never canceled, with one that is behind it never succeeds.
SuspendResults(c) ==
    {"FAILURE"} \cup (IF c = "stale" THEN {} ELSE {"SUCCESS"})
                \cup (IF c = "invalid" THEN {} ELSE {"CANCELED"})

\* The kernel's count after an attempt with result r: the event that canceled
\* it has raised the count, the one that woke the machine may have.
CountAfterAttempt(c, r) ==
    IF c = "invalid" THEN {c} ELSE IF r = "CANCELED" THEN {"stale"} ELSE {c, "stale"}

-----------------------------------------------------------------------------
(***************************************************************************)
(* The steps of HandleEvent().  A step that is called by another one gets  *)
(* the members as the caller leaves them in a record m.                    *)
(***************************************************************************)

Members == [delays |-> delays, charge |-> charge, sfs |-> sfs,
            attempts |-> attempts, count |-> count, resuspend |-> resuspend,
            outside |-> outside]

StartRequest ==
    /\ requestId' = requestId + 1
    /\ IF request.supplied THEN count' \in {"fresh", "stale"}
                           ELSE ReadSuspendWakeupCount(count')
    /\ attempts' = 0
    /\ delays' = [delays EXCEPT !.normal = PrepareForSuspend(@, requestId + 1, FALSE)]
    /\ outside' = StartRequestStages(outside)[2]
    /\ queue' = Tail(queue)
    /\ UNCHANGED <<charge, sfs, darkId, request, resuspend, inDark, shutdown, process>>

\* If it is a shutdown that ends the request, Daemon::ShutDown() then goes on
\* to AdaptiveChargingController::HandleShutdown().
FinishRequest(m) ==
    /\ resuspend' = Off
    /\ \E ec \in ChargerOutcomes :
         LET finished == [normal |-> FinishSuspend(m.delays.normal, requestId),
                          dark   |-> FinishSuspend(m.delays.dark, darkId)]
             w == ChargeHandleResume([delays |-> finished, charge |-> m.charge], ec)
         IN  /\ delays' = w.delays
             /\ charge' = IF shutdown = "started" THEN ChargeStopDischarge(w.charge)
                                                  ELSE w.charge
    /\ sfs' = ShutdownHandleFullResume(m.sfs)
    /\ outside' = FinishRequestStages(m.outside)[4]
    /\ inDark' = FALSE
    /\ attempts' = m.attempts
    /\ count' = m.count
    /\ UndoPrepareToSuspend(Tail(queue))
    /\ UNCHANGED <<ids, process>>

\* max_retries_ is exceeded.
MutantTooManyAttempts(n) == n > MaxRetries + 1

TooManyAttempts(n) == n > MaxRetries

MutantScheduleResuspend == resuspend' = Off

ScheduleResuspend == resuspend' = RetryDelay

HandleUnsuccessfulSuspend(m, result) ==
    /\ delays' = m.delays
    /\ charge' = m.charge
    /\ sfs' = m.sfs
    /\ attempts' = m.attempts
    /\ outside' = m.outside
    /\ UNCHANGED <<ids, request, process>>
    /\ IF TooManyAttempts(m.attempts)
       THEN /\ ShutDown(Tail(queue))    \* ShutDownForFailedSuspend()
            /\ state' = "SHUTTING_DOWN"
            /\ count' = m.count
            /\ resuspend' = m.resuspend
       ELSE /\ IF result = "CANCELED" THEN count' = "invalid"
               ELSE IF request.supplied THEN count' = m.count
               ELSE ReadSuspendWakeupCount(count')
            /\ ScheduleResuspend
            /\ state' = "WAITING_TO_RETRY_SUSPEND"
            /\ queue' = Tail(queue)
            /\ UNCHANGED shutdown

HandleNormalResume(m, result) ==
    IF result = "SUCCESS" \/ request.supplied
    THEN FinishRequest(m) /\ state' = "IDLE"
    ELSE HandleUnsuccessfulSuspend(m, result) /\ UNCHANGED inDark

\* The failures that HandleDarkResume() leaves to HandleUnsuccessfulSuspend().
MutantFailsInDarkResume(m, result) == result = "FAILURE"

FailsInDarkResume(m, result) ==
    result = "FAILURE" \/ (result = "CANCELED" /\ TooManyAttempts(m.attempts))

\* A request may go through any number of dark resumes: those that follow a
\* successful suspend do not count as attempts.
HandleDarkResume(m, result) ==
    IF FailsInDarkResume(m, result)
    THEN HandleUnsuccessfulSuspend(m, result) /\ inDark' = TRUE
    ELSE /\ darkId' = NextDarkId
         /\ sfs' = ShutdownHandleDarkResume(m.sfs)
         /\ attempts' = IF result = "SUCCESS" THEN 0 ELSE m.attempts
         /\ \E ec \in ChargerOutcomes :
              LET w == ChargeHandleResume([delays |-> m.delays, charge |-> m.charge], ec)
              IN  /\ delays' = [w.delays EXCEPT
                                  !.dark = PrepareForSuspend(@, NextDarkId, TRUE)]
                  /\ charge' = w.charge
         /\ state' = "WAITING_FOR_DARK_SUSPEND_DELAYS"
         /\ inDark' = TRUE
         /\ resuspend' = m.resuspend
         /\ outside' = m.outside
         /\ count' = m.count
         /\ queue' = Tail(queue)
         /\ UNCHANGED <<requestId, request, shutdown, process>>

\* Suspend(): first what ShutdownFromSuspend decides, with line power and a low
\* battery as it finds them.
ShutDownFromSuspend(line, low) ==
    /\ request.flavor = "SUSPEND_DEFAULT"
    /\ ShutdownAction(sfs, line, low) = "SHUT_DOWN"
    /\ sfs' = ShutdownPrepareForSuspendAttempt(sfs)
    /\ ShutDown(Tail(queue))
    /\ state' = "SHUTTING_DOWN"
    /\ UNCHANGED <<controllers, ids, request, attempts, count, resuspend, inDark,
                   outside, process>>

\* Then the attempt, which takes n ticks and ends in a wake that an input
\* device caused (input) or else starts a dark resume (if dark is enabled).
Attempt(line, low, result, input, dark, n) ==
    /\ ~(request.flavor = "SUSPEND_DEFAULT" /\ ShutdownAction(sfs, line, low) = "SHUT_DOWN")
    /\ result \in SuspendResults(count)
    /\ \E after \in CountAfterAttempt(count, result) :
         LET judged == IF result = "CANCELED" /\ input THEN "SUCCESS" ELSE result
             m == [ delays    |-> [normal |-> PassTime(delays.normal, n),
                                   dark   |-> PassTime(delays.dark, n)],
                    charge    |-> ChargeStopDischarge(charge),
                    sfs       |-> ShutdownPrepareForSuspendAttempt(sfs),
                    attempts  |-> attempts + 1,
                    count     |-> after,
                    resuspend |-> Advance(resuspend, n),
                    outside   |-> SuspendAudioStages(outside)[2] ]
         IN  IF IF judged = "SUCCESS" THEN dark /\ ~input ELSE inDark
             THEN HandleDarkResume(m, judged)
             ELSE HandleNormalResume(m, judged)

Suspend ==
    \E line, low \in BOOLEAN :
        \/ ShutDownFromSuspend(line, low)
        \/ \E result \in SuspendResults(count), input, dark \in BOOLEAN, n \in AttemptTicks :
              Attempt(line, low, result, input, dark, n)

\* HandleWakeEventInSuspend(): ignored if the lid is closed and the device is
\* not docked, unless a new display is seen.
IgnoreWakeEvent(event) ==
    /\ event # "NEW_DISPLAY"
    /\ queue' = Tail(queue)
    /\ UNCHANGED <<state, controllers, sfs, ids, request, attempts, count, resuspend,
                   inDark, signals, process>>

HandleWakeEventInSuspend(event) ==
    \/ IgnoreWakeEvent(event)
    \/ FinishRequest(Members) /\ state' = "IDLE"

Dispatch(event) ==
    \/ /\ state = "IDLE" /\ event = "SUSPEND_REQUESTED"
       /\ StartRequest
       /\ state' = "WAITING_FOR_NORMAL_SUSPEND_DELAYS"
    \/ /\ state \in {"IDLE", "SHUTTING_DOWN"} /\ event = "SHUTDOWN_STARTED"
       /\ state' = "SHUTTING_DOWN"
       /\ charge' = ChargeStopDischarge(charge)
       /\ queue' = Tail(queue)
       /\ UNCHANGED <<delays, sfs, ids, request, attempts, count, resuspend, inDark,
                      signals, process>>
    \/ /\ \/ state = "WAITING_FOR_NORMAL_SUSPEND_DELAYS" /\ event = "SUSPEND_DELAYS_READY"
          \/ /\ state \in {"WAITING_FOR_DARK_SUSPEND_DELAYS", "WAITING_TO_RETRY_SUSPEND"}
             /\ event = "READY_TO_RESUSPEND"
       /\ Suspend
    \/ /\ state \in WaitingStates /\ event \in WakeEvents
       /\ HandleWakeEventInSuspend(event)
    \/ /\ state \in WaitingStates /\ event = "SHUTDOWN_STARTED"
       /\ FinishRequest(Members)
       /\ state' = "SHUTTING_DOWN"

\* The events a state has no case for.
Ignored(event) ==
    \/ state = "IDLE" /\ event \notin {"SUSPEND_REQUESTED", "SHUTDOWN_STARTED"}
    \/ state = "SHUTTING_DOWN" /\ event # "SHUTDOWN_STARTED"
    \/ state \in WaitingStates /\ event = "SUSPEND_REQUESTED"
    \/ state = "WAITING_FOR_NORMAL_SUSPEND_DELAYS" /\ event = "READY_TO_RESUSPEND"
    \/ /\ state \in {"WAITING_FOR_DARK_SUSPEND_DELAYS", "WAITING_TO_RETRY_SUSPEND"}
       /\ event = "SUSPEND_DELAYS_READY"

IgnoreEvent(event) ==
    /\ Ignored(event)
    /\ queue' = Tail(queue)
    /\ UNCHANGED <<state, controllers, sfs, ids, request, attempts, count, resuspend,
                   inDark, signals, process>>

HandleEvent ==
    /\ powerd = "up"
    /\ queue # <<>>
    /\ Dispatch(Head(queue)) \/ IgnoreEvent(Head(queue))

-----------------------------------------------------------------------------
(***************************************************************************)
(* The other tasks of the message loop, run when no event is being handled.*)
(***************************************************************************)

LoopFree == powerd = "up" /\ queue = <<>>

Raise(event) == queue' = Append(queue, event)

rest == <<state, sfs, ids, request, attempts, resuspend, inDark, signals, process>>

\* RequestSuspend over D-Bus, or from StateController.
SuspendRequested ==
    /\ LoopFree
    /\ \E r \in RequestKinds : RequestSuspend(r, queue)
    /\ UNCHANGED <<state, controllers, sfs, ids, attempts, count, resuspend, inDark,
                   outside, process>>

\* HandleUserActivity(), HandleLidOpened(), HandleWakeNotification(),
\* HandleDisplayModeChange(), OnDisplaysChanged().
WakeEventSeen(event) ==
    /\ LoopFree
    /\ Raise(event)
    /\ UNCHANGED <<rest, controllers, count>>

\* A shutdown asked for by the user or another class, or retried by
\* retry_shutdown_for_lockfile_timer_.
ShutDownRequested ==
    /\ LoopFree
    /\ shutdown # "started"
    /\ ShutDown(queue)
    /\ UNCHANGED <<state, controllers, sfs, ids, request, attempts, count, resuspend,
                   inDark, outside, process>>

MutantNotifyNormal ==
    /\ LoopFree
    /\ delays.normal.notify # NoTask
    /\ delays' = [delays EXCEPT !.normal = NotifyObservers(@)]
    /\ Raise("SUSPEND_DELAYS_READY")
    /\ UNCHANGED <<rest, charge, count>>

\* OnReadyForSuspend() from the normal controller.
NotifyNormal ==
    /\ LoopFree
    /\ delays.normal.notify # NoTask
    /\ delays' = [delays EXCEPT !.normal = NotifyObservers(@)]
    /\ IF delays.normal.notify = requestId THEN Raise("SUSPEND_DELAYS_READY")
                                           ELSE UNCHANGED queue
    /\ UNCHANGED <<rest, charge, count>>

\* OnReadyForSuspend() from the dark controller reads the wakeup count again.
NotifyDark ==
    /\ LoopFree
    /\ delays.dark.notify # NoTask
    /\ delays' = [delays EXCEPT !.dark = NotifyObservers(@)]
    /\ IF delays.dark.notify = darkId
       THEN /\ IF request.supplied THEN UNCHANGED count ELSE ReadSuspendWakeupCount(count')
            /\ Raise("READY_TO_RESUSPEND")
       ELSE UNCHANGED <<count, queue>>
    /\ UNCHANGED <<rest, charge>>

\* resuspend_timer_
ResuspendTimerFires ==
    /\ LoopFree
    /\ resuspend = 0
    /\ resuspend' = Off
    /\ Raise("READY_TO_RESUSPEND")
    /\ UNCHANGED <<state, controllers, sfs, ids, request, attempts, count, inDark,
                   signals, process>>

\* A task of one controller, "normal" or "dark", that leaves it as c.
ControllerTask(k, c) ==
    /\ LoopFree
    /\ delays' = [delays EXCEPT ![k] = c]
    /\ UNCHANGED <<rest, queue, charge, count>>

MaxDelayExpires(k) == delays[k].maxTimer = 0 /\ ControllerTask(k, OnMaxDelayExpiration(delays[k]))

MinDelayExpires(k) == delays[k].minTimer = 0 /\ ControllerTask(k, OnMinDelayExpiration(delays[k]))

\* The D-Bus methods RegisterSuspendDelay, UnregisterSuspendDelay and
\* HandleSuspendReadiness, and their dark counterparts.
Register(k, timeout, client) ==
    /\ delays[k].nextId \in DelayIds
    /\ ControllerTask(k, RegisterSuspendDelay(delays[k], timeout, client))

Unregister(k, d) == ControllerTask(k, UnregisterSuspendDelay(delays[k], d))

Readiness(k, d, id) == ControllerTask(k, HandleSuspendReadiness(delays[k], d, id))

\* HandleDBusNameOwnerChanged()
ClientGone(client) ==
    /\ LoopFree
    /\ delays' = [normal |-> HandleDBusClientDisconnected(delays.normal, client),
                  dark   |-> HandleDBusClientDisconnected(delays.dark, client)]
    /\ UNCHANGED <<rest, queue, charge, count>>

\* A task of Charge Limit leaves w.
ChargeTask(w) ==
    /\ LoopFree
    /\ delays' = w.delays
    /\ charge' = w.charge
    /\ UNCHANGED <<rest, queue, count>>

Here == [delays |-> delays, charge |-> charge]

\* StartChargeLimit() as posted by Init(); with a full battery it does nothing
\* once the shutdown has begun.
PostedStartChargeLimit(ec) ==
    /\ charge.posted
    /\ LET w == [Here EXCEPT !.charge.posted = FALSE]
       IN  ChargeTask(IF shutdown = "started" /\ ec \in {"fullDischarges", "fullFails"}
                      THEN w ELSE StartChargeLimit(w, ec))

DischargeTimerFires(ec) ==
    /\ charge.timer = 0
    /\ ChargeTask(CompleteChargeLimit([Here EXCEPT !.charge.timer = Off], ec))

PolicyChange(policy, ec) ==
    /\ shutdown # "started"
    /\ ChargeTask(ChargeHandlePolicyChange(Here, policy.enable, policy.restart, ec))

ShutdownAlarm ==
    /\ LoopFree
    /\ sfs.timer
    /\ sfs' = OnShutdownTimerWake(sfs)
    /\ UNCHANGED <<state, queue, controllers, ids, request, attempts, count, resuspend,
                   inDark, signals, process>>

\* A driver raises the kernel's wakeup count.
KernelActivity ==
    /\ LoopFree
    /\ state \in WaitingStates
    /\ count' = IF count = "fresh" THEN "stale" ELSE count
    /\ UNCHANGED <<rest, queue, controllers>>

Tick ==
    /\ LoopFree
    /\ NothingDue(delays.normal) /\ NothingDue(delays.dark)
    /\ resuspend # 0 /\ charge.timer # 0 /\ ~charge.posted
    /\ \/ Running(resuspend) \/ Running(charge.timer)
       \/ \E k \in {"normal", "dark"} : Running(delays[k].maxTimer) \/ Running(delays[k].minTimer)
    /\ delays' = [normal |-> PassTime(delays.normal, 1), dark |-> PassTime(delays.dark, 1)]
    /\ charge' = [charge EXCEPT !.timer = Advance(@, 1)]
    /\ resuspend' = Advance(resuspend, 1)
    /\ UNCHANGED <<state, queue, sfs, ids, request, attempts, count, inDark, signals,
                   process>>

-----------------------------------------------------------------------------
(***************************************************************************)
(* Crashes.  upstart starts powerd again; ids of a new run are taken from  *)
(* another range, here simply never reused, and clients register anew.     *)
(***************************************************************************)

Elements(stages) == {stages[i] : i \in DOMAIN stages}

\* What the handler of the current event may have done outside powerd.
Interrupted ==
    IF queue = <<>> THEN {}
    ELSE CASE state = "IDLE" /\ Head(queue) = "SUSPEND_REQUESTED" ->
                Elements(StartRequestStages(outside))
           [] state \in WaitingStates /\ Head(queue) \in WakeEvents \cup {"SHUTDOWN_STARTED"} ->
                Elements(FinishRequestStages(outside))
           [] /\ state \in WaitingStates
              /\ Head(queue) \in {"SUSPEND_DELAYS_READY", "READY_TO_RESUSPEND"}
              /\ ~Ignored(Head(queue)) ->
                Elements(SuspendAudioStages(outside)) \cup
                Elements(FinishRequestStages(SuspendAudioStages(outside)[2]))
           [] OTHER -> {}

Crash ==
    /\ powerd = "up"
    /\ shutdown # "started"
    /\ crashes < MaxCrashes
    /\ powerd' = "down"
    /\ crashes' = crashes + 1
    /\ outside' \in {outside} \cup Interrupted
    /\ state' = "IDLE"
    /\ queue' = <<>>
    /\ delays' = [normal |-> NewController(delays.normal.nextId),
                  dark   |-> NewController(delays.dark.nextId)]
    /\ charge' = NewChargeLimit
    /\ sfs' = NewShutdownFromSuspend
    /\ request' = DefaultRequest
    /\ attempts' = 0
    /\ count' = "invalid"
    /\ resuspend' = Off
    /\ inDark' = FALSE
    /\ shutdown' = "no"
    /\ UNCHANGED ids

\* Init() runs through, or crashes again.
Restart ==
    /\ powerd = "down"
    /\ \/ /\ powerd' = "up"
          /\ outside' = InitStages(outside)[4]
          /\ UNCHANGED crashes
       \/ /\ crashes < MaxCrashes
          /\ crashes' = crashes + 1
          /\ outside' \in Elements(InitStages(outside))
          /\ UNCHANGED powerd
    /\ UNCHANGED <<state, queue, controllers, sfs, ids, request, attempts, count,
                   resuspend, inDark, shutdown>>

-----------------------------------------------------------------------------

Controllers == {"normal", "dark"}

ClientStep ==
    \E k \in Controllers :
        \/ \E timeout \in Timeouts, client \in Clients : Register(k, timeout, client)
        \/ \E d \in DelayIds : Unregister(k, d)
        \/ \E d \in DelayIds, id \in {requestId, darkId} : Readiness(k, d, id)

PolicyStep ==
    \E policy \in PolicyChanges, ec \in ChargerOutcomes : PolicyChange(policy, ec)

TimerStep ==
    \/ \E k \in Controllers : MaxDelayExpires(k) \/ MinDelayExpires(k)
    \/ NotifyNormal
    \/ NotifyDark
    \/ ResuspendTimerFires
    \/ \E ec \in ChargerOutcomes : PostedStartChargeLimit(ec) \/ DischargeTimerFires(ec)

Next ==
    \/ HandleEvent
    \/ SuspendRequested
    \/ \E event \in WakeEvents : WakeEventSeen(event)
    \/ ShutDownRequested
    \/ ClientStep
    \/ \E client \in Clients : ClientGone(client)
    \/ PolicyStep
    \/ TimerStep
    \/ ShutdownAlarm
    \/ KernelActivity
    \/ Tick
    \/ Crash
    \/ Restart

Spec == Init /\ [][Next]_vars

\* The message loop is fair: it runs tasks that are due however many events come
\* in between, and time passes.  (Fairness is strong because handling an event
\* is a step of its own here, during which no other task is enabled.)  upstart
\* restarts powerd; a lockfile is not held for ever, so a shutdown that is
\* retried gets through at last.  Nothing is assumed of clients, users or the
\* kernel, except that an attempt to suspend returns: it is part of the action.
Fairness ==
    /\ WF_vars(HandleEvent)
    /\ SF_vars(TimerStep \/ Tick)
    /\ WF_vars(Restart /\ powerd' = "up")
    /\ SF_vars(shutdown = "postponed" /\ ShutDownRequested /\ shutdown' = "started")

FairSpec == Spec /\ Fairness

-----------------------------------------------------------------------------

\* The event that HandleEvent() is about to be given.
Handling(event) == queue # <<>> /\ Head(queue) = event

\* IDLE means that nothing suspend-related is going on (suspender.h, DCHECKs in
\* HandleEvent() and StartRequest()): no dark resume, no timer left to fire, no
\* client waited for, the shutdown alarm off, audio as before the request unless
\* a crash came between telling CRAS and writing its file.
IdleIsClean ==
    state = "IDLE" =>
        /\ ~inDark
        /\ resuspend = Off
        /\ \A k \in Controllers : /\ delays[k].waiting = {}
                                  /\ delays[k].maxTimer = Off
                                  /\ delays[k].minTimer = Off
        /\ ~sfs.dark /\ ~sfs.timer /\ ~sfs.fired
        /\ powerd = "up" => ~outside.audioFile
        /\ crashes = 0 => ~outside.audio

\* Whenever clients were last told SuspendImminent, the suspend_announced file
\* is there, so that a powerd that is started after a crash tells them
\* SuspendDone; and in IDLE no client is left waiting for one.
ToldIsAnnounced ==
    /\ outside.told => outside.announced
    /\ powerd = "up" /\ state = "IDLE" => ~outside.told /\ ~outside.announced

\* A request goes on to its first attempt only when every delay that was waited
\* for has become ready, has gone or has timed out; readiness of an earlier
\* request, still posted when it was canceled, does not count.
SuspendsOnlyWhenReady ==
    state = "WAITING_FOR_NORMAL_SUSPEND_DELAYS" /\ Handling("SUSPEND_DELAYS_READY") =>
        delays.normal.waiting = {} /\ delays.normal.internal = {}

\* Retries are limited: powerd gives up and shuts down rather than wait for
\* another attempt once max_retries_ is exceeded, in dark resume as well.
RetriesAreBounded == state \in WaitingStates => attempts <= MaxRetries

\* Something will move a request on: in each waiting state a timer runs or a
\* notification for the current id is posted.
NoLostWakeup ==
    queue = <<>> =>
        CASE state = "WAITING_FOR_NORMAL_SUSPEND_DELAYS" ->
               Running(delays.normal.maxTimer) \/ delays.normal.notify = requestId
          [] state = "WAITING_FOR_DARK_SUSPEND_DELAYS" ->
               \/ Running(delays.dark.maxTimer) \/ Running(delays.dark.minTimer)
               \/ delays.dark.notify = darkId
          [] state = "WAITING_TO_RETRY_SUSPEND" -> Running(resuspend)
          [] OTHER -> TRUE

\* Once Daemon shuts down, Suspender knows when it is back in the message loop,
\* also if the shutdown began inside one of its own handlers.
ShutdownReachesSuspender == shutdown = "started" /\ queue = <<>> => state = "SHUTTING_DOWN"

\* The machine has slept and wakes up into dark resume.
DarkWake == darkId' # darkId /\ attempts' = 0

\* Clients that are told SuspendImminent are told SuspendDone in the end, over
\* aborts, retries, dark resumes and crashes, unless the system shuts down or
\* the machine goes on to sleep and to wake up into dark resume for ever: the
\* code has no limit on that, and attempts start from 0 after each such wake.
EveryAnnouncementEnds ==
    \/ outside.told ~> (~outside.told \/ shutdown = "started")
    \/ []<><<DarkWake>>_vars

\* A Suspender that gave up brings the shutdown about, over the lockfile that
\* postpones it, unless a crash of powerd makes it forget.
GivingUpShutsDown == state = "SHUTTING_DOWN" ~> (shutdown = "started" \/ powerd = "down")

\* The promise to clients, with a request in terms of Suspender's members.
Phase ==
    CASE shutdown = "started" -> "off"
      [] shutdown # "started" /\ state = "IDLE" -> "awake"
      [] shutdown # "started" /\ state = "WAITING_FOR_NORMAL_SUSPEND_DELAYS" -> "announced"
      [] OTHER -> "asleep"

Barrier ==
    INSTANCE SuspendBarrier
        WITH phase <- Phase,
             owed  <- IF Phase = "announced" THEN delays.normal.waiting ELSE {},
             tried <- attempts > 0 \/ inDark

\* Suspender keeps the promise of SuspendBarrier: no attempt to sleep for an
\* announced request before every delay is ready, gone or timed out.
KeepsBarrier == Barrier!Spec

-----------------------------------------------------------------------------
(***************************************************************************)
(* What documents and comments say and the code does not do.               *)
(***************************************************************************)

\* "Once the delay timer expires or when all Dark Resume clients respond ...
\* the system re-suspends again" (dark_resume.md).
DarkResumeWaitsForClients ==
    state = "WAITING_FOR_DARK_SUSPEND_DELAYS" /\ Handling("READY_TO_RESUSPEND") =>
        delays.dark.waiting = {}

=============================================================================
