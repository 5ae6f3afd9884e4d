------------------------ MODULE ShutdownFromSuspend ------------------------
(***************************************************************************)
(* power_manager/powerd/policy/shutdown_from_suspend.cc: decides, before a *)
(* suspend attempt that follows a dark resume, whether to shut down        *)
(* instead, because the device spent shutdown_from_suspend_sec in suspend  *)
(* or because its battery is low.  The object is a record, its methods are *)
(* operators.  The alarm is taken to exist: without CLOCK_REALTIME_ALARM   *)
(* the timer never runs, which is the case where it never fires.           *)
(***************************************************************************)
CONSTANT ShutdownEnabled  \* global_enabled_

ShutdownFromSuspendState ==
    [ dark  : BOOLEAN,    \* in_dark_resume_
      timer : BOOLEAN,    \* shutdown_alarm_timer_->IsRunning()
      fired : BOOLEAN ]   \* shutdown_timer_fired_

NewShutdownFromSuspend == [dark |-> FALSE, timer |-> FALSE, fired |-> FALSE]

\* line: PowerStatus::line_power_on; low: IsBatteryLow().
DetermineTargetState(s, line, low) ==
    IF ~line /\ (s.fired \/ low) THEN "SHUT_DOWN" ELSE "SUSPEND"

ConfigureShutdownTimer(s) ==
    IF s.timer THEN s ELSE [s EXCEPT !.timer = TRUE, !.fired = FALSE]

\* PrepareForSuspendAttempt(): the action it returns and the state it leaves.
ShutdownAction(s, line, low) ==
    IF ShutdownEnabled /\ s.dark THEN DetermineTargetState(s, line, low) ELSE "SUSPEND"

ShutdownPrepareForSuspendAttempt(s) ==
    IF ShutdownEnabled THEN ConfigureShutdownTimer(s) ELSE s

ShutdownHandleDarkResume(s) == [s EXCEPT !.dark = TRUE]

\* For a mutation run only: the alarm is left on.
MutantHandleFullResume(s) == [s EXCEPT !.dark = FALSE, !.fired = FALSE]

ShutdownHandleFullResume(s) ==
    [s EXCEPT !.dark = FALSE, !.timer = FALSE, !.fired = FALSE]

\* The one-shot alarm has gone off.
OnShutdownTimerWake(s) == [s EXCEPT !.fired = TRUE, !.timer = FALSE]

=============================================================================
