--------------------------- MODULE SuspendBarrier ---------------------------
(***************************************************************************)
(* What powerd promises the processes that register suspend delays         *)
(* (power_manager/docs/suspend_resume.md, suspend_delay_controller.h): the *)
(* system is not put to sleep for a request that was announced to them     *)
(* until each of them has answered, gone away or used up its time.         *)
(* Suspender refines this.                                                 *)
(***************************************************************************)
CONSTANT DelayIds

VARIABLES
    phase,  \* where the request is
    owed,   \* delays whose answer is still awaited
    tried   \* an attempt to sleep was made for the request

bvars == <<phase, owed, tried>>

Phases == {"awake", "announced", "asleep", "off"}

Init ==
    /\ phase = "awake"
    /\ owed = {}
    /\ tried = FALSE

\* Every registered delay owes an answer.
Announce ==
    /\ phase = "awake"
    /\ phase' = "announced"
    /\ owed' \in SUBSET DelayIds
    /\ tried' = FALSE

\* Answers, departures and timeouts.
Answer ==
    /\ phase = "announced"
    /\ owed' \in SUBSET owed
    /\ UNCHANGED <<phase, tried>>

\* The first attempt: the barrier.
Sleep ==
    /\ phase = "announced"
    /\ owed = {}
    /\ phase' \in {"asleep", "awake"}
    /\ tried' = TRUE
    /\ UNCHANGED owed

\* Retries and dark resumes, until the request is over.
SleepAgain ==
    /\ phase = "asleep"
    /\ phase' \in {"asleep", "awake"}
    /\ tried' \in BOOLEAN
    /\ UNCHANGED owed

\* The request is aborted before the first attempt.
Abort ==
    /\ phase = "announced"
    /\ phase' = "awake"
    /\ owed' = {}
    /\ UNCHANGED tried

\* powerd is started again and knows of no request.
Forget ==
    /\ phase # "off"
    /\ phase' = "awake"
    /\ owed' = {}
    /\ tried' = FALSE

\* The system shuts down, perhaps after one more attempt; then there is none.
ShutDown ==
    /\ phase' = "off"
    /\ owed' = {}
    /\ tried' \in BOOLEAN
    /\ tried' => tried \/ (phase # "off" /\ owed = {})

Next == Announce \/ Answer \/ Sleep \/ SleepAgain \/ Abort \/ Forget \/ ShutDown

Spec == Init /\ [][Next]_bvars

=============================================================================
