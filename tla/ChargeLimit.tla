----------------------------- MODULE ChargeLimit -----------------------------
(***************************************************************************)
(* The Charge Limit feature of power_manager/powerd/policy/                *)
(* adaptive_charging_controller.cc, the one user of Suspender's internal   *)
(* delays: with a full battery it discharges for a second before it turns  *)
(* the battery sustainer on, and holds up suspend meanwhile.               *)
(*                                                                         *)
(* Its calls reach both delay controllers of Suspender, so the operators   *)
(* map a record w of the two controllers and the feature's own state.      *)
(* The charging predictions and the sustainer's range are left out.        *)
(***************************************************************************)
EXTENDS SuspendDelayController

CONSTANTS
    ChargeLimitDelay,   \* charge_limit_delay_, a SuspendInternalDelay
    DischargeDelay,     \* kBatterySustainAfterDischargeDelay, 1 s
    ChargeLimitPref     \* kChargeLimitEnabledPref at start-up

ASSUME ChargeLimitAssumption ==
    /\ ChargeLimitDelay \in InternalDelays
    /\ DischargeDelay \in Nat
    /\ ChargeLimitPref \in BOOLEAN

\* The two controllers of a Suspender.
Delays == [normal : Controller, dark : Controller]

\* Suspender::AddSuspendInternalDelay(): the value it returns ...
InternalDelayAdded(ds) ==
    AcceptsInternalDelay(ds.normal) /\ AcceptsInternalDelay(ds.dark)

\* ... and what it does; a delay the dark controller refuses is taken back
\* from the normal one, which may post a readiness notification.
SuspenderAddInternalDelay(ds, delay) ==
    LET normal == AddSuspendInternalDelay(ds.normal, delay)
    IN  IF ~AcceptsInternalDelay(ds.normal)
        THEN ds
        ELSE IF ~AcceptsInternalDelay(ds.dark)
        THEN [ds EXCEPT !.normal = RemoveSuspendInternalDelay(normal, delay)]
        ELSE [normal |-> normal, dark |-> AddSuspendInternalDelay(ds.dark, delay)]

SuspenderRemoveInternalDelay(ds, delay) ==
    [normal |-> RemoveSuspendInternalDelay(ds.normal, delay),
     dark   |-> RemoveSuspendInternalDelay(ds.dark, delay)]

ChargeLimitState ==
    [ enabled : BOOLEAN,  \* charge_limit_enabled_
      sustain : BOOLEAN,  \* is_sustain_set_
      timer   : {Off} \cup 0..DischargeDelay,  \* charge_limit_discharge_timer_
      posted  : BOOLEAN ] \* Init() posted StartChargeLimit()

\* Init()
NewChargeLimit ==
    [ enabled |-> ChargeLimitPref, sustain |-> FALSE, timer |-> Off,
      posted |-> ChargeLimitPref ]

World == [delays : Delays, charge : ChargeLimitState]

\* What StartChargeLimit() may meet: a battery that is not full, or a full one
\* whose discharge can or cannot be forced; an EC that does or does not take
\* the sustainer's range.
ChargerOutcomes == {"sustained", "notSustained", "fullDischarges", "fullFails"}

CompleteChargeLimit(w, ec) ==
    [ delays |-> SuspenderRemoveInternalDelay(w.delays, ChargeLimitDelay),
      charge |-> IF w.charge.enabled /\ ec = "notSustained"
                 THEN [w.charge EXCEPT !.enabled = FALSE, !.sustain = FALSE]
                 ELSE w.charge ]

StartChargeLimit(w, ec) ==
    LET added == SuspenderAddInternalDelay(w.delays, ChargeLimitDelay)
    IN  IF w.charge.sustain
        THEN w
        ELSE IF ec \in {"sustained", "notSustained"}
        THEN CompleteChargeLimit([w EXCEPT !.charge.sustain = TRUE], ec)
        ELSE IF ~InternalDelayAdded(w.delays)
        THEN [w EXCEPT !.delays = added]
        ELSE IF ec = "fullFails"
        THEN [ delays |-> SuspenderRemoveInternalDelay(added, ChargeLimitDelay),
               charge |-> [w.charge EXCEPT !.enabled = FALSE] ]
        ELSE [ delays |-> added,
               charge |-> [w.charge EXCEPT !.sustain = TRUE, !.timer = DischargeDelay] ]

StopChargeLimit(w) ==
    [ delays |-> SuspenderRemoveInternalDelay(w.delays, ChargeLimitDelay),
      charge |-> [w.charge EXCEPT !.timer = Off, !.sustain = FALSE] ]

\* HandlePolicyChange(): restart is restart_adaptive, without which a Charge
\* Limit that is switched on is not started here.
ChargeHandlePolicyChange(w, enable, restart, ec) ==
    LET switched == [w EXCEPT !.charge.enabled = enable]
        changed  == IF w.charge.enabled /\ ~enable THEN StopChargeLimit(switched)
                                                   ELSE switched
    IN  IF restart /\ enable THEN StartChargeLimit(changed, ec) ELSE changed

\* HandleFullResume() and HandleDarkResume()
ChargeHandleResume(w, ec) ==
    IF w.charge.enabled /\ ~w.charge.sustain THEN StartChargeLimit(w, ec) ELSE w

\* PrepareForSuspendAttempt(), and HandleShutdown(), stop a discharge that is
\* under way; the internal delay stays where it is.
ChargeStopDischarge(charge) ==
    IF Running(charge.timer)
    THEN [charge EXCEPT !.timer = Off, !.sustain = FALSE]
    ELSE charge

=============================================================================
