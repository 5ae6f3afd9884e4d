----------------------------- MODULE MCSuspender -----------------------------
(* Finite instances of Suspender.                                           *)
EXTENDS Suspender

NoDelays == {}
OneDelay == {1}
MCTimeouts == {0, 2}
LongTimeout == {2}
Instant == {0}
InstantOrLong == {0, 2}
DefaultRequests == {DefaultRequest}
AllRequests == Requests
NoPolicies == {}
SwitchOff == {[enable |-> FALSE, restart |-> FALSE]}
=============================================================================
