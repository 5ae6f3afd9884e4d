--------------------------- MODULE MCSuspendDelays ---------------------------
(* Finite instances of SuspendDelays.                                       *)
EXTENDS SuspendDelays

MCDelayIds == 1..2
MCTimeouts == {-1, 0, 1, 3}
=============================================================================
