-------------------------- MODULE MCServiceManager --------------------------
(* A finite instance of ServiceManager: one service of the policy that has  *)
(* an owner by uid and requesters of both kinds, and one outside it.        *)
EXTENDS ServiceManager, TLC

CONSTANTS health, unlisted, healthd, diag, chrome

MCServices == {health, unlisted}
MCProcesses == {healthd, diag, chrome}
MCUidOf == (healthd :> 1) @@ (diag :> 2) @@ (chrome :> 2)
MCContextOf == (healthd :> "u:healthd") @@ (diag :> "u:diag") @@ (chrome :> "u:chrome")
MCPolicy ==
    health :> [ownersUid |-> {1}, owners |-> {},
               requestersUid |-> {1}, requesters |-> {"u:diag"}]
=============================================================================
