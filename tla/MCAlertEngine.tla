---------------------------- MODULE MCAlertEngine ----------------------------
EXTENDS AlertEngine, TLC

CONSTANTS d1, r1, r2, r3

\* A device that is offline and is woken, and two rules that keep one alert,
\* that of the device's backup task.
MCKind == r1 :> "offline" @@ r2 :> "backup" @@ r3 :> "backup"
MCFix == r1 :> "wol" @@ r2 :> "agent" @@ r3 :> "agent"
=============================================================================
