---------------------------- MODULE MCTimerQueue ----------------------------
(***************************************************************************)
(* Three tasks of two priorities that sleep up to a second and a half.     *)
(***************************************************************************)
EXTENDS TimerQueue, TLC

CONSTANTS t1, t2, t3

MCTask     == {t1, t2, t3}
MCPriority == t1 :> PRI_SRV @@ t2 :> PRI_APP @@ t3 :> PRI_APP
=============================================================================
