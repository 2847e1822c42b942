----------------------------- MODULE MCPickOrder -----------------------------
(***************************************************************************)
(* Three applications of a level, a low priority one and a task at the     *)
(* idle level.                                                             *)
(***************************************************************************)
EXTENDS PickOrder, TLC

CONSTANTS app1, app2, app3, low, saver

MCTask     == {app1, app2, app3, low, saver}
MCPriority ==
    [t \in Task |-> CASE t = low -> PRI_APP + 1 [] t = saver -> PRI_IDLE [] OTHER -> PRI_APP]
=============================================================================
