------------------------------ MODULE MCKernel ------------------------------
(***************************************************************************)
(* Small instances of Kernel for TLC: a filesystem service that is also    *)
(* init's peer, a device driver with one or two lines, and an application. *)
(***************************************************************************)
EXTENDS Kernel, TLC

CONSTANTS fs, drv, app, init, irq1, irq12

MCTask     == {fs, drv, app, init}
MCPriority == fs :> PRI_SRV @@ drv :> PRI_DRV @@ app :> PRI_APP @@ init :> PRI_SRV
MCIrqOf    == [t \in Task |-> IF t = drv THEN {irq1} ELSE {}]
MCSetIrqOf == [t \in Task |-> IF t = drv THEN Irq ELSE {}]

(* The application calls FS and is answered, the driver reports to FS.     *)
MCPeers    == {<<app, fs>>, <<fs, app>>, <<drv, fs>>, <<fs, init>>}

(* Two services and an application, no driver: every task is               *)
(* preemptible.  All of them may talk to all others and to themselves.     *)
LiveTask     == {fs, app, init}
LivePriority == fs :> PRI_SRV @@ app :> PRI_APP @@ init :> PRI_SRV
LivePeers    == LiveTask \X LiveTask
NoIrqOf      == [t \in Task |-> {}]

(* init sleeps, and is sent no messages; the others are busy.  FS also     *)
(* passes buffers that are refused, to itself.                             *)
SleepPeers   == {<<init, fs>>, <<init, app>>, <<app, fs>>, <<fs, fs>>}
=============================================================================
