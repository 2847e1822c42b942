------------------------------ MODULE MCInput ------------------------------
(***************************************************************************)
(* A keyboard and a mouse that send a few bytes, FS as the task that       *)
(* computes and faults.                                                    *)
(***************************************************************************)
EXTENDS InputEvents

(* The PIT on acpi interrupts as the HPET does.                            *)
MCPlatforms == {<<"ibmpc", "rtc">>, <<"ibmpc", "pit">>, <<"acpi", "hpet">>}

(* Ctrl, Alt and Del; the release of a prefixed key, then an error code.   *)
MCScripts == {<<29, 56, 83>>, <<224, 157, 0>>}

(* The first button is pressed and released.                               *)
MCPackets == <<<<9, 1, 255>>, <<8, 0, 0>>>>

MCBounds == {<<3, 0>>, <<1, 1>>, <<0, 2>>}

MCQuantums == {1, 100, 50000}
=============================================================================
