----------------------------- MODULE InputEvents -----------------------------
(***************************************************************************)
(* What the driver and the user interface (Input.tla) make of the bytes,   *)
(* compared with a reading of everything that was typed and moved.         *)
(***************************************************************************)
EXTENDS Input, SequencesExt

(* A scan code with the table its prefix selects, as a reference: byte n   *)
(* of what was typed, read together with the byte before it.               *)
KeyOf(bytes, n) ==
    LET p == IF n = 1 THEN 0 ELSE Prefix(bytes[n - 1])
        code == (bytes[n] % 128) + p
    IN  <<IF bytes[n] >= 128 /\ code # 0 THEN "release" ELSE "press", code>>

KeysOf(bytes) ==
    LET codes == SetToSortSeq({n \in DOMAIN bytes : Prefix(bytes[n]) = 0}, <)
    IN  [i \in DOMAIN codes |-> KeyOf(bytes, codes[i])]

SentKeys == SelectSeq(sent, LAMBDA e : e[1] # "pointer")

(* Every key reaches the user interface once, in order, with the right     *)
(* code, however mouse bytes and keyboard bytes are interleaved on the     *)
(* wire: what is sent is a beginning of what was typed (irq1).             *)
KeysDecoded ==
    esc \notin Range(typed) => IsPrefix(SentKeys, KeysOf(typed))

(* A pointer event is one packet of the mouse, never the end of one and    *)
(* the beginning of the next (irq12 has only its counter to tell).         *)
PacketsWhole ==
    LET moves == SelectSeq(sent, LAMBDA e : e[1] = "pointer")
    IN  /\ Len(moves) <= Len(moved)
        /\ \A n \in DOMAIN moves :
              moves[n] = <<"pointer", moved[n][1], signed(moved[n][2]), signed(moved[n][3])>>

(* The computer is reset only when Ctrl, Alt and Del were the last three   *)
(* keys pressed.                                                           *)
ResetByThreeKeys ==
    phase = "reset" =>
        LET k == SelectSeq(KeysOf(typed), LAMBDA e : e[1] = "press")
            n == Len(k)
        IN  /\ n >= 3
            /\ k[n - 2][2] % 256 = ctrl /\ k[n - 1][2] % 256 = alt /\ k[n][2] \in {del, del + 128}

(* The clicked shape is shown exactly while it should: never with no       *)
(* button down, and never the default one while the first button is down   *)
(* (pointer and setcursor).                                                *)
ShapeFollowsButtons ==
    \A h \in 1..2 :
        LET p == ui.pointers[h]
        IN  /\ p.shape \in {VC_clicked, VC_grabbing} => p.btn # 0
            /\ p.shape \in {VC_default, VC_grab} => p.btn % 2 = 0

(* What the driver makes of the bytes is what was typed and moved, and the *)
(* pointer shows it (irq1, irq12, pointer).                                *)
EventsTrue == TypeOK /\ KeysDecoded /\ PacketsWhole /\ ResetByThreeKeys /\ ShapeFollowsButtons
==============================================================================
