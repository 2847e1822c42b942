-------------------------------- MODULE Ps2 --------------------------------
(***************************************************************************)
(* The PS/2 driver (src/drivers/input/ps2): its loop in dispatch.S, the    *)
(* scan code translation of keyboard.S and the packets of mouse.S, with    *)
(* the 8042 controller it reads, whose one output byte belongs either to   *)
(* the keyboard or to the mouse.                                           *)
(***************************************************************************)
EXTENDS Isr, Functions

CONSTANTS
    UI,             \* services[-SRV_UI]
    Scripts,        \* what is typed: beginnings of these sequences of bytes
    Packets,        \* the packets the mouse sends, one after the other
    Bounds          \* <<k, p>>: k bytes of the keyboard and p packets at most

ASSUME Ps2Assumption ==
    /\ UI \in Others
    /\ Scripts \subseteq Seq(0..255)
    /\ Packets \in Seq(Seq(0..255)) /\ \A n \in DOMAIN Packets : Len(Packets[n]) = 3
    /\ Bounds \subseteq Nat \X Nat

VARIABLES
    obuf,           \* the 8042's output buffer
    mouse,          \* what the mouse still has to send of a packet
    typed,          \* bytes the keyboard has sent
    moved,          \* packets the mouse has sent
    drv,            \* the driver: where it is, kbd_prefix, kbd_hist, packet
    sent            \* events the driver has sent

devices == <<obuf, mouse, typed, moved>>
driver  == <<drv, sent>>
ps2vars == <<devices, driver>>

Empty == [dev |-> None, byte |-> 0]

(* mouse_init leaves the mouse enabled, at the beginning of a packet.      *)
mouse_init == [pc |-> "recv", irq |-> 0, prefix |-> 0, hist |-> <<0, 0>>,
               packet |-> <<>>, cntmax |-> 3, event |-> <<>>]

Ps2Init ==
    /\ obuf = Empty
    /\ mouse = <<>>
    /\ typed = <<>> /\ moved = <<>>
    /\ drv = mouse_init
    /\ sent = <<>>

(***************************************************************************)
(* The devices: a byte is put into the empty buffer, and the line raised.  *)
(***************************************************************************)
Within(k, p) == \E b \in Bounds : k <= b[1] /\ p <= b[2]

KeyByte(b) ==
    /\ phase = "ready"
    /\ obuf = Empty
    /\ Within(Len(typed) + 1, Len(moved))
    /\ \E sc \in Scripts : Len(typed) < Len(sc) /\ SubSeq(sc, 1, Len(typed) + 1) = Append(typed, b)
    /\ obuf' = [dev |-> "kbd", byte |-> b]
    /\ typed' = Append(typed, b)
    /\ pic' = Signal(pic, 1)
    /\ UNCHANGED <<setup, phase, cal, tasks, mouse, moved, driver>>

MouseByte ==
    LET next == IF mouse = <<>> THEN Packets[Len(moved) + 1] ELSE mouse
    IN  /\ phase = "ready"
        /\ obuf = Empty
        /\ mouse = <<>> =>
              Len(moved) < Len(Packets) /\ Within(Len(typed), Len(moved) + 1)
        /\ obuf' = [dev |-> "mouse", byte |-> Head(next)]
        /\ mouse' = Tail(next)
        /\ moved' = IF mouse = <<>> THEN Append(moved, next) ELSE moved
        /\ pic' = Signal(pic, 12)
        /\ UNCHANGED <<setup, phase, cal, tasks, typed, driver>>

(***************************************************************************)
(* The driver                                                              *)
(***************************************************************************)
Driving(pc) ==
    /\ phase = "ready"
    /\ cur = Driver /\ at[Driver] = User
    /\ drv.pc = pc

(* mq_recv: messages other than SYS_IRQ are dropped.                       *)
Recv ==
    /\ Driving("recv")
    /\ mq[Driver] # <<>>
    /\ LET m == Head(mq[Driver])
       IN  drv' = IF m[1] = "irq" /\ m[2] \in {1, 12}
                  THEN [drv EXCEPT !.pc = "ack", !.irq = m[2]] ELSE drv
    /\ mq' = [mq EXCEPT ![Driver] = Tail(@)]
    /\ UNCHANGED <<setup, phase, cal, pic, cur, regs, gpr, at, frame, awake, isr_next,
                   sys_fault, work, devices, sent>>

DriverBlocks == drv.pc = "recv" /\ Block(Driver) /\ UNCHANGED ps2vars

(* Faulty: the line stays masked.                                          *)
Ack_masked ==
    /\ Driving("ack")
    /\ drv' = [drv EXCEPT !.pc = "read"]
    /\ UNCHANGED <<setup, phase, cal, pic, tasks, devices, sent>>

(* SYS_ack: the line is enabled again, before the device is read.          *)
Ack ==
    /\ Driving("ack")
    /\ pic' = IF route[drv.irq] = Driver THEN isr_enableirq(pic, drv.irq) ELSE pic
    /\ drv' = [drv EXCEPT !.pc = "read"]
    /\ UNCHANGED <<setup, phase, cal, tasks, devices, sent>>

(* The scan code of a byte: a release has its high bit set, and a prefix   *)
(* selects another table of 128 codes.                                     *)
Prefix(b) == CASE b = 224 -> 128 [] b = 225 -> 256 [] b = 255 -> 384 [] OTHER -> 0

ctrl == 29
alt  == 56
del  == 83
esc  == 1

(* irq1, after the byte has been read.  Code 0 is sent as a key press,     *)
(* whatever its high bit; Ctrl, Alt and then Del reset the computer, and   *)
(* Ctrl, Alt and then Esc call the debugger and are sent as code 0.        *)
irq1(d, b) ==
    LET code == (b % 128) + d.prefix
        held == d.hist = <<alt, ctrl>>
    IN  IF Prefix(b) # 0 THEN [d EXCEPT !.pc = "recv", !.prefix = Prefix(b)]
        ELSE IF code # 0 /\ b >= 128
        THEN [d EXCEPT !.pc = "send", !.prefix = 0, !.event = <<"release", code>>]
        ELSE IF code # 0 /\ held /\ code \in {del, del + 128}
        THEN [d EXCEPT !.pc = "reset", !.prefix = 0]
        ELSE LET c == IF code = esc /\ held THEN 0 ELSE code
             IN  [d EXCEPT !.pc = "send", !.prefix = 0, !.hist = <<c % 256, d.hist[1]>>,
                           !.event = <<"press", c>>]

signed(b) == IF b >= 128 THEN b - 256 ELSE b

(* Faulty: the packet is sent a byte early.                                *)
irq12_early(d, b) ==
    LET p == Append(d.packet, b)
    IN  IF Len(p) < d.cntmax - 1 THEN [d EXCEPT !.pc = "recv", !.packet = p]
        ELSE [d EXCEPT !.pc = "send", !.packet = <<>>,
                       !.event = <<"pointer", p[1], signed(p[2]), 0>>]

(* irq12, after the byte has been read.                                    *)
irq12(d, b) ==
    LET p == Append(d.packet, b)
    IN  IF Len(p) < d.cntmax THEN [d EXCEPT !.pc = "recv", !.packet = p]
        ELSE [d EXCEPT !.pc = "send", !.packet = <<>>,
                       !.event = <<"pointer", p[1], signed(p[2]), signed(p[3])>>]

(* irq1 takes any byte that is there, irq12 only one of the mouse.  If     *)
(* there is none the polling loop ends.                                    *)
Ready == IF drv.irq = 1 THEN obuf # Empty ELSE obuf.dev = "mouse"

Read ==
    /\ Driving("read")
    /\ Ready
    /\ drv' = IF drv.irq = 1 THEN irq1(drv, obuf.byte) ELSE irq12(drv, obuf.byte)
    /\ obuf' = Empty
    /\ pic' = Drop(pic, IF obuf.dev = "kbd" THEN 1 ELSE 12)
    /\ UNCHANGED <<setup, phase, cal, tasks, mouse, typed, moved, sent>>

PollEnds ==
    /\ Driving("read")
    /\ ~Ready
    /\ drv' = [drv EXCEPT !.pc = "recv"]
    /\ UNCHANGED <<setup, phase, cal, pic, tasks, devices, sent>>

(* The event is sent to the user interface.                                *)
SendEvent ==
    /\ Driving("send")
    /\ Send(Driver, UI, drv.event)
    /\ drv' = [drv EXCEPT !.pc = "recv", !.event = <<>>]
    /\ sent' = Append(sent, drv.event)
    /\ UNCHANGED <<setup, phase, cal, pic, cur, regs, gpr, at, frame, sys_fault, work, devices>>

(* 0xFE to the keyboard controller.                                        *)
Reset ==
    /\ Driving("reset")
    /\ phase' = "reset"
    /\ UNCHANGED <<setup, cal, pic, tasks, ps2vars>>
=============================================================================
