------------------------------- MODULE Input -------------------------------
(***************************************************************************)
(* User input from the wire to the pointer: the interrupt stubs (Isr.tla), *)
(* the PS/2 driver (Ps2.tla) and the user interface (src/ui), which also   *)
(* waits for the file system to be mounted (src/fs/main.c).                *)
(***************************************************************************)
EXTENDS Ps2

CONSTANTS
    fb_width, fb_height,
    lefthanded

ASSUME InputAssumption ==
    /\ UI # Worker
    /\ fb_width \in Nat /\ fb_height \in Nat
    /\ lefthanded \in BOOLEAN

VARIABLES
    mounted,        \* FS has mounted the file systems
    ui              \* started, keyflags and pointers of the user interface

vars == <<isrvars, ps2vars, mounted, ui>>

(* Cursor shapes that a click changes.                                     *)
VC_default == 0
VC_clicked == 2
VC_grab == 30
VC_grabbing == 31

(***************************************************************************)
(* The user interface                                                      *)
(***************************************************************************)
reset_pointers ==
    << [shape |-> 0, btn |-> 0, x |-> fb_width \div 2, y |-> (fb_height \div 2) + 64],
       [shape |-> 0, btn |-> 0, x |-> IF lefthanded THEN fb_width ELSE 0, y |-> fb_height] >>

(* The zeroes of the data segment, until task_init has a message.          *)
NoPointer == [shape |-> 0, btn |-> 0, x |-> 0, y |-> 0]

Shift == 1
Ctrl  == 2
Alt   == 4
Super == 8

modmap == <<0, 1, 2, 4, 8, 3, 5, 9, 6, 10, 12, 7, 11, 13, 14, 15>>

(* keymap_init reads no key map, so that every entry is empty.             *)
keymap(scancode, column) == 0

Symbol(u, scancode) ==
    LET k == keymap(scancode, modmap[u.keyflags + 1])
    IN  IF k # 0 THEN k ELSE keymap(scancode, 0)

HasFlag(flags, f) == (flags \div f) % 2 = 1

(* Code 0 clears the modifiers; a key that is one sets its flag.           *)
keypress(u, scancode) ==
    IF scancode = 0 THEN [u EXCEPT !.keyflags = 0]
    ELSE LET f == Symbol(u, scancode)
         IN  IF f \in {Shift, Ctrl, Alt, Super} /\ ~HasFlag(u.keyflags, f)
             THEN [u EXCEPT !.keyflags = @ + f] ELSE u

keyrelease(u, scancode) ==
    IF scancode = 0 THEN [u EXCEPT !.keyflags = 0]
    ELSE LET f == Symbol(u, scancode)
         IN  IF f \in {Shift, Ctrl, Alt, Super} /\ HasFlag(u.keyflags, f)
             THEN [u EXCEPT !.keyflags = @ - f] ELSE u

Clip(v, most) == IF v < 0 THEN 0 ELSE IF v > most THEN most ELSE v

(* The first two buttons change places for the left hand and again for a   *)
(* left-handed user; the third stays.                                      *)
Buttons(btn, hand) ==
    LET first  == HasFlag(btn, IF lefthanded THEN 2 ELSE 1)
        second == HasFlag(btn, IF lefthanded THEN 1 ELSE 2)
    IN  (IF first THEN 1 + hand ELSE 0) + (IF second THEN 2 - hand ELSE 0)
            + (IF HasFlag(btn, 4) THEN 4 ELSE 0)

(* The first button changes the shape, the release of all restores it.     *)
Shape(shape, btn) ==
    CASE shape = VC_default /\ btn % 2 = 1 -> VC_clicked
      [] shape = VC_clicked /\ btn = 0 -> VC_default
      [] shape = VC_grab /\ btn % 2 = 1 -> VC_grabbing
      [] shape = VC_grabbing /\ btn = 0 -> VC_grab
      [] OTHER -> shape

(* With Ctrl the pointer of the other hand is moved.                       *)
pointer(u, btn, dx, dy) ==
    LET hand == IF HasFlag(u.keyflags, Ctrl) THEN 1 ELSE 0
        b == Buttons(btn, hand)
    IN  [u EXCEPT !.pointers[hand + 1] =
            [@ EXCEPT !.btn = b, !.x = Clip(@ + dx, fb_width), !.y = Clip(@ - dy, fb_height),
                      !.shape = Shape(@, b)]]

Handle(u, m) ==
    CASE m[1] = "press" -> keypress(u, m[2])
      [] m[1] = "release" -> keyrelease(u, m[2])
      [] m[1] = "pointer" -> pointer(u, m[2], m[3], m[4])

Interfacing ==
    /\ phase = "ready"
    /\ cur = UI /\ at[UI] = User
    /\ mq[UI] # <<>>

(* task_init: the first message, whatever it is, ends the wait.            *)
UiStarts ==
    /\ Interfacing
    /\ ~ui.started
    /\ ui' = [ui EXCEPT !.started = TRUE, !.pointers = reset_pointers]
    /\ mq' = [mq EXCEPT ![UI] = Tail(@)]
    /\ UNCHANGED <<setup, phase, cal, pic, cur, regs, gpr, at, frame, awake, isr_next,
                   sys_fault, work, ps2vars, mounted>>

(* mq_dispatch: SYS_ack is skipped; an event is handled and acknowledged.  *)
UiDispatch ==
    LET m == Head(mq[UI])
        rest == [mq EXCEPT ![UI] = Tail(@)]
    IN  /\ Interfacing
        /\ ui.started
        /\ IF m[1] = "ack"
           THEN ui' = ui /\ mq' = rest /\ UNCHANGED <<awake, isr_next>>
           ELSE /\ ui' = Handle(ui, m)
                /\ mq' = [rest EXCEPT ![Driver] = ksend(@, <<"ack", 0>>)]
                /\ awake' = awake \cup {Driver}
                /\ isr_next' = Driver
        /\ UNCHANGED <<setup, phase, cal, pic, cur, regs, gpr, at, frame, sys_fault, work,
                       ps2vars, mounted>>

(***************************************************************************)
(* Boot and the other tasks                                                *)
(***************************************************************************)
(* sys_ready: the lines are enabled, and FS gets SYS_mountfs.              *)
SysReady ==
    /\ phase = "boot"
    /\ phase' = "ready"
    /\ cal' = NoCal
    /\ pic' = isr_fini
    /\ cur' = Worker
    /\ awake' = {Worker}
    /\ UNCHANGED <<setup, regs, gpr, at, frame, isr_next, mq, sys_fault, work, ps2vars,
                   mounted, ui>>

(* FS: "notify other system services that file system is ready".           *)
MountFs ==
    /\ phase = "ready"
    /\ cur = Worker /\ at[Worker] = User
    /\ ~mounted
    /\ mounted' = TRUE
    /\ Send(Worker, UI, <<"ack", 0>>)
    /\ UNCHANGED <<setup, phase, cal, pic, cur, regs, gpr, at, frame, sys_fault, work, ps2vars, ui>>

Init ==
    /\ IsrInit
    /\ Ps2Init
    /\ mounted = FALSE
    /\ ui = [started |-> FALSE, keyflags |-> 0, pointers |-> <<NoPointer, NoPointer>>]

Controller ==
    /\ TimerFires \/ CalTick \/ CalLoop \/ CalDone
    /\ UNCHANGED <<ps2vars, mounted, ui>>

Timer == (isr_irqtmr \/ isr_irqtmr_rtc) /\ UNCHANGED <<ps2vars, mounted, ui>>

Interrupt ==
    /\ \E l \in DeviceLines : isr_irq_master(l) \/ isr_irq_slave(l) \/ isr_irq_apic(l)
    /\ UNCHANGED <<ps2vars, mounted, ui>>

Exception ==
    /\ \/ \E e \in Faults : Fault(e)
       \/ \E t \in Task : isr_exc_pic(t) \/ isr_exce_pic(t) \/ isr_exc_apic(t) \/ isr_exce_apic(t)
    /\ UNCHANGED <<ps2vars, mounted, ui>>

DriverStep ==
    /\ Recv \/ DriverBlocks \/ Ack \/ Read \/ PollEnds \/ SendEvent \/ Reset
    /\ UNCHANGED <<mounted, ui>>

Device ==
    /\ \/ \E b \in UNION {Range(sc) : sc \in Scripts} : KeyByte(b)
       \/ MouseByte
    /\ UNCHANGED <<mounted, ui>>

OtherTask ==
    \/ Work /\ UNCHANGED <<ps2vars, mounted, ui>>
    \/ mounted /\ Block(Worker) /\ UNCHANGED <<ps2vars, mounted, ui>>
    \/ Block(UI) /\ UNCHANGED <<ps2vars, mounted, ui>>
    \/ MountFs \/ UiStarts \/ UiDispatch

Next == Controller \/ Timer \/ Interrupt \/ Exception \/ DriverStep \/ Device \/ OtherTask \/ SysReady

Spec == Init /\ [][Next]_vars

(* Interrupts that are pending are delivered in the end, and the driver is *)
(* not starved (the scheduler's promise, see Kernel.tla) and goes on with  *)
(* what it does.  Other tasks may stop, and devices may stay silent.       *)
FairSpec ==
    /\ Spec
    /\ WF_vars(Timer) /\ SF_vars(Interrupt)
    /\ []<>(cur = Driver \/ Driver \notin awake)
    /\ SF_vars(DriverStep)

(***************************************************************************)
(* Correctness                                                             *)
(***************************************************************************)
(* Every variable keeps its range; isr_maxirq never lets a line be routed  *)
(* that the controller does not have.                                      *)
TypeOK ==
    /\ platform \in {"ibmpc", "acpi"}
    /\ phase \in {"calibrate", "boot", "ready", "panic", "reset"}
    /\ pic.mask \subseteq Line /\ pic.irr \subseteq Line /\ pic.isv \subseteq Line
    /\ cur \in Task /\ awake \subseteq Task \ {Idle} /\ isr_next \in Task \cup {None}
    /\ regs \in {0, 1, 8} /\ \A t \in Task : gpr[t] \in {0, 1, 8} /\ at[t] \in Faults \cup {User}
    /\ \A t \in Task : Len(mq[t]) <= MqCap
    /\ ui.keyflags \in 0..15
    /\ \A h \in 1..2 : ui.pointers[h].btn \in 0..7

(* Every stub tells the controllers that are behind its line (the master,  *)
(* and the slave for lines 8 to 15): outside the stubs nothing is in       *)
(* service, so no line blocks another.                                     *)
NothingInService == pic.isv = {}

(* The clock does not stop: the RTC waits for an acknowledgement only      *)
(* while its interrupt is still to be delivered, and the cascade to the    *)
(* slave it is wired to is never masked.                                   *)
ClockRuns ==
    /\ pic.rtc \/ tmrirq \in pic.irr
    /\ platform = "ibmpc" => 2 \notin pic.mask
    /\ phase = "ready" => tmrirq \notin pic.mask

(* isr_tmrcalibrate measures one period of the timer, however its loop and *)
(* the interrupts interleave: the two time stamps are of successive ticks, *)
(* and the turns counted are those since the first of them.                *)
CalibratesOnePeriod ==
    phase = "boot" => cal.rax - cal.rbx = 1 /\ cal.rcx = cal.loops

(* isr_init's divisors fit the timer it found: at least ten interrupts to  *)
(* a task switch, and a second is never counted as more than a second.     *)
DivisorsFit ==
    /\ \A q \in Quantums : quantum(q) > 0 /\ qdiv(q) >= 10
    /\ alarmstep > 0 /\ alarmstep * tmrfreq <= 1000000

(* isr_savecontext and isr_loadcontext: when a task executes, its          *)
(* registers are what it left in them, whatever interrupts, faults and     *)
(* task switches have come between.                                        *)
ContextKept ==
    phase = "ready" /\ at[cur] = User => regs = IF cur = Worker THEN work ELSE 0

(* No byte is left in the controller: while one is there the line of its   *)
(* device is pending and enabled, or the driver has its SYS_IRQ message or *)
(* is about to read it.  dispatch.S acknowledges the interrupt before it   *)
(* reads the byte, since the IOAPIC forgets what a masked line asks for.   *)
NoByteStranded ==
    LET l == IF obuf.dev = "kbd" THEN 1 ELSE 12
    IN  phase = "ready" /\ obuf # Empty =>
            \/ l \in Pending(pic)
            \/ <<"irq", l>> \in Range(mq[Driver])
            \/ drv.pc \in {"ack", "read"} /\ drv.irq = l

(* Every byte that a device sends is read in the end.                      *)
BytesRead == obuf # Empty ~> (obuf = Empty \/ phase # "ready")

(* The timer is measured, divided and acknowledged so that time goes on    *)
(* (isr_tmrcalibrate, isr_init, isr_irqtmr_rtc).                           *)
TimerSound == CalibratesOnePeriod /\ DivisorsFit /\ ClockRuns

(* No line is stuck: neither in service in a controller nor with a byte    *)
(* that nobody will read (the stubs, isr_enableirq, dispatch.S).           *)
NoLineStuck == NothingInService /\ NoByteStranded
=============================================================================
