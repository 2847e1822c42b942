-------------------------------- MODULE Isr --------------------------------
(***************************************************************************)
(* Interrupt entry on the two PC platforms: the interrupt controllers, the *)
(* calibration of the timer, and the stubs of exceptions, of the timer and *)
(* of device interrupts (src/core/x86_64/ibmpc/isrs.S with the 8259 pair,  *)
(* src/core/x86_64/acpi/isrs.S with IOAPIC and APIC, isr.c, isrc.S).       *)
(*                                                                         *)
(* A stub behind an interrupt gate is one action.  An exception passes a   *)
(* trap gate: until the cli of its stub another interrupt may come in, so  *)
(* the fault and the stub are two actions.  The scheduler is reduced to    *)
(* the tasks that are awake; Kernel.tla has it in full.                    *)
(***************************************************************************)
EXTENDS Integers, Sequences, FiniteSets, FiniteSetsExt

CONSTANTS
    Platforms,      \* <<platform, clocksource>> to look at
    Driver,         \* the task the device lines are routed to
    Others,         \* other tasks
    Worker,         \* the one of them that computes and may fault
    Idle,           \* the idle task
    DeviceLines,    \* the lines of the driver
    IoapicMax,      \* maximum redirection entry the IOAPIC reports
    Faults,         \* exceptions that may happen
    MqCap,          \* messages a queue holds
    Quantums,       \* values of quantum= on the command line
    MaxLoops        \* bound on the calibration loop

(* clock= chooses, and a platform falls back to the PIT.                   *)
platform_timer_ibmpc == {"pit", "rtc"}
platform_timer_acpi  == {"pit", "hpet"}

ASSUME IsrAssumption ==
    /\ \A p \in Platforms : \/ p[1] = "ibmpc" /\ p[2] \in platform_timer_ibmpc
                            \/ p[1] = "acpi" /\ p[2] \in platform_timer_acpi
    /\ Worker \in Others /\ Driver \notin Others /\ Idle \notin Others /\ Idle # Driver
    /\ IoapicMax \in 2..127
    /\ DeviceLines \subseteq 1..15 \ {2, 8}
    /\ Faults \subseteq 0..31
    /\ MqCap \in Nat \ {0} /\ MaxLoops \in Nat \ {0}
    /\ Quantums \subseteq Nat

Task == Others \cup {Driver, Idle}
Line == 0..15
None == "none"
User == 99          \* in at and sys_fault: no stub, no fault

VARIABLES
    platform,       \* "ibmpc" or "acpi"
    clocksource,    \* "pit", "rtc" or "hpet"
    phase,          \* "calibrate", "boot", "ready", "panic" or "reset"
    cal,            \* the registers of isr_tmrcalibrate
    pic,            \* the interrupt controller
    route,          \* irq_routing_table
    cur,            \* the task whose address space is mapped
    regs,           \* the general registers, as one value
    gpr,            \* their copy in each task control block
    at,             \* the fault whose stub a task is to execute, or User
    frame,          \* whose rip is in the frame at the end of its page 0
    awake,          \* the tasks in the active queues
    isr_next,       \* the task to switch to at the next tick
    mq,             \* message queues
    sys_fault,      \* the exception last found to be the core's
    work            \* the worker's own view of its registers

isrvars == <<platform, clocksource, phase, cal, pic, route, cur, regs, gpr,
             at, frame, awake, isr_next, mq, sys_fault, work>>

(***************************************************************************)
(* Interrupt controllers: masked and requested lines, lines in service,    *)
(* and whether the RTC has been told that its last interrupt was seen.     *)
(***************************************************************************)
tmrirq  == IF clocksource = "rtc" THEN 8 ELSE 0
tmrfreq == CASE clocksource = "pit" -> 1000
             [] clocksource = "rtc" -> 1024
             [] clocksource = "hpet" -> 100000

(* The hardware: a request on a masked line is remembered by the 8259, and *)
(* lost by the IOAPIC, whose entries are set up edge triggered.            *)
Signal(p, l) ==
    IF platform = "acpi" /\ l \in p.mask THEN p ELSE [p EXCEPT !.irr = @ \cup {l}]

(* The device has been served: the 8259 forgets a request still pending.   *)
Drop(p, l) == IF platform = "acpi" THEN p ELSE [p EXCEPT !.irr = @ \ {l}]

(* Lower comes first: the slave is behind line 2 of the master, while an   *)
(* APIC compares the upper four bits of the vectors.                       *)
Rank(l) ==
    CASE platform = "acpi" -> 0 - ((l + 32) \div 16)
      [] platform = "ibmpc" -> IF l >= 8 THEN 16 + (l - 8) ELSE 8 * l

Pending(p) ==
    IF platform = "acpi" THEN p.irr
    ELSE {l \in p.irr \ p.mask : l >= 8 => 2 \notin p.mask}

Deliverable(l) ==
    /\ l \in Pending(pic)
    /\ \A k \in pic.isv : Rank(l) < Rank(k)
    /\ \A k \in Pending(pic) : Rank(l) <= Rank(k)

Accept(p, l) ==
    [p EXCEPT !.irr = @ \ {l},
              !.isv = @ \cup (IF platform = "ibmpc" /\ l >= 8 THEN {l, 2} ELSE {l})]

(* outb to PIC_MASTER or PIC_SLAVE, or a write to APIC_EOI: the most       *)
(* urgent line in service is done.                                         *)
Done(p, lines) ==
    LET in == p.isv \cap lines
        top == {l \in in : \A k \in in : Rank(l) <= Rank(k)}
    IN  IF in = {} THEN p
        ELSE [p EXCEPT !.isv = @ \ {IF platform = "acpi" THEN Max(top) ELSE Min(top)}]

Eoi(p, l) ==
    CASE platform = "acpi" -> Done(p, Line)
      [] platform = "ibmpc" -> Done(IF l >= 8 THEN Done(p, 8..15) ELSE p, 0..7)

enableirq_pic(p, irq) == [p EXCEPT !.mask = @ \ {irq % 16}]

(* Line 2 is the cascade and stays enabled.                                *)
disableirq_pic(p, irq) ==
    IF irq = 2 \/ (irq >= 8 /\ irq % 16 < 8) THEN p
    ELSE [p EXCEPT !.mask = @ \cup {irq % 16}]

enableirq_apic(p, irq) == [p EXCEPT !.mask = @ \ {irq}]

disableirq_apic(p, irq) == [p EXCEPT !.mask = @ \cup {irq}]

isr_enableirq(p, irq) ==
    IF platform = "acpi" THEN enableirq_apic(p, irq) ELSE enableirq_pic(p, irq)

isr_disableirq(p, irq) ==
    IF platform = "acpi" THEN disableirq_apic(p, irq) ELSE disableirq_pic(p, irq)

inithw_pic ==
    [pic |-> [mask |-> Line \ {2}, irr |-> {}, isv |-> {}, rtc |-> TRUE], maxirq |-> 16]

(* The IOAPIC lines are masked one by one; isr_maxirq is the largest entry *)
(* less one.                                                               *)
inithw_apic ==
    LET n == IF IoapicMax - 1 < 32 THEN IoapicMax - 1 ELSE 32
    IN  [pic |-> [mask |-> Line, irr |-> {}, isv |-> {}, rtc |-> TRUE], maxirq |-> n]

isr_maxirq == (IF platform = "acpi" THEN inithw_apic ELSE inithw_pic).maxirq

(***************************************************************************)
(* isr_init                                                                *)
(***************************************************************************)
(* The limits isr_init puts on quantum=, and what it derives.              *)
quantum(q) ==
    LET atleast == IF q < 10 THEN 10 ELSE q
    IN  IF atleast > tmrfreq \div 10 THEN tmrfreq \div 10 ELSE atleast

alarmstep == LET st == 1000000 \div tmrfreq IN IF st < 1 THEN 1 ELSE st
qdiv(q)   == tmrfreq \div quantum(q)

NoCal == [rax |-> 0, rbx |-> 0, rcx |-> 0, tsc |-> 0, loops |-> 0, exit |-> FALSE]

(* Up to the sti of isr_tmrcalibrate, with the timer unmasked.  tsc counts *)
(* ticks, loops the turns since the first one.                             *)
IsrInit ==
    /\ \E p \in Platforms : platform = p[1] /\ clocksource = p[2]
    /\ phase = "calibrate"
    /\ cal = NoCal
    /\ pic = isr_enableirq((IF platform = "acpi" THEN inithw_apic ELSE inithw_pic).pic, tmrirq)
    /\ route = [l \in Line |-> IF l \in DeviceLines /\ l < isr_maxirq THEN Driver ELSE Idle]
    /\ cur = Idle
    /\ regs = 0
    /\ gpr = [t \in Task |-> 0]
    /\ at = [t \in Task |-> User]
    /\ frame = [t \in Task |-> "user"]
    /\ awake = {}
    /\ isr_next = None
    /\ mq = [t \in Task |-> <<>>]
    /\ sys_fault = User
    /\ work = 0

tasks == <<cur, regs, gpr, at, frame, awake, isr_next, mq, sys_fault, work>>
setup == <<platform, clocksource, route>>

(* The timer asks for an interrupt.  The RTC does so only after the last   *)
(* one has been acknowledged in its register C.                            *)
TimerFires ==
    /\ tmrirq \notin pic.irr
    /\ clocksource = "rtc" => pic.rtc
    /\ phase = "calibrate" => cal.tsc < 4
    /\ pic' = [Signal(pic, tmrirq) EXCEPT !.rtc = clocksource # "rtc"]
    /\ UNCHANGED <<setup, phase, cal, tasks>>

Acknowledged(p) == [p EXCEPT !.rtc = TRUE]

(* Faulty: the counter is not reset at the first tick.                     *)
CalTick_keep ==
    /\ phase = "calibrate"
    /\ Deliverable(tmrirq)
    /\ pic' = Acknowledged(Eoi(Accept(pic, tmrirq), tmrirq))
    /\ cal' = [cal EXCEPT !.rbx = cal.rax, !.rax = cal.tsc + 1, !.tsc = @ + 1,
                          !.loops = IF cal.tsc = 0 THEN 0 ELSE @]
    /\ UNCHANGED <<setup, phase, tasks>>

(* isr_irqtmrcal, isr_irqtmrcal_rtc.                                       *)
CalTick ==
    /\ phase = "calibrate"
    /\ Deliverable(tmrirq)
    /\ pic' = Acknowledged(Eoi(Accept(pic, tmrirq), tmrirq))
    /\ cal' = [cal EXCEPT !.rcx = IF cal.rax = 0 THEN 0 ELSE @,
                          !.rbx = cal.rax, !.rax = cal.tsc + 1, !.tsc = @ + 1,
                          !.loops = IF cal.tsc = 0 THEN 0 ELSE @]
    /\ UNCHANGED <<setup, phase, tasks>>

(* One turn of the loop: it is left once rbx is set.                       *)
CalLoop ==
    /\ phase = "calibrate"
    /\ ~cal.exit
    /\ cal.rcx < MaxLoops
    /\ cal' = [cal EXCEPT !.rcx = @ + 1, !.loops = @ + 1, !.exit = cal.rbx # 0]
    /\ UNCHANGED <<setup, phase, pic, tasks>>

(* cli, then isr_disableirq: the tasks are loaded.                         *)
CalDone ==
    /\ phase = "calibrate"
    /\ cal.exit
    /\ phase' = "boot"
    /\ pic' = isr_disableirq(pic, tmrirq)
    /\ UNCHANGED <<setup, cal, tasks>>

(* Faulty: only the timer is unmasked.                                     *)
isr_fini_timer == [pic EXCEPT !.mask = @ \ {tmrirq}]

(* isr_fini: the timer and the routed lines are unmasked.                  *)
isr_fini ==
    LET on == {l \in Line : l < isr_maxirq /\ (l = tmrirq \/ route[l] # Idle)}
    IN  [pic EXCEPT !.mask = @ \ on]

(***************************************************************************)
(* Tasks                                                                   *)
(***************************************************************************)
(* ksend: a full queue loses its oldest message.                           *)
ksend(q, m) == IF Len(q) < MqCap THEN Append(q, m) ELSE Append(Tail(q), m)

(* sched_pick, reduced to its outcome: some task that is awake.            *)
Pickable(a) == IF a = {} THEN {Idle} ELSE a

(* isr_savecontext in the old address space, isr_loadcontext in the new.   *)
SwitchTo(t) ==
    /\ cur' = t
    /\ gpr' = [gpr EXCEPT ![cur] = regs]
    /\ regs' = IF t = cur THEN regs ELSE gpr[t]

(* msg_sends: the receiver is awaken, and runs at the next tick.           *)
Send(t, d, m) ==
    /\ mq' = [mq EXCEPT ![d] = ksend(@, m)]
    /\ awake' = awake \cup {d}
    /\ isr_next' = d

(* SYS_recv with no message: the call is repeated when the task runs.      *)
Block(t) ==
    /\ phase = "ready"
    /\ cur = t /\ at[t] = User
    /\ mq[t] = <<>>
    /\ awake' = awake \ {t}
    /\ \E n \in Pickable(awake \ {t}) : SwitchTo(n)
    /\ isr_next' = None
    /\ UNCHANGED <<setup, phase, cal, pic, at, frame, mq, sys_fault, work>>

(* The worker computes, which changes its registers (once, as a bound).    *)
Work ==
    /\ phase = "ready"
    /\ cur = Worker /\ at[Worker] = User
    /\ work = 0
    /\ work' = 1
    /\ regs' = 1
    /\ UNCHANGED <<setup, phase, cal, pic, cur, gpr, at, frame, awake, isr_next, mq, sys_fault>>

(***************************************************************************)
(* Stubs                                                                   *)
(***************************************************************************)
(* The frame an interrupt on the first stack pushes: it covers the one of  *)
(* a fault whose stub has not begun.                                       *)
Pushed == [frame EXCEPT ![cur] = IF at[cur] = User THEN "user" ELSE "core"]

(* What isr_timer may leave in isr_next: the task a message was sent to,   *)
(* or, while no driver runs, one that sched_pick or an alarm has chosen.   *)
isr_timer ==
    (IF isr_next = None THEN {cur} ELSE {isr_next})
        \cup (IF cur = Driver THEN {} ELSE Pickable(awake))

(* Faulty: the registers are saved after the switch.                       *)
isr_irqtmr_late ==
    /\ phase = "ready"
    /\ Deliverable(tmrirq)
    /\ pic' = Eoi(Accept(pic, tmrirq), tmrirq)
    /\ frame' = Pushed
    /\ \E n \in isr_timer :
          /\ cur' = n
          /\ gpr' = [gpr EXCEPT ![n] = regs]
          /\ regs' = regs
    /\ isr_next' = None
    /\ UNCHANGED <<setup, phase, cal, at, awake, mq, sys_fault, work>>

(* The timer interrupt.                                                    *)
isr_irqtmr ==
    /\ phase = "ready"
    /\ clocksource # "rtc"
    /\ Deliverable(tmrirq)
    /\ pic' = Eoi(Accept(pic, tmrirq), tmrirq)
    /\ frame' = Pushed
    /\ \E n \in isr_timer : SwitchTo(n)
    /\ isr_next' = None
    /\ UNCHANGED <<setup, phase, cal, at, awake, mq, sys_fault, work>>

(* The same with the RTC, which is acknowledged as well.                   *)
isr_irqtmr_rtc ==
    /\ phase = "ready"
    /\ clocksource = "rtc"
    /\ Deliverable(tmrirq)
    /\ pic' = Acknowledged(Eoi(Accept(pic, tmrirq), tmrirq))
    /\ frame' = Pushed
    /\ \E n \in isr_timer : SwitchTo(n)
    /\ isr_next' = None
    /\ UNCHANGED <<setup, phase, cal, at, awake, mq, sys_fault, work>>

(* A device interrupt: the driver is mapped and made runnable, the line    *)
(* masked, and SYS_IRQ queued.                                             *)
IrqStub(l, p) ==
    /\ phase = "ready"
    /\ l # tmrirq
    /\ Deliverable(l)
    /\ pic' = isr_disableirq(p, l)
    /\ frame' = Pushed
    /\ SwitchTo(route[l])
    /\ awake' = awake \cup {route[l]}
    /\ mq' = [mq EXCEPT ![route[l]] = ksend(@, <<"irq", l>>)]
    /\ UNCHANGED <<setup, phase, cal, at, isr_next, sys_fault, work>>

isr_irq_master(l) == platform = "ibmpc" /\ l < 8 /\ IrqStub(l, Done(Accept(pic, l), 0..7))

isr_irq_slave(l) ==
    platform = "ibmpc" /\ l >= 8 /\ IrqStub(l, Done(Done(Accept(pic, l), 8..15), 0..7))

isr_irq_apic(l) == platform = "acpi" /\ IrqStub(l, Done(Accept(pic, l), Line))

(***************************************************************************)
(* Exceptions                                                              *)
(***************************************************************************)
Ist(e) == CASE e \in {1, 3} -> 3 [] e \in {2, 8} -> 2 [] OTHER -> 1

(* The processor pushes the frame of the task.  On the first stack that is *)
(* where an interrupt will push its own.                                   *)
Fault(e) ==
    /\ phase = "ready"
    /\ cur = Worker /\ at[Worker] = User
    /\ at' = [at EXCEPT ![Worker] = e]
    /\ frame' = IF Ist(e) = 1 THEN [frame EXCEPT ![Worker] = "user"] ELSE frame
    /\ UNCHANGED <<setup, phase, cal, pic, cur, regs, gpr, awake, isr_next, mq, sys_fault, work>>

(* "fault in core": the frame says that the core was executing, so the     *)
(* stub reports it there and returns to the address in the frame, its own. *)
FaultInCore(t) ==
    /\ sys_fault' = at[t]
    /\ regs' = 8
    /\ UNCHANGED <<phase, at, gpr>>

(* The handlers: the debugger returns, all others panic.                   *)
Handled(t) ==
    /\ gpr' = [gpr EXCEPT ![t] = regs]
    /\ IF at[t] \in {1, 3}
       THEN phase' = phase /\ at' = [at EXCEPT ![t] = User]
       ELSE phase' = "panic" /\ at' = at
    /\ UNCHANGED <<sys_fault, regs>>

ExcStub(t) ==
    /\ phase = "ready"
    /\ cur = t /\ at[t] # User
    /\ \/ Ist(at[t]) = 1 /\ frame[t] = "core" /\ FaultInCore(t)
       \/ ~(Ist(at[t]) = 1 /\ frame[t] = "core") /\ Handled(t)
    /\ UNCHANGED <<setup, cal, pic, cur, frame, awake, isr_next, mq, work>>

(* The stubs of each kind, as isrs.sh generates them: with and without an  *)
(* error code to pop, on either platform.                                  *)
isr_exc_pic(t)  == platform = "ibmpc" /\ at[t] \notin 10..14 /\ ExcStub(t)
isr_exce_pic(t) == platform = "ibmpc" /\ at[t] \in 10..14 /\ ExcStub(t)
isr_exc_apic(t) == platform = "acpi" /\ at[t] \notin 10..14 /\ ExcStub(t)
isr_exce_apic(t) == platform = "acpi" /\ at[t] \in 10..14 /\ ExcStub(t)
=============================================================================
