----------------------------- MODULE InputProofs -----------------------------
(***************************************************************************)
(* Interrupt entry and the timer (Isr.tla, in Input.tla), for all          *)
(* platforms, tasks, lines, scripts and packets.                           *)
(***************************************************************************)
EXTENDS Input, SequenceTheorems, TLAPS

(***************************************************************************)
(* What the system never changes, and the shape of its variables.          *)
(***************************************************************************)
IsSeq(q) == \E S : q \in Seq(S)

SetUp ==
    /\ \E p \in Platforms : platform = p[1] /\ clocksource = p[2]
    /\ route = [l \in Line |-> IF l \in DeviceLines /\ l < isr_maxirq THEN Driver ELSE Idle]

TaskShapes ==
    /\ cur \in Task /\ isr_next \in Task \cup {None} /\ awake \subseteq Task
    /\ gpr = [t \in Task |-> gpr[t]] /\ at \in [Task -> Faults \cup {User}]
    /\ mq = [t \in Task |-> mq[t]] /\ \A t \in Task : IsSeq(mq[t])

PicShape == pic = [mask |-> pic.mask, irr |-> pic.irr, isv |-> {}, rtc |-> pic.rtc]

DriverShapes ==
    /\ drv = [pc |-> drv.pc, irq |-> drv.irq, prefix |-> drv.prefix, hist |-> drv.hist,
              packet |-> drv.packet, cntmax |-> 3, event |-> drv.event]
    /\ IsSeq(drv.packet) /\ IsSeq(mouse) /\ IsSeq(typed) /\ IsSeq(moved) /\ IsSeq(sent)

Shapes == TaskShapes /\ PicShape /\ DriverShapes

(***************************************************************************)
(* Registers: where the ones of a task are, and what they should be.  A    *)
(* task in a stub that will never end has lost them.                       *)
(***************************************************************************)
Own(t) == IF t = Worker THEN work ELSE 0
Kept(t) == IF t = cur THEN regs ELSE gpr[t]

Contexts ==
    /\ phase \in {"calibrate", "boot"} =>
          regs = 0 /\ work = 0 /\ \A t \in Task : gpr[t] = 0 /\ at[t] = User
    /\ \A t \in Task : at[t] # User => t = Worker
    /\ \A t \in Task : at[t] \in {User, 1, 3} => Kept(t) = Own(t)

(***************************************************************************)
(* The timer: what is known of the registers of isr_tmrcalibrate after a   *)
(* number of ticks, and when an interrupt of the clock is still to come.   *)
(***************************************************************************)
CalOf(rax, rbx, rcx, tsc, loops, exit) ==
    [rax |-> rax, rbx |-> rbx, rcx |-> rcx, tsc |-> tsc, loops |-> loops, exit |-> exit]

Measures(c) ==
    /\ c = CalOf(c.rax, c.rbx, c.rcx, c.tsc, c.loops, c.exit)
    /\ c.tsc \in Nat /\ c.rcx \in Nat /\ c.loops \in Nat /\ c.exit \in BOOLEAN
    /\ c.rax = c.tsc
    /\ c.rbx = IF c.tsc = 0 THEN 0 ELSE c.tsc - 1
    /\ c.tsc > 0 => c.rcx = c.loops
    /\ c.exit => c.tsc >= 2

Calibrates ==
    phase \in {"calibrate", "boot"} => Measures(cal) /\ (phase = "boot" => cal.exit)

Clock ==
    /\ pic.rtc \in BOOLEAN
    /\ clocksource # "rtc" => pic.rtc
    /\ ClockRuns

-----------------------------------------------------------------------------
(***************************************************************************)
(* Sequences                                                               *)
(***************************************************************************)
(* A sequence has a length and its indices, and is empty or begins.        *)
LEMMA SeqFacts ==
    ASSUME NEW q, IsSeq(q)
    PROVE  /\ Len(q) \in Nat /\ DOMAIN q = 1..Len(q)
           /\ q = <<>> <=> Len(q) = 0
<1>1. PICK S : q \in Seq(S)
  BY DEF IsSeq
<1> QED BY <1>1

(* One more element.                                                       *)
LEMMA AppendFacts ==
    ASSUME NEW q, IsSeq(q), NEW e
    PROVE  /\ IsSeq(Append(q, e)) /\ Len(Append(q, e)) = Len(q) + 1
           /\ \A i \in 1..Len(q) : Append(q, e)[i] = q[i]
           /\ Append(q, e)[Len(q) + 1] = e
           /\ Append(q, e) # <<>>
<1>1. PICK S : q \in Seq(S)
  BY DEF IsSeq
<1> DEFINE S2 == S \cup {e}
<1>2. q \in Seq(S2) /\ e \in S2
  BY <1>1
<1> HIDE DEF S2
<1> QED BY <1>2, AppendProperties DEF IsSeq

(* One element less.                                                       *)
LEMMA TailFacts ==
    ASSUME NEW q, IsSeq(q), q # <<>>
    PROVE  /\ IsSeq(Tail(q)) /\ Len(Tail(q)) = Len(q) - 1 /\ Len(q) >= 1
           /\ \A i \in 1..Len(q) - 1 : Tail(q)[i] = q[i + 1]
           /\ Head(q) = q[1]
<1>1. PICK S : q \in Seq(S)
  BY DEF IsSeq
<1>2. Tail(q) \in Seq(S) /\ Len(Tail(q)) = Len(q) - 1 /\ Len(q) >= 1 /\ Len(q) \in Nat
  BY <1>1
<1>3. \A i \in 1..Len(q) - 1 : Tail(q)[i] = q[i + 1]
  BY <1>1
<1> QED BY <1>2, <1>3 DEF IsSeq

(* The elements of a sequence that grows or shrinks.                       *)
LEMMA AppendRange ==
    ASSUME NEW q, IsSeq(q), NEW e
    PROVE  Range(Append(q, e)) = Range(q) \cup {e}
<1> DEFINE a == Append(q, e)
<1>1. /\ IsSeq(a) /\ Len(a) = Len(q) + 1 /\ a[Len(q) + 1] = e
      /\ \A i \in 1..Len(q) : a[i] = q[i]
  BY AppendFacts
<1>2. Len(q) \in Nat /\ DOMAIN q = 1..Len(q) /\ DOMAIN a = 1..Len(a)
  <2> HIDE DEF a
  <2> QED BY <1>1, SeqFacts
<1> HIDE DEF a
<1>3. \A i \in 1..Len(a) : i \in 1..Len(q) \/ i = Len(q) + 1
  BY <1>1, <1>2
<1>4. 1..Len(q) \subseteq 1..Len(a) /\ Len(q) + 1 \in 1..Len(a)
  BY <1>1, <1>2
<1>5. Range(a) = Range(q) \cup {e}
  BY <1>1, <1>2, <1>3, <1>4 DEF Range
<1> QED BY <1>5 DEF a

(* Reading the first element leaves the others.                            *)
LEMMA TailRange ==
    ASSUME NEW q, IsSeq(q), q # <<>>
    PROVE  Range(q) = {Head(q)} \cup Range(Tail(q))
<1> DEFINE a == Tail(q)
<1>1. /\ IsSeq(a) /\ Len(a) = Len(q) - 1 /\ Len(q) >= 1 /\ Head(q) = q[1]
      /\ \A i \in 1..Len(q) - 1 : a[i] = q[i + 1]
  BY TailFacts
<1>2. Len(q) \in Nat /\ DOMAIN q = 1..Len(q) /\ DOMAIN a = 1..Len(a)
  <2> HIDE DEF a
  <2> QED BY <1>1, SeqFacts
<1> HIDE DEF a
<1>3. \A i \in 1..Len(q) : i = 1 \/ (i - 1 \in 1..Len(a) /\ a[i - 1] = q[i])
  <2> TAKE i \in 1..Len(q)
  <2>1. i = 1 \/ (i - 1 \in 1..Len(q) - 1 /\ (i - 1) + 1 = i)
    BY <1>2
  <2> QED BY <1>1, <2>1
<1>4. \A i \in 1..Len(a) : i + 1 \in 1..Len(q) /\ a[i] = q[i + 1]
  BY <1>1, <1>2
<1>5. 1 \in 1..Len(q)
  BY <1>1, <1>2
<1>6. Range(q) = {q[1]} \cup Range(a)
  <2>1. \A x \in Range(q) : x = q[1] \/ x \in Range(a)
    BY <1>2, <1>3 DEF Range
  <2>2. q[1] \in Range(q) /\ \A x \in Range(a) : x \in Range(q)
    BY <1>2, <1>4, <1>5 DEF Range
  <2> QED BY <2>1, <2>2
<1> QED BY <1>1, <1>6 DEF a

(* ksend: a queue with room has one message more; it never has more.       *)
LEMMA KsendFacts ==
    ASSUME NEW q, IsSeq(q), NEW m
    PROVE  /\ IsSeq(ksend(q, m)) /\ Len(ksend(q, m)) <= Len(q) + 1
           /\ Len(q) < MqCap => ksend(q, m) = Append(q, m)
<1>1. MqCap \in Nat \ {0}
  BY IsrAssumption
<1>2. Len(q) \in Nat /\ (q = <<>> <=> Len(q) = 0)
  BY SeqFacts
<1>3. CASE Len(q) < MqCap
  <2>1. ksend(q, m) = Append(q, m)
    BY <1>3 DEF ksend
  <2> QED BY <1>2, <2>1, AppendFacts
<1>4. CASE ~(Len(q) < MqCap)
  <2> DEFINE a == Tail(q)
  <2>1. ksend(q, m) = Append(a, m)
    BY <1>4 DEF ksend
  <2>2. IsSeq(a) /\ Len(a) = Len(q) - 1
    BY <1>1, <1>2, <1>4, TailFacts
  <2> HIDE DEF a
  <2>3. IsSeq(Append(a, m)) /\ Len(Append(a, m)) = Len(a) + 1
    BY <2>2, AppendFacts
  <2> QED BY <1>2, <1>4, <2>1, <2>2, <2>3
<1> QED BY <1>3, <1>4

-----------------------------------------------------------------------------
(***************************************************************************)
(* The controllers                                                         *)
(***************************************************************************)
(* The clock source is one the platform has, and its line one that         *)
(* isr_init has unmasked; the keyboard and the mouse are other lines.      *)
LEMMA TimerLine ==
    ASSUME SetUp
    PROVE  /\ platform \in {"ibmpc", "acpi"} /\ clocksource \in {"pit", "rtc", "hpet"}
           /\ clocksource = "rtc" => platform = "ibmpc"
           /\ tmrirq \in {0, 8} /\ (tmrirq = 8 <=> clocksource = "rtc")
           /\ isr_maxirq \in Nat /\ tmrirq < isr_maxirq
           /\ platform = "acpi" => isr_maxirq = IF IoapicMax - 1 < 32 THEN IoapicMax - 1 ELSE 32
           /\ platform = "ibmpc" => isr_maxirq = 16
<1>1. /\ platform \in {"ibmpc", "acpi"} /\ clocksource \in {"pit", "rtc", "hpet"}
      /\ clocksource = "rtc" => platform = "ibmpc"
  <2>1. PICK p \in Platforms : platform = p[1] /\ clocksource = p[2]
    BY DEF SetUp
  <2> QED BY <2>1, IsrAssumption DEF platform_timer_ibmpc, platform_timer_acpi
<1>2. tmrirq \in {0, 8} /\ (tmrirq = 8 <=> clocksource = "rtc")
  BY <1>1 DEF tmrirq
<1>3. /\ platform = "acpi" => isr_maxirq = IF IoapicMax - 1 < 32 THEN IoapicMax - 1 ELSE 32
      /\ platform = "ibmpc" => isr_maxirq = 16
  BY <1>1 DEF isr_maxirq, inithw_apic, inithw_pic
<1>4. IoapicMax \in Int /\ IoapicMax >= 2
  BY IsrAssumption
<1> QED BY <1>1, <1>2, <1>3, <1>4

(* A singleton's extremes.                                                 *)
LEMMA MinMaxOne ==
    ASSUME NEW l \in Int
    PROVE  Min({l}) = l /\ Max({l}) = l
BY DEF Min, Max

(* The most urgent of one line in service is that line.                    *)
LEMMA DoneOne ==
    ASSUME SetUp, NEW p, NEW lines, NEW l \in Line, p.isv \cap lines = {l},
           p = [mask |-> p.mask, irr |-> p.irr, isv |-> p.isv, rtc |-> p.rtc]
    PROVE  Done(p, lines) = [mask |-> p.mask, irr |-> p.irr, isv |-> p.isv \ {l}, rtc |-> p.rtc]
<1> DEFINE top == {x \in p.isv \cap lines : \A k \in p.isv \cap lines : Rank(x) <= Rank(k)}
<1>1. Rank(l) <= Rank(l)
  <2>1. Rank(l) \in Int
    BY TimerLine DEF Rank, Line
  <2> QED BY <2>1
<1>2. top = {l}
  BY <1>1
<1>3. Done(p, lines) = [p EXCEPT !.isv = @ \ {IF platform = "acpi" THEN Max(top) ELSE Min(top)}]
  BY DEF Done
<1> HIDE DEF top
<1>4. Min({l}) = l /\ Max({l}) = l
  BY MinMaxOne DEF Line
<1>5. Done(p, lines) = [p EXCEPT !.isv = @ \ {l}]
  BY <1>2, <1>3, <1>4
<1> QED BY <1>5

(* A stub that accepts a line and tells its controllers leaves nothing in  *)
(* service: the slave's lines are in service in both of them.              *)
LEMMA Serves ==
    ASSUME SetUp, NEW l \in Line, pic.isv = {},
           pic = [mask |-> pic.mask, irr |-> pic.irr, isv |-> pic.isv, rtc |-> pic.rtc]
    PROVE  LET p == [mask |-> pic.mask, irr |-> pic.irr \ {l}, isv |-> {}, rtc |-> pic.rtc]
           IN  /\ Eoi(Accept(pic, l), l) = p
               /\ platform = "acpi" => Done(Accept(pic, l), Line) = p
               /\ platform = "ibmpc" /\ l < 8 => Done(Accept(pic, l), 0..7) = p
               /\ platform = "ibmpc" /\ l >= 8 => Done(Done(Accept(pic, l), 8..15), 0..7) = p
<1> DEFINE p == [mask |-> pic.mask, irr |-> pic.irr \ {l}, isv |-> {}, rtc |-> pic.rtc]
           a == Accept(pic, l)
<1>1. platform \in {"ibmpc", "acpi"} /\ l \in 0..15
  BY TimerLine DEF Line
<1>2. a = [mask |-> pic.mask, irr |-> pic.irr \ {l},
           isv |-> IF platform = "ibmpc" /\ l >= 8 THEN {l, 2} ELSE {l}, rtc |-> pic.rtc]
  <2> DEFINE s == IF platform = "ibmpc" /\ l >= 8 THEN {l, 2} ELSE {l}
  <2>1. a = [pic EXCEPT !.irr = @ \ {l}, !.isv = @ \cup s]
    BY DEF Accept
  <2>2. pic.isv \cup s = s
    OBVIOUS
  <2> HIDE DEF s, a
  <2>3. a = [mask |-> pic.mask, irr |-> pic.irr \ {l}, isv |-> s, rtc |-> pic.rtc]
    BY <2>1, <2>2, Zenon
  <2> QED BY <2>3 DEF s
<1>3. a = [mask |-> a.mask, irr |-> a.irr, isv |-> a.isv, rtc |-> a.rtc]
  BY <1>2
<1>4. a.mask = pic.mask /\ a.irr = pic.irr \ {l} /\ a.rtc = pic.rtc
      /\ a.isv = IF platform = "ibmpc" /\ l >= 8 THEN {l, 2} ELSE {l}
  BY <1>2
<1> HIDE DEF a
<1>5. platform = "acpi" => Done(a, Line) = p
  <2> SUFFICES ASSUME platform = "acpi" PROVE Done(a, Line) = p
    OBVIOUS
  <2>1. a.isv \cap Line = {l} /\ a.isv \ {l} = {}
    BY <1>4
  <2> QED BY <1>3, <1>4, <2>1, DoneOne
<1>6. platform = "ibmpc" /\ l < 8 => Done(a, 0..7) = p
  <2> SUFFICES ASSUME platform = "ibmpc", l < 8 PROVE Done(a, 0..7) = p
    OBVIOUS
  <2>1. a.isv \cap 0..7 = {l} /\ a.isv \ {l} = {}
    BY <1>1, <1>4
  <2> QED BY <1>3, <1>4, <2>1, DoneOne, SMTT(30)
<1>7. platform = "ibmpc" /\ l >= 8 => Done(Done(a, 8..15), 0..7) = p
  <2> SUFFICES ASSUME platform = "ibmpc", l >= 8 PROVE Done(Done(a, 8..15), 0..7) = p
    OBVIOUS
  <2> DEFINE b == Done(a, 8..15)
  <2>0. a.isv = {l, 2} /\ l # 2 /\ l \in 8..15 /\ 2 \notin 8..15
    BY <1>1, <1>4
  <2>1. a.isv \cap 8..15 = {l} /\ a.isv \ {l} = {2}
    BY <2>0, Zenon
  <2>2. b = [mask |-> a.mask, irr |-> a.irr, isv |-> {2}, rtc |-> a.rtc]
    BY <1>3, <1>4, <2>1, DoneOne
  <2>3. b = [mask |-> b.mask, irr |-> b.irr, isv |-> b.isv, rtc |-> b.rtc]
        /\ b.mask = a.mask /\ b.irr = a.irr /\ b.isv = {2} /\ b.rtc = a.rtc
    BY <2>2
  <2> HIDE DEF b
  <2>4. b.isv \cap 0..7 = {2} /\ b.isv \ {2} = {} /\ 2 \in Line
    BY <2>3 DEF Line
  <2>5. Done(b, 0..7) = [mask |-> b.mask, irr |-> b.irr, isv |-> b.isv \ {2}, rtc |-> b.rtc]
    BY <2>3, <2>4, DoneOne
  <2>6. Done(b, 0..7) = p
    BY <1>4, <2>3, <2>4, <2>5
  <2> QED BY <2>6 DEF b
<1>8. Eoi(a, l) = p
  BY <1>1, <1>5, <1>6, <1>7 DEF Eoi
<1> QED BY <1>5, <1>6, <1>7, <1>8 DEF a

-----------------------------------------------------------------------------
(***************************************************************************)
(* Steps: what is set up stays.                                            *)
(***************************************************************************)
(* isr_init sets the platform, the clock and the routing table up.         *)
LEMMA SetUpInit == Init => SetUp
BY DEF Init, IsrInit, SetUp

(* Neither the platform nor the routing table changes after isr_init.      *)
LEMMA SetUpStep ==
    ASSUME [Next]_vars
    PROVE  UNCHANGED setup
<1>1. CASE Controller
  BY <1>1 DEF Controller, TimerFires, CalTick, CalLoop, CalDone, setup
<1>2. CASE Timer
  BY <1>2 DEF Timer, isr_irqtmr, isr_irqtmr_rtc, setup
<1>3. CASE Interrupt
  BY <1>3 DEF Interrupt, isr_irq_master, isr_irq_slave, isr_irq_apic, IrqStub, setup
<1>4. CASE Exception
  BY <1>4 DEF Exception, Fault, isr_exc_pic, isr_exce_pic, isr_exc_apic, isr_exce_apic, ExcStub, setup
<1>5. CASE DriverStep
  BY <1>5 DEF DriverStep, Recv, DriverBlocks, Block, Ack, Read, PollEnds, SendEvent, Reset, setup
<1>6. CASE Device
  BY <1>6 DEF Device, KeyByte, MouseByte, setup
<1>7. CASE OtherTask
  BY <1>7 DEF OtherTask, Work, Block, MountFs, UiStarts, UiDispatch, setup
<1>8. CASE SysReady
  BY <1>8 DEF SysReady, setup
<1>9. CASE UNCHANGED vars
  BY <1>9 DEF vars, isrvars, setup
<1> QED BY <1>1, <1>2, <1>3, <1>4, <1>5, <1>6, <1>7, <1>8, <1>9 DEF Next

(* Nor does what depends on them.                                          *)
LEMMA Fixed ==
    ASSUME SetUp, UNCHANGED setup
    PROVE  SetUp' /\ tmrirq' = tmrirq /\ isr_maxirq' = isr_maxirq
<1>1. platform' = platform /\ clocksource' = clocksource /\ route' = route
  BY DEF setup
<1>2. tmrirq' = tmrirq
  BY <1>1 DEF tmrirq
<1>3. isr_maxirq' = isr_maxirq
  BY <1>1 DEF isr_maxirq, inithw_apic, inithw_pic
<1> QED BY <1>1, <1>2, <1>3 DEF SetUp

-----------------------------------------------------------------------------
(***************************************************************************)
(* Registers                                                               *)
(***************************************************************************)
(* The first task switch finds the registers it expects.                   *)
LEMMA ContextsInit == Init => Contexts
BY DEF Init, IsrInit, Contexts, Kept, Own

(* isr_savecontext and isr_loadcontext move registers, and lose none.      *)
LEMMA SwitchKeeps ==
    ASSUME Shapes, NEW n \in Task, SwitchTo(n)
    PROVE  \A t \in Task : Kept(t)' = Kept(t)
BY DEF SwitchTo, Shapes, TaskShapes, Kept

(* A step that only switches to another task.                              *)
LEMMA SwitchStep ==
    ASSUME Shapes, Contexts, phase = "ready", NEW n \in Task, SwitchTo(n),
           UNCHANGED <<phase, at, work>>
    PROVE  Contexts'
<1>1. \A t \in Task : Kept(t)' = Kept(t) /\ Own(t)' = Own(t)
  BY SwitchKeeps DEF Own
<1> QED BY <1>1 DEF Contexts

(* Tasks the scheduler may pick.                                           *)
LEMMA PickIsTask ==
    ASSUME Shapes, NEW a \in SUBSET Task, NEW n \in Pickable(a)
    PROVE  n \in Task
BY SMTT(30) DEF Pickable, Task

(* A driver that blocks, or another task.                                  *)
LEMMA BlockSwitches ==
    ASSUME Shapes, Contexts, NEW t, Block(t)
    PROVE  Contexts'
<1>1. PICK n \in Pickable(awake \ {t}) : SwitchTo(n)
  BY DEF Block
<1>2. n \in Task
  <2>1. awake \ {t} \in SUBSET Task
    BY DEF Shapes, TaskShapes
  <2> QED BY <1>1, <2>1, PickIsTask
<1> QED BY <1>1, <1>2, SwitchStep DEF Block

(* The fault and its stub: registers are only given up by a task that will *)
(* not leave the stub.                                                     *)
LEMMA ExceptionStep ==
    ASSUME SetUp, Shapes, Contexts, Exception
    PROVE  Contexts'
<1>1. ASSUME NEW e \in Faults, Fault(e) PROVE Contexts'
  <2>1. e # User /\ Worker \in Task
    BY IsrAssumption DEF User, Task
  <2>2. phase = "ready" /\ cur = Worker /\ at[Worker] = User /\ at' = [at EXCEPT ![Worker] = e]
        /\ UNCHANGED <<phase, cur, regs, gpr, work>>
    BY <1>1 DEF Fault
  <2>3. \A t \in Task : Kept(t)' = Kept(t) /\ Own(t)' = Own(t)
    BY <2>2 DEF Kept, Own
  <2>4. \A t \in Task : at'[t] = IF t = Worker THEN e ELSE at[t]
    BY <2>2 DEF Shapes, TaskShapes
  <2> QED BY <2>1, <2>2, <2>3, <2>4 DEF Contexts
<1>2. ASSUME NEW t \in Task, ExcStub(t) PROVE Contexts'
  <2>1. phase = "ready" /\ cur = t /\ at[t] # User /\ UNCHANGED <<cur, work>>
    BY <1>2 DEF ExcStub
  <2>2. t = Worker
    BY <2>1 DEF Contexts
  <2>3. CASE Ist(at[t]) = 1 /\ FaultInCore(t)
    <3>1. at[t] \notin {User, 1, 3}
      BY <2>1, <2>3 DEF Ist
    <3>2. UNCHANGED <<phase, at, gpr, cur, work>>
      BY <2>1, <2>3 DEF FaultInCore
    <3>3. \A u \in Task : u # t => Kept(u)' = Kept(u)
      BY <2>1, <3>2 DEF Kept
    <3>4. \A u \in Task : Own(u)' = Own(u)
      BY <2>1 DEF Own
    <3> QED BY <2>1, <3>1, <3>2, <3>3, <3>4 DEF Contexts
  <2>4. CASE Handled(t)
    <3>1. \A u \in Task : Kept(u)' = Kept(u) /\ Own(u)' = Own(u)
      BY <2>1, <2>4 DEF Handled, Kept, Own, Shapes, TaskShapes
    <3>2. phase' \in {"ready", "panic"}
      BY <2>1, <2>4 DEF Handled
    <3>3. \A u \in Task : at'[u] = at[u] \/ (u = Worker /\ at[u] \in {1, 3} /\ at'[u] = User)
      BY <2>2, <2>4 DEF Handled, Shapes, TaskShapes
    <3> QED BY <3>1, <3>2, <3>3 DEF Contexts
  <2> QED BY <1>2, <2>3, <2>4 DEF ExcStub
<1> QED BY <1>1, <1>2 DEF Exception, isr_exc_pic, isr_exce_pic, isr_exc_apic, isr_exce_apic

(* Interrupts: the timer switches to a task it has chosen, a device to its *)
(* driver.                                                                 *)
LEMMA InterruptStep ==
    ASSUME SetUp, Shapes, Contexts, Timer \/ Interrupt
    PROVE  Contexts'
<1>1. CASE Timer
  <2>1. PICK n \in isr_timer : SwitchTo(n)
    BY <1>1 DEF Timer, isr_irqtmr, isr_irqtmr_rtc
  <2>2. n \in Task
    <3>1. awake \in SUBSET Task
      BY DEF Shapes, TaskShapes
    <3>2. \A k \in Pickable(awake) : k \in Task
      BY <3>1, PickIsTask
    <3> QED BY <2>1, <3>2 DEF isr_timer, Shapes, TaskShapes
  <2>3. phase = "ready" /\ UNCHANGED <<phase, at, work>>
    BY <1>1 DEF Timer, isr_irqtmr, isr_irqtmr_rtc
  <2> QED BY <2>1, <2>2, <2>3, SwitchStep
<1>2. CASE Interrupt
  <2>1. PICK l \in DeviceLines : phase = "ready" /\ SwitchTo(route[l]) /\ UNCHANGED <<phase, at, work>>
    BY <1>2 DEF Interrupt, isr_irq_master, isr_irq_slave, isr_irq_apic, IrqStub
  <2>2. route[l] \in Task
    BY <2>1, IsrAssumption DEF SetUp, Line, Task
  <2> QED BY <2>1, <2>2, SwitchStep, SMTT(30)
<1> QED BY <1>1, <1>2

(* Every step keeps the registers.                                         *)
LEMMA ContextsStep ==
    ASSUME SetUp, Shapes, Contexts, [Next]_vars
    PROVE  Contexts'
<1> DEFINE Same == UNCHANGED <<cur, regs, gpr, at, work>>
<1>0. ASSUME Same, phase' = phase \/ phase = "calibrate" \/ phase' \notin {"calibrate", "boot"}
      PROVE  Contexts'
  <2>1. \A t \in Task : Kept(t)' = Kept(t) /\ Own(t)' = Own(t)
    BY <1>0 DEF Kept, Own
  <2> QED BY <1>0, <2>1 DEF Contexts
<1>1. CASE Controller
  BY <1>0, <1>1 DEF Controller, TimerFires, CalTick, CalLoop, CalDone, tasks
<1>2. CASE Timer \/ Interrupt
  BY <1>2, InterruptStep
<1>4. CASE Exception
  BY <1>4, ExceptionStep
<1>5. CASE DriverStep
  <2>1. CASE DriverBlocks
    BY <2>1, BlockSwitches DEF DriverBlocks
  <2>2. CASE Recv \/ Ack \/ Read \/ PollEnds \/ SendEvent \/ Reset
    BY <1>0, <2>2 DEF Recv, Ack, Read, PollEnds, SendEvent, Reset, tasks
  <2> QED BY <1>5, <2>1, <2>2 DEF DriverStep
<1>6. CASE Device
  BY <1>0, <1>6 DEF Device, KeyByte, MouseByte, tasks
<1>7. CASE OtherTask
  <2>1. CASE Work
    <3>1. phase = "ready" /\ cur = Worker /\ work' = 1 /\ regs' = 1 /\ UNCHANGED <<phase, cur, gpr, at>>
      BY <2>1 DEF Work
    <3>2. \A t \in Task : IF t = Worker THEN Kept(t)' = Own(t)' ELSE Kept(t)' = Kept(t) /\ Own(t)' = Own(t)
      BY <3>1 DEF Kept, Own
    <3> QED BY <3>1, <3>2 DEF Contexts
  <2>2. CASE Block(Worker) \/ Block(UI)
    BY <2>2, BlockSwitches
  <2>3. CASE MountFs \/ UiStarts \/ UiDispatch
    BY <1>0, <2>3, SMTT(30) DEF MountFs, UiStarts, UiDispatch
  <2> QED BY <1>7, <2>1, <2>2, <2>3, SMTT(30) DEF OtherTask
<1>8. CASE SysReady
  <2>1. phase = "boot" /\ phase' = "ready" /\ UNCHANGED <<regs, gpr, at, work>>
    BY <1>8 DEF SysReady
  <2>2. \A t \in Task : Kept(t)' = 0 /\ Own(t)' = 0
    BY <2>1 DEF Kept, Own, Contexts
  <2> QED BY <2>1, <2>2 DEF Contexts
<1>9. CASE UNCHANGED vars
  BY <1>0, <1>9 DEF vars, isrvars
<1> QED BY <1>1, <1>2, <1>4, <1>5, <1>6, <1>7, <1>8, <1>9, SMTT(30) DEF Next

-----------------------------------------------------------------------------
(***************************************************************************)
(* Shapes                                                                  *)
(***************************************************************************)
(* An empty sequence is one.                                               *)
LEMMA NothingIsSeq == IsSeq(<<>>)
<1>1. <<>> \in Seq({})
  OBVIOUS
<1> QED BY <1>1 DEF IsSeq

(* The variables begin with their shape.                                   *)
LEMMA ShapesInit == Init => Shapes
<1> SUFFICES ASSUME Init PROVE Shapes
  OBVIOUS
<1>1. Idle \in Task
  BY DEF Task
<1>2. pic = [mask |-> pic.mask, irr |-> pic.irr, isv |-> {}, rtc |-> pic.rtc]
  BY Zenon DEF Init, IsrInit, isr_enableirq, enableirq_pic, enableirq_apic, inithw_pic, inithw_apic
<1>3. /\ cur \in Task /\ isr_next \in Task \cup {None} /\ awake \subseteq Task
      /\ gpr = [t \in Task |-> gpr[t]] /\ at \in [Task -> Faults \cup {User}]
  BY <1>1 DEF Init, IsrInit
<1>4. mq = [t \in Task |-> mq[t]] /\ \A t \in Task : IsSeq(mq[t])
  <2>1. mq = [t \in Task |-> <<>>]
    BY DEF Init, IsrInit
  <2> QED BY <2>1, NothingIsSeq
<1>5. /\ drv = [pc |-> drv.pc, irq |-> drv.irq, prefix |-> drv.prefix, hist |-> drv.hist,
              packet |-> drv.packet, cntmax |-> 3, event |-> drv.event]
      /\ drv.packet = <<>>
  BY DEF Init, Ps2Init, mouse_init
<1>6. mouse = <<>> /\ typed = <<>> /\ moved = <<>> /\ sent = <<>>
  BY DEF Init, Ps2Init
<1> QED BY <1>2, <1>3, <1>4, <1>5, <1>6, NothingIsSeq DEF Shapes, TaskShapes, PicShape, DriverShapes

(* What the requests, the acknowledgement by the device and the mask       *)
(* registers do to the controller.                                         *)
LEMMA PicOps ==
    ASSUME SetUp, NEW p, p = [mask |-> p.mask, irr |-> p.irr, isv |-> p.isv, rtc |-> p.rtc],
           NEW l \in Line
    PROVE  /\ Signal(p, l) = [mask |-> p.mask, isv |-> p.isv, rtc |-> p.rtc,
                irr |-> IF platform = "acpi" /\ l \in p.mask THEN p.irr ELSE p.irr \cup {l}]
           /\ Drop(p, l) = [mask |-> p.mask, isv |-> p.isv, rtc |-> p.rtc,
                irr |-> IF platform = "acpi" THEN p.irr ELSE p.irr \ {l}]
           /\ isr_enableirq(p, l) = [mask |-> p.mask \ {l}, isv |-> p.isv, rtc |-> p.rtc, irr |-> p.irr]
           /\ l # 2 => isr_disableirq(p, l) =
                [mask |-> p.mask \cup {l}, isv |-> p.isv, rtc |-> p.rtc, irr |-> p.irr]
           /\ Acknowledged(p) = [mask |-> p.mask, isv |-> p.isv, rtc |-> TRUE, irr |-> p.irr]
<1>1. platform \in {"ibmpc", "acpi"} /\ l \in 0..15 /\ l % 16 = l
  BY TimerLine DEF Line
<1>2. Signal(p, l) = [mask |-> p.mask, isv |-> p.isv, rtc |-> p.rtc,
                irr |-> IF platform = "acpi" /\ l \in p.mask THEN p.irr ELSE p.irr \cup {l}]
  BY DEF Signal
<1>3. Drop(p, l) = [mask |-> p.mask, isv |-> p.isv, rtc |-> p.rtc,
                irr |-> IF platform = "acpi" THEN p.irr ELSE p.irr \ {l}]
  BY DEF Drop
<1>4. isr_enableirq(p, l) = [mask |-> p.mask \ {l}, isv |-> p.isv, rtc |-> p.rtc, irr |-> p.irr]
  BY <1>1 DEF isr_enableirq, enableirq_pic, enableirq_apic
<1>5. l # 2 => isr_disableirq(p, l) =
                [mask |-> p.mask \cup {l}, isv |-> p.isv, rtc |-> p.rtc, irr |-> p.irr]
  <2>1. ~(l >= 8 /\ l % 16 < 8)
    BY <1>1
  <2> QED BY <1>1, <2>1, Zenon DEF isr_disableirq, disableirq_pic, disableirq_apic
<1>6. Acknowledged(p) = [mask |-> p.mask, isv |-> p.isv, rtc |-> TRUE, irr |-> p.irr]
  <2>1. PICK b : b = TRUE
    OBVIOUS
  <2>2. [p EXCEPT !.rtc = b] = [mask |-> p.mask, isv |-> p.isv, rtc |-> b, irr |-> p.irr]
    OBVIOUS
  <2> QED BY <2>1, <2>2, Zenon DEF Acknowledged
<1> QED BY <1>2, <1>3, <1>4, <1>5, <1>6

(* No line is in service when a step begins.                               *)
LEMMA PicRests ==
    ASSUME Shapes
    PROVE  /\ pic = [mask |-> pic.mask, irr |-> pic.irr, isv |-> pic.isv, rtc |-> pic.rtc]
           /\ pic.isv = {}
BY DEF Shapes, PicShape

(* How a step changes the controller: what is asked, served and masked.    *)
PicIs(mask, irr, rtc) == pic' = [mask |-> mask, irr |-> irr, isv |-> {}, rtc |-> rtc]

(* The timer asks for an interrupt.                                        *)
LEMMA TimerAsks ==
    ASSUME SetUp, Shapes, TimerFires
    PROVE  /\ PicIs(pic.mask, pic'.irr, clocksource # "rtc")
           /\ pic'.irr \in {pic.irr, pic.irr \cup {tmrirq}}
           /\ clocksource = "rtc" => tmrirq \in pic'.irr
<1>1. tmrirq \in Line /\ (clocksource = "rtc" => platform # "acpi")
  BY TimerLine DEF Line
<1> DEFINE a == IF platform = "acpi" /\ tmrirq \in pic.mask THEN pic.irr ELSE pic.irr \cup {tmrirq}
           s == Signal(pic, tmrirq)
<1>2. s = [mask |-> pic.mask, isv |-> pic.isv, rtc |-> pic.rtc, irr |-> a] /\ pic.isv = {}
  BY <1>1, PicOps, PicRests, Zenon
<1>3. pic' = [s EXCEPT !.rtc = clocksource # "rtc"]
  BY DEF TimerFires
<1>4. a \in {pic.irr, pic.irr \cup {tmrirq}} /\ (clocksource = "rtc" => tmrirq \in a)
  BY <1>1
<1> HIDE DEF a, s
<1>5. pic' = [mask |-> pic.mask, irr |-> a, isv |-> {}, rtc |-> clocksource # "rtc"]
  BY <1>2, <1>3
<1> QED BY <1>4, <1>5 DEF PicIs

(* A tick is served: of the calibration, the timer, or the RTC.            *)
LEMMA TickServed ==
    ASSUME SetUp, Shapes, CalTick \/ isr_irqtmr \/ isr_irqtmr_rtc
    PROVE  PicIs(pic.mask, pic.irr \ {tmrirq}, IF isr_irqtmr THEN pic.rtc ELSE TRUE)
<1>1. tmrirq \in Line
  BY TimerLine DEF Line
<1> DEFINE e == Eoi(Accept(pic, tmrirq), tmrirq)
<1>2. e = [mask |-> pic.mask, irr |-> pic.irr \ {tmrirq}, isv |-> {}, rtc |-> pic.rtc]
  <2>1. pic = [mask |-> pic.mask, irr |-> pic.irr, isv |-> pic.isv, rtc |-> pic.rtc] /\ pic.isv = {}
    BY PicRests
  <2> QED BY <1>1, <2>1, Serves, Zenon
<1>3. isr_irqtmr => pic' = e /\ clocksource # "rtc"
  BY DEF isr_irqtmr
<1>4. isr_irqtmr_rtc => pic' = Acknowledged(e) /\ clocksource = "rtc"
  BY DEF isr_irqtmr_rtc
<1>5. CalTick => pic' = Acknowledged(e) /\ phase = "calibrate"
  BY DEF CalTick
<1>6. isr_irqtmr => phase = "ready"
  BY DEF isr_irqtmr
<1> HIDE DEF e
<1>7. Acknowledged(e) = [mask |-> pic.mask, irr |-> pic.irr \ {tmrirq}, isv |-> {}, rtc |-> TRUE]
  <2>1. /\ e = [mask |-> e.mask, irr |-> e.irr, isv |-> e.isv, rtc |-> e.rtc]
        /\ e.mask = pic.mask /\ e.irr = pic.irr \ {tmrirq} /\ e.isv = {}
    BY <1>2
  <2>2. Acknowledged(e) = [mask |-> e.mask, isv |-> e.isv, rtc |-> TRUE, irr |-> e.irr]
    BY <1>1, <2>1, PicOps, Zenon
  <2> QED BY <2>1, <2>2
<1> QED BY <1>2, <1>3, <1>4, <1>5, <1>6, <1>7, Zenon DEF PicIs

(* A device interrupt is served and its line masked.                       *)
LEMMA LineServed ==
    ASSUME SetUp, Shapes, NEW l \in DeviceLines,
           isr_irq_master(l) \/ isr_irq_slave(l) \/ isr_irq_apic(l)
    PROVE  PicIs(pic.mask \cup {l}, pic.irr \ {l}, pic.rtc) /\ \E p : IrqStub(l, p)
<1>1. l \in Line /\ l # 2 /\ platform \in {"ibmpc", "acpi"}
  BY TimerLine, IsrAssumption DEF Line
<1> DEFINE e == [mask |-> pic.mask, irr |-> pic.irr \ {l}, isv |-> {}, rtc |-> pic.rtc]
<1>2. IrqStub(l, e)
  <2>1. pic.isv = {} /\ pic = [mask |-> pic.mask, irr |-> pic.irr, isv |-> pic.isv, rtc |-> pic.rtc]
    BY PicRests
  <2>2. /\ platform = "acpi" => Done(Accept(pic, l), Line) = e
        /\ platform = "ibmpc" /\ l < 8 => Done(Accept(pic, l), 0..7) = e
        /\ platform = "ibmpc" /\ l >= 8 => Done(Done(Accept(pic, l), 8..15), 0..7) = e
    BY <1>1, <2>1, Serves
  <2> HIDE DEF e
  <2> QED BY <2>2 DEF isr_irq_master, isr_irq_slave, isr_irq_apic
<1>3. pic' = isr_disableirq(e, l)
  BY <1>2, ZenonT(30) DEF IrqStub
<1>4. e = [mask |-> e.mask, irr |-> e.irr, isv |-> e.isv, rtc |-> e.rtc]
      /\ e.mask = pic.mask /\ e.irr = pic.irr \ {l} /\ e.isv = {} /\ e.rtc = pic.rtc
  BY Zenon
<1> HIDE DEF e
<1>5. isr_disableirq(e, l) = [mask |-> e.mask \cup {l}, isv |-> e.isv, rtc |-> e.rtc, irr |-> e.irr]
  BY <1>1, <1>4, PicOps, Zenon
<1> QED BY <1>2, <1>3, <1>4, <1>5 DEF PicIs

(* The other steps that reach the controller: isr_disableirq at the end of *)
(* the calibration, SYS_ack, the read of a byte, a byte that comes in, and *)
(* isr_fini.                                                               *)
(* The calibration ends.                                                   *)
LEMMA CalDoneMasks ==
    ASSUME SetUp, Shapes, CalDone
    PROVE  PicIs(pic.mask \cup {tmrirq}, pic.irr, pic.rtc)
<1>1. tmrirq \in Line /\ tmrirq # 2
  BY TimerLine DEF Line
<1>2. isr_disableirq(pic, tmrirq) =
         [mask |-> pic.mask \cup {tmrirq}, isv |-> pic.isv, rtc |-> pic.rtc, irr |-> pic.irr]
  BY <1>1, PicOps, PicRests, Zenon
<1> QED BY <1>2, PicRests DEF CalDone, PicIs

(* SYS_ack.                                                                *)
LEMMA AckUnmasks ==
    ASSUME SetUp, Shapes, Ack, drv.irq \in {1, 12}
    PROVE  PicIs(IF route[drv.irq] = Driver THEN pic.mask \ {drv.irq} ELSE pic.mask, pic.irr, pic.rtc)
<1>1. drv.irq \in Line
  BY DEF Line
<1>2. isr_enableirq(pic, drv.irq) =
         [mask |-> pic.mask \ {drv.irq}, isv |-> pic.isv, rtc |-> pic.rtc, irr |-> pic.irr]
  BY <1>1, PicOps, PicRests, Zenon
<1>3. pic' = IF route[drv.irq] = Driver THEN isr_enableirq(pic, drv.irq) ELSE pic
  BY DEF Ack
<1> QED BY <1>2, <1>3, PicRests DEF PicIs

(* The byte is read.                                                       *)
LEMMA ReadDrops ==
    ASSUME SetUp, Shapes, Read, NEW l, l = IF obuf.dev = "kbd" THEN 1 ELSE 12
    PROVE  PicIs(pic.mask, IF platform = "acpi" THEN pic.irr ELSE pic.irr \ {l}, pic.rtc)
<1>1. l \in Line
  BY DEF Line
<1>2. Drop(pic, l) = [mask |-> pic.mask, isv |-> pic.isv, rtc |-> pic.rtc,
                      irr |-> IF platform = "acpi" THEN pic.irr ELSE pic.irr \ {l}]
  BY <1>1, PicOps, PicRests, Zenon
<1>3. pic' = Drop(pic, l)
  BY DEF Read
<1> QED BY <1>2, <1>3, PicRests, Zenon DEF PicIs

(* A byte comes in.                                                        *)
LEMMA ByteAsks ==
    ASSUME SetUp, Shapes, NEW l \in {1, 12}, pic' = Signal(pic, l)
    PROVE  PicIs(pic.mask, IF platform = "acpi" /\ l \in pic.mask THEN pic.irr
                           ELSE pic.irr \cup {l}, pic.rtc)
<1>1. l \in Line
  BY DEF Line
<1>2. Signal(pic, l) = [mask |-> pic.mask, isv |-> pic.isv, rtc |-> pic.rtc,
         irr |-> IF platform = "acpi" /\ l \in pic.mask THEN pic.irr ELSE pic.irr \cup {l}]
  BY <1>1, PicOps, PicRests, Zenon
<1> QED BY <1>2, PicRests DEF PicIs

(* isr_fini: the lines of the clock and of the drivers.                    *)
Routed == {l \in Line : l < isr_maxirq /\ (l = tmrirq \/ route[l] # Idle)}

(* They are unmasked when the system is ready.                             *)
LEMMA FiniUnmasks ==
    ASSUME SetUp, Shapes, SysReady
    PROVE  PicIs(pic.mask \ Routed, pic.irr, pic.rtc)
<1>1. pic' = [pic EXCEPT !.mask = @ \ Routed]
  BY DEF SysReady, isr_fini, Routed
<1> QED BY <1>1, PicRests DEF PicIs

(* irq1 and irq12: what they make of the driver's state.                   *)
DrvShape(d) ==
    d = [pc |-> d.pc, irq |-> d.irq, prefix |-> d.prefix, hist |-> d.hist,
         packet |-> d.packet, cntmax |-> 3, event |-> d.event]

(* A state of the driver from its parts.                                   *)
DrvOf(a, i, p, h, k, e) ==
    [pc |-> a, irq |-> i, prefix |-> p, hist |-> h, packet |-> k, cntmax |-> 3, event |-> e]

(* Its parts.                                                              *)
LEMMA DrvParts ==
    ASSUME NEW a, NEW i, NEW p, NEW h, NEW k, NEW e
    PROVE  /\ DrvShape(DrvOf(a, i, p, h, k, e))
           /\ DrvOf(a, i, p, h, k, e).pc = a /\ DrvOf(a, i, p, h, k, e).irq = i
           /\ DrvOf(a, i, p, h, k, e).prefix = p /\ DrvOf(a, i, p, h, k, e).hist = h
           /\ DrvOf(a, i, p, h, k, e).packet = k /\ DrvOf(a, i, p, h, k, e).event = e
BY Zenon DEF DrvOf, DrvShape

(* The parts the driver changes in one step.                               *)
ToState(d, a) == [d EXCEPT !.pc = a]
ToLine(d, a, i) == [d EXCEPT !.pc = a, !.irq = i]
ToEvent(d, a, e) == [d EXCEPT !.pc = a, !.event = e]
ToPrefix(d, a, p) == [d EXCEPT !.pc = a, !.prefix = p]
ToRelease(d, a, p, e) == [d EXCEPT !.pc = a, !.prefix = p, !.event = e]
ToPress(d, a, p, h, e) == [d EXCEPT !.pc = a, !.prefix = p, !.hist = h, !.event = e]
ToPacket(d, a, k) == [d EXCEPT !.pc = a, !.packet = k]
ToPointer(d, a, k, e) == [d EXCEPT !.pc = a, !.packet = k, !.event = e]

(* And what they make of it.                                               *)
LEMMA DrvSet ==
    ASSUME NEW d, DrvShape(d), NEW a, NEW i, NEW p, NEW h, NEW k, NEW e
    PROVE  /\ ToState(d, a) = DrvOf(a, d.irq, d.prefix, d.hist, d.packet, d.event)
           /\ ToLine(d, a, i) = DrvOf(a, i, d.prefix, d.hist, d.packet, d.event)
           /\ ToEvent(d, a, e) = DrvOf(a, d.irq, d.prefix, d.hist, d.packet, e)
           /\ ToPrefix(d, a, p) = DrvOf(a, d.irq, p, d.hist, d.packet, d.event)
           /\ ToRelease(d, a, p, e) = DrvOf(a, d.irq, p, d.hist, d.packet, e)
           /\ ToPress(d, a, p, h, e) = DrvOf(a, d.irq, p, h, d.packet, e)
           /\ ToPacket(d, a, k) = DrvOf(a, d.irq, d.prefix, d.hist, k, d.event)
           /\ ToPointer(d, a, k, e) = DrvOf(a, d.irq, d.prefix, d.hist, k, e)
<1>1. d = DrvOf(d.pc, d.irq, d.prefix, d.hist, d.packet, d.event)
  BY DEF DrvShape, DrvOf
<1> DEFINE d1 == [d EXCEPT !.pc = a]
<1>2. d1 = DrvOf(a, d.irq, d.prefix, d.hist, d.packet, d.event)
  BY <1>1 DEF DrvOf
<1> HIDE DEF d1
<1>3. /\ [d1 EXCEPT !.irq = i] = DrvOf(a, i, d.prefix, d.hist, d.packet, d.event)
      /\ [d1 EXCEPT !.event = e] = DrvOf(a, d.irq, d.prefix, d.hist, d.packet, e)
  BY <1>2 DEF DrvOf
<1> DEFINE d2 == [d1 EXCEPT !.prefix = p]
           d3 == [d1 EXCEPT !.packet = k]
<1>4. /\ d2 = DrvOf(a, d.irq, p, d.hist, d.packet, d.event)
      /\ d3 = DrvOf(a, d.irq, d.prefix, d.hist, k, d.event)
  BY <1>2 DEF DrvOf
<1> HIDE DEF d2, d3
<1>5. /\ [d2 EXCEPT !.event = e] = DrvOf(a, d.irq, p, d.hist, d.packet, e)
      /\ [d3 EXCEPT !.event = e] = DrvOf(a, d.irq, d.prefix, d.hist, k, e)
  BY <1>4 DEF DrvOf
<1> DEFINE d4 == [d2 EXCEPT !.hist = h]
<1>6. d4 = DrvOf(a, d.irq, p, h, d.packet, d.event)
  BY <1>4 DEF DrvOf
<1> HIDE DEF d4
<1>7. [d4 EXCEPT !.event = e] = DrvOf(a, d.irq, p, h, d.packet, e)
  BY <1>6 DEF DrvOf
<1> QED BY <1>2, <1>3, <1>4, <1>5, <1>7, Zenon
    DEF d1, d2, d3, d4, ToState, ToLine, ToEvent, ToPrefix, ToRelease, ToPress, ToPacket, ToPointer

(* The driver after a key.                                                 *)
LEMMA KeyRead ==
    ASSUME NEW d, DrvShape(d), NEW b
    PROVE  /\ DrvShape(irq1(d, b)) /\ irq1(d, b).irq = d.irq /\ irq1(d, b).packet = d.packet
           /\ irq1(d, b).pc \in {"recv", "send", "reset"}
<1> DEFINE code == (b % 128) + d.prefix
           held == d.hist = <<alt, ctrl>>
           c == IF code = esc /\ held THEN 0 ELSE code
           h == <<c % 256, d.hist[1]>>
           p == Prefix(b)
           e1 == <<"release", code>>
           e2 == <<"press", c>>
<1>1. \/ irq1(d, b) = ToPrefix(d, "recv", p)
      \/ irq1(d, b) = ToRelease(d, "send", 0, e1)
      \/ irq1(d, b) = ToPrefix(d, "reset", 0)
      \/ irq1(d, b) = ToPress(d, "send", 0, h, e2)
  BY ZenonT(30) DEF irq1, ToPrefix, ToRelease, ToPress
<1> HIDE DEF h, p, e1, e2
<1> DEFINE r == irq1(d, b)
<1> HIDE DEF r
<1>2. DrvShape(r) /\ r.irq = d.irq /\ r.packet = d.packet /\ r.pc \in {"recv", "send", "reset"}
  <2>1. CASE r = ToPrefix(d, "recv", p)
    <3>1. r = DrvOf("recv", d.irq, p, d.hist, d.packet, d.event)
      BY <2>1, DrvSet
    <3> QED BY <3>1, SMTT(30) DEF DrvOf, DrvShape
  <2>2. CASE r = ToRelease(d, "send", 0, e1)
    <3>1. r = DrvOf("send", d.irq, 0, d.hist, d.packet, e1)
      BY <2>2, DrvSet
    <3> QED BY <3>1, SMTT(30) DEF DrvOf, DrvShape
  <2>3. CASE r = ToPrefix(d, "reset", 0)
    <3>1. r = DrvOf("reset", d.irq, 0, d.hist, d.packet, d.event)
      BY <2>3, DrvSet
    <3> QED BY <3>1 DEF DrvOf, DrvShape
  <2>4. CASE r = ToPress(d, "send", 0, h, e2)
    <3>1. r = DrvOf("send", d.irq, 0, h, d.packet, e2)
      BY <2>4, DrvSet
    <3> QED BY <3>1, SMTT(30) DEF DrvOf, DrvShape
  <2> QED BY <1>1, <2>1, <2>2, <2>3, <2>4 DEF r
<1> QED BY <1>2 DEF r

(* The driver after a byte of the mouse: the third is the last.            *)
LEMMA MouseRead ==
    ASSUME NEW d, DrvShape(d), IsSeq(d.packet), NEW b
    PROVE  /\ DrvShape(irq12(d, b)) /\ irq12(d, b).irq = d.irq /\ IsSeq(irq12(d, b).packet)
           /\ Len(d.packet) + 1 < 3 => /\ irq12(d, b).pc = "recv"
                                      /\ irq12(d, b).packet = Append(d.packet, b)
           /\ ~(Len(d.packet) + 1 < 3) => irq12(d, b).pc = "send" /\ irq12(d, b).packet = <<>>
<1> DEFINE p == Append(d.packet, b)
           e == <<"pointer", p[1], signed(p[2]), signed(p[3])>>
           r == irq12(d, b)
<1>1. d.cntmax = 3 /\ IsSeq(p) /\ Len(p) = Len(d.packet) + 1
  BY AppendFacts DEF DrvShape
<1>2. r = IF Len(p) < 3 THEN ToPacket(d, "recv", p)
          ELSE ToPointer(d, "send", <<>>, e)
  BY <1>1, SMTT(30) DEF irq12, ToPacket, ToPointer
<1> HIDE DEF p, e, r
<1>3. CASE Len(p) < 3
  <2>1. r = ToPacket(d, "recv", p)
    BY <1>2, <1>3
  <2>2. DrvShape(r) /\ r.irq = d.irq /\ r.packet = p /\ r.pc = "recv"
    <3>1. r = DrvOf("recv", d.irq, d.prefix, d.hist, p, d.event)
      BY <2>1, DrvSet, SMTT(30)
    <3> QED BY <3>1 DEF DrvOf, DrvShape
  <2> QED BY <1>1, <1>3, <2>2 DEF r, p
<1>4. CASE ~(Len(p) < 3)
  <2>1. r = ToPointer(d, "send", <<>>, e)
    BY <1>2, <1>4
  <2>2. DrvShape(r) /\ r.irq = d.irq /\ r.packet = <<>> /\ r.pc = "send"
    <3>1. r = DrvOf("send", d.irq, d.prefix, d.hist, <<>>, e)
      BY <2>1, DrvSet
    <3>2. PICK k : k = <<>>
      OBVIOUS
    <3>3. r = DrvOf("send", d.irq, d.prefix, d.hist, k, e)
      BY <3>1, <3>2
    <3>4. DrvShape(r) /\ r.irq = d.irq /\ r.packet = k /\ r.pc = "send"
      BY <3>3 DEF DrvOf, DrvShape
    <3> QED BY <3>2, <3>4, SMTT(30)
  <2> QED BY <1>1, <1>4, <2>2, NothingIsSeq DEF r
<1> QED BY <1>3, <1>4, Zenon

(* The tasks the system knows by name.                                     *)
LEMMA TaskNames ==
    /\ UI \in Task /\ Worker \in Task /\ Driver \in Task /\ Idle \in Task
    /\ UI # Driver /\ Worker # Driver /\ UI # Worker
BY IsrAssumption, Ps2Assumption, InputAssumption DEF Task

(* Message queues, and one of them changed.                                *)
Queues(f) == f = [t \in Task |-> f[t]] /\ \A t \in Task : IsSeq(f[t])

(* The others stay.                                                        *)
LEMMA QueuePut ==
    ASSUME NEW f, Queues(f), NEW d \in Task, NEW q, IsSeq(q), NEW g, g = [f EXCEPT ![d] = q]
    PROVE  Queues(g) /\ \A t \in Task : g[t] = IF t = d THEN q ELSE f[t]
<1>1. \A t \in Task : g[t] = IF t = d THEN q ELSE f[t]
  BY DEF Queues
<1>2. g = [t \in Task |-> g[t]]
  BY DEF Queues
<1> QED BY <1>1, <1>2 DEF Queues

(* The queue of a task that sends, receives or is interrupted.             *)
LEMMA QueueSteps ==
    ASSUME NEW f, Queues(f), NEW d \in Task, NEW m
    PROVE  /\ Queues([f EXCEPT ![d] = ksend(@, m)])
           /\ f[d] # <<>> => Queues([f EXCEPT ![d] = Tail(@)])
<1>1. IsSeq(f[d])
  BY DEF Queues
<1>2. IsSeq(ksend(f[d], m)) /\ (f[d] # <<>> => IsSeq(Tail(f[d])))
  BY <1>1, KsendFacts, TailFacts
<1> DEFINE q1 == ksend(f[d], m)
           q2 == Tail(f[d])
<1>3. Queues([f EXCEPT ![d] = q1])
  <2> HIDE DEF q1
  <2> QED BY <1>2, QueuePut DEF q1
<1>4. f[d] # <<>> => Queues([f EXCEPT ![d] = q2])
  <2> HIDE DEF q2
  <2> QED BY <1>2, QueuePut, Zenon DEF q2
<1> QED BY <1>3, <1>4

(* A task switch.                                                          *)
LEMMA SwitchShapes ==
    ASSUME TaskShapes, NEW n \in Task, SwitchTo(n)
    PROVE  cur' \in Task /\ gpr' = [t \in Task |-> gpr'[t]]
BY DEF TaskShapes, SwitchTo

(* Every step keeps the tasks and their queues in shape.                   *)
LEMMA TaskShapesStep ==
    ASSUME SetUp, Shapes, [Next]_vars
    PROVE  TaskShapes'
<1> DEFINE Rest == cur' \in Task /\ isr_next' \in Task \cup {None} /\ awake' \subseteq Task
                   /\ gpr' = [t \in Task |-> gpr'[t]] /\ at' \in [Task -> Faults \cup {User}]
<1>0. /\ cur \in Task /\ isr_next \in Task \cup {None} /\ awake \subseteq Task
      /\ gpr = [t \in Task |-> gpr[t]] /\ at \in [Task -> Faults \cup {User}]
      /\ Queues(mq) /\ TaskShapes
  BY DEF Shapes, TaskShapes, Queues
<1>a. Rest /\ Queues(mq') => TaskShapes'
  BY DEF TaskShapes, Queues
<1>b. UNCHANGED <<cur, isr_next, awake, gpr, at, mq>> => TaskShapes'
  BY DEF Shapes, TaskShapes
<1>1. CASE Controller \/ Device
  BY <1>1, <1>b DEF Controller, TimerFires, CalTick, CalLoop, CalDone, Device, KeyByte, MouseByte, tasks
<1>2. CASE Timer
  <2>1. PICK n \in isr_timer : SwitchTo(n)
    BY <1>2 DEF Timer, isr_irqtmr, isr_irqtmr_rtc
  <2>2. n \in Task
    <3>1. awake \in SUBSET Task
      BY <1>0
    <3>2. \A k \in Pickable(awake) : k \in Task
      BY <3>1, PickIsTask
    <3> QED BY <1>0, <2>1, <3>2 DEF isr_timer
  <2>3. isr_next' = None /\ UNCHANGED <<awake, at, mq>>
    BY <1>2 DEF Timer, isr_irqtmr, isr_irqtmr_rtc
  <2>4. cur' \in Task /\ gpr' = [t \in Task |-> gpr'[t]]
    BY <1>0, <2>1, <2>2, SwitchShapes, SMTT(30)
  <2> QED BY <1>0, <1>a, <2>3, <2>4, SMTT(30)
<1>3. CASE Interrupt
  <2>1. PICK l \in DeviceLines : /\ SwitchTo(route[l]) /\ awake' = awake \cup {route[l]}
                                 /\ mq' = [mq EXCEPT ![route[l]] = ksend(@, <<"irq", l>>)]
                                 /\ UNCHANGED <<at, isr_next>>
    BY <1>3, SMTT(30) DEF Interrupt, isr_irq_master, isr_irq_slave, isr_irq_apic, IrqStub
  <2>2. route[l] \in Task
    BY <2>1, IsrAssumption DEF SetUp, Line, Task
  <2>3. cur' \in Task /\ gpr' = [t \in Task |-> gpr'[t]]
    BY <1>0, <2>1, <2>2, SwitchShapes
  <2>4. Queues(mq')
    BY <1>0, <2>1, <2>2, QueueSteps, Zenon
  <2> QED BY <1>0, <1>a, <2>1, <2>2, <2>3, <2>4, SMTT(30)
<1>4. CASE Exception
  <2>1. ASSUME NEW e \in Faults, Fault(e) PROVE TaskShapes'
    <3>1. at' = [at EXCEPT ![Worker] = e] /\ UNCHANGED <<cur, gpr, awake, isr_next, mq>>
      BY <2>1 DEF Fault
    <3> QED BY <1>0, <1>a, <3>1, ZenonT(30)
  <2>2. ASSUME NEW t \in Task, ExcStub(t) PROVE TaskShapes'
    <3>1. /\ gpr' = gpr \/ gpr' = [gpr EXCEPT ![t] = regs]
          /\ at' = at \/ at' = [at EXCEPT ![t] = User]
          /\ UNCHANGED <<cur, awake, isr_next, mq>>
      BY <2>2 DEF ExcStub, FaultInCore, Handled
    <3>2. gpr' = [u \in Task |-> gpr'[u]]
      BY <1>0, <3>1
    <3>3. at' \in [Task -> Faults \cup {User}]
      BY <1>0, <3>1
    <3> QED BY <1>0, <1>a, <3>1, <3>2, <3>3, SMTT(30)
  <2> QED BY <1>4, <2>1, <2>2 DEF Exception, isr_exc_pic, isr_exce_pic, isr_exc_apic, isr_exce_apic
<1>5. ASSUME NEW t, Block(t) PROVE TaskShapes'
  <2>1. PICK n \in Pickable(awake \ {t}) : SwitchTo(n)
    BY <1>5, Zenon DEF Block
  <2>2. n \in Task
    <3>1. awake \ {t} \in SUBSET Task
      BY <1>0, SMTT(30)
    <3> QED BY <2>1, <3>1, PickIsTask
  <2>3. isr_next' = None /\ awake' = awake \ {t} /\ UNCHANGED <<at, mq>>
    BY <1>5 DEF Block
  <2>4. cur' \in Task /\ gpr' = [u \in Task |-> gpr'[u]]
    BY <1>0, <2>1, <2>2, SwitchShapes
  <2> QED BY <1>0, <1>a, <2>3, <2>4
<1>6. CASE Recv \/ UiStarts
  <2>1. PICK d \in {Driver, UI} : mq' = [mq EXCEPT ![d] = Tail(@)] /\ mq[d] # <<>>
                                  /\ UNCHANGED <<cur, isr_next, awake, gpr, at>>
    BY <1>6 DEF Recv, UiStarts, Interfacing
  <2>2. Queues(mq')
    BY <1>0, <2>1, QueueSteps, TaskNames, Zenon
  <2> QED BY <1>0, <1>a, <2>1, <2>2
<1>7. CASE SendEvent \/ MountFs
  <2>1. PICK m : mq' = [mq EXCEPT ![UI] = ksend(@, m)] /\ awake' = awake \cup {UI} /\ isr_next' = UI
                 /\ UNCHANGED <<cur, gpr, at>>
    BY <1>7, SMTT(30) DEF SendEvent, MountFs, Send
  <2>2. Queues(mq')
    BY <1>0, <2>1, QueueSteps, TaskNames, ZenonT(30)
  <2> QED BY <1>0, <1>a, <2>1, <2>2, TaskNames
<1>8. CASE UiDispatch
  <2> DEFINE rest == [mq EXCEPT ![UI] = Tail(@)]
  <2>1. mq[UI] # <<>> /\ UNCHANGED <<cur, gpr, at>>
        /\ \/ mq' = rest /\ UNCHANGED <<awake, isr_next>>
           \/ /\ mq' = [rest EXCEPT ![Driver] = ksend(@, <<"ack", 0>>)]
              /\ awake' = awake \cup {Driver} /\ isr_next' = Driver
    BY <1>8, ZenonT(30) DEF UiDispatch, Interfacing
  <2>2. Queues(rest)
    BY <1>0, <2>1, QueueSteps, TaskNames, Zenon
  <2> HIDE DEF rest
  <2>3. Queues([rest EXCEPT ![Driver] = ksend(@, <<"ack", 0>>)])
    BY <2>2, QueueSteps, TaskNames, ZenonT(30)
  <2> QED BY <1>0, <1>a, <2>1, <2>2, <2>3, TaskNames, SMTT(30)
<1>9. CASE Ack \/ Read \/ PollEnds \/ Reset \/ Work \/ UNCHANGED vars
  BY <1>9, <1>b DEF Ack, Read, PollEnds, Reset, Work, vars, isrvars, tasks
<1>10. CASE SysReady
  BY <1>0, <1>10, <1>a, TaskNames DEF SysReady
<1>11. CASE DriverStep
  BY <1>5, <1>6, <1>7, <1>9, <1>11 DEF DriverStep, DriverBlocks
<1>12. CASE OtherTask
  BY <1>5, <1>6, <1>7, <1>8, <1>9, <1>12, SMTT(30) DEF OtherTask
<1> QED BY <1>1, <1>2, <1>3, <1>4, <1>9, <1>10, <1>11, <1>12, SMTT(30) DEF Next

(* Every step leaves the controller with nothing in service.               *)
LEMMA PicShapeStep ==
    ASSUME SetUp, Shapes, drv.pc = "ack" => drv.irq \in {1, 12}, [Next]_vars
    PROVE  PicShape'
<1>0. ASSUME NEW m, NEW i, NEW r, PicIs(m, i, r) PROVE PicShape'
  BY <1>0, ZenonT(30) DEF PicIs, PicShape
<1>b. UNCHANGED pic => PicShape'
  BY DEF Shapes, PicShape
<1>1. CASE Controller
  BY <1>0, <1>b, <1>1, TimerAsks, TickServed, CalDoneMasks, ZenonT(30) DEF Controller, CalLoop
<1>2. CASE Timer
  BY <1>0, <1>2, TickServed, Zenon DEF Timer
<1>3. CASE Interrupt
  BY <1>0, <1>3, LineServed, ZenonT(30) DEF Interrupt
<1>4. CASE Exception
  BY <1>b, <1>4, ZenonT(30) DEF Exception, Fault, isr_exc_pic, isr_exce_pic, isr_exc_apic, isr_exce_apic, ExcStub
<1>5. CASE DriverStep
  <2>1. CASE Ack
    <3>1. drv.irq \in {1, 12}
      BY <2>1 DEF Ack, Driving
    <3> QED BY <1>0, <2>1, <3>1, AckUnmasks, ZenonT(30)
  <2>2. CASE Read
    BY <1>0, <2>2, ReadDrops, ZenonT(30)
  <2>3. CASE Recv \/ DriverBlocks \/ PollEnds \/ SendEvent \/ Reset
    BY <1>b, <2>3 DEF Recv, DriverBlocks, Block, PollEnds, SendEvent, Reset
  <2> QED BY <1>5, <2>1, <2>2, <2>3 DEF DriverStep
<1>6. CASE Device
  <2>1. \E l \in {1, 12} : pic' = Signal(pic, l)
    BY <1>6, ZenonT(30) DEF Device, KeyByte, MouseByte
  <2> QED BY <1>0, <2>1, ByteAsks, ZenonT(30)
<1>7. CASE OtherTask
  BY <1>b, <1>7 DEF OtherTask, Work, Block, MountFs, UiStarts, UiDispatch
<1>8. CASE SysReady
  BY <1>0, <1>8, FiniUnmasks
<1>9. CASE UNCHANGED vars
  BY <1>b, <1>9 DEF vars, isrvars
<1> QED BY <1>1, <1>2, <1>3, <1>4, <1>5, <1>6, <1>7, <1>8, <1>9 DEF Next

(* How a step changes the driver and the devices.                          *)
LEMMA MouseSends ==
    ASSUME Shapes, MouseByte, Len(moved) <= Len(Packets)
    PROVE  /\ IsSeq(mouse') /\ IsSeq(moved') /\ obuf' = [dev |-> "mouse", byte |-> obuf'.byte]
           /\ mouse = <<>> => /\ Len(mouse') = 2 /\ Len(moved') = Len(moved) + 1
                              /\ Len(moved) + 1 <= Len(Packets) /\ Within(Len(typed), Len(moved) + 1)
           /\ mouse # <<>> => Len(mouse') = Len(mouse) - 1 /\ moved' = moved
<1> DEFINE next == IF mouse = <<>> THEN Packets[Len(moved) + 1] ELSE mouse
<1>1. /\ obuf' = [dev |-> "mouse", byte |-> Head(next)] /\ mouse' = Tail(next)
      /\ moved' = IF mouse = <<>> THEN Append(moved, next) ELSE moved
      /\ mouse = <<>> => Len(moved) < Len(Packets) /\ Within(Len(typed), Len(moved) + 1)
  BY ZenonT(30) DEF MouseByte
<1>2. IsSeq(mouse) /\ IsSeq(moved) /\ Len(moved) \in Nat
  BY SeqFacts, ZenonT(30) DEF Shapes, DriverShapes
<1>3. CASE mouse = <<>>
  <2>1. Len(moved) + 1 \in DOMAIN Packets /\ Len(Packets) \in Nat /\ Len(moved) < Len(Packets)
    BY <1>1, <1>2, <1>3, Ps2Assumption, SMTT(30)
  <2>2. next \in Seq(0..255) /\ Len(next) = 3
    BY <1>3, <2>1, Ps2Assumption
  <2> HIDE DEF next
  <2>3. IsSeq(next) /\ next # <<>>
    <3>1. IsSeq(next)
      BY <2>2, Zenon DEF IsSeq
    <3>2. Len(next) # Len(<<>>)
      BY <2>2
    <3> QED BY <3>1, <3>2, Zenon
  <2>4. IsSeq(Tail(next)) /\ Len(Tail(next)) = 2
    BY <2>2, <2>3, TailFacts
  <2>5. IsSeq(Append(moved, next)) /\ Len(Append(moved, next)) = Len(moved) + 1
    BY <1>2, AppendFacts
  <2> QED BY <1>1, <1>2, <1>3, <2>1, <2>4, <2>5, SMTT(30)
<1>4. CASE mouse # <<>>
  <2>1. next = mouse
    BY <1>4
  <2> HIDE DEF next
  <2>2. IsSeq(Tail(mouse)) /\ Len(Tail(mouse)) = Len(mouse) - 1
    BY <1>2, <1>4, TailFacts
  <2> QED BY <1>1, <1>2, <1>4, <2>1, <2>2
<1> QED BY <1>3, <1>4

(* What the driver does when it has taken a message, and when it has read. *)
LEMMA DriverTurns ==
    ASSUME DriverShapes
    PROVE  /\ Recv => LET m == Head(mq[Driver])
                      IN  IF m[1] = "irq" /\ m[2] \in {1, 12}
                          THEN drv' = DrvOf("ack", m[2], drv.prefix, drv.hist, drv.packet, drv.event)
                          ELSE drv' = drv
           /\ Ack => drv' = DrvOf("read", drv.irq, drv.prefix, drv.hist, drv.packet, drv.event)
           /\ PollEnds => drv' = DrvOf("recv", drv.irq, drv.prefix, drv.hist, drv.packet, drv.event)
           /\ SendEvent => drv' = DrvOf("recv", drv.irq, drv.prefix, drv.hist, drv.packet, <<>>)
<1>1. DrvShape(drv)
  BY Zenon DEF DriverShapes, DrvShape
<1>2. Recv => drv' = IF Head(mq[Driver])[1] = "irq" /\ Head(mq[Driver])[2] \in {1, 12}
                     THEN ToLine(drv, "ack", Head(mq[Driver])[2]) ELSE drv
  BY Zenon DEF Recv, ToLine
<1>3. Ack => drv' = ToState(drv, "read")
  BY DEF Ack, ToState
<1>4. PollEnds => drv' = ToState(drv, "recv")
  BY DEF PollEnds, ToState
<1>5. SendEvent => drv' = ToEvent(drv, "recv", <<>>)
  BY DEF SendEvent, ToEvent
<1> DEFINE m == Head(mq[Driver])
<1>6. ASSUME Recv
      PROVE  IF m[1] = "irq" /\ m[2] \in {1, 12}
             THEN drv' = DrvOf("ack", m[2], drv.prefix, drv.hist, drv.packet, drv.event)
             ELSE drv' = drv
  <2>1. ASSUME m[1] = "irq" /\ m[2] \in {1, 12}
        PROVE  drv' = DrvOf("ack", m[2], drv.prefix, drv.hist, drv.packet, drv.event)
    <3> DEFINE l == m[2]
    <3>1. drv' = ToLine(drv, "ack", l)
      BY <1>2, <1>6, <2>1, SMTT(30)
    <3> HIDE DEF l
    <3>2. drv' = DrvOf("ack", l, drv.prefix, drv.hist, drv.packet, drv.event)
      BY <1>1, <3>1, DrvSet
    <3> QED BY <3>2 DEF l
  <2>2. ~(m[1] = "irq" /\ m[2] \in {1, 12}) => drv' = drv
    BY <1>2, <1>6, SMTT(30)
  <2> QED BY <2>1, <2>2, ZenonT(30)
<1>7. Ack => drv' = DrvOf("read", drv.irq, drv.prefix, drv.hist, drv.packet, drv.event)
  BY <1>1, <1>3, DrvSet, SMTT(30)
<1>8. PollEnds => drv' = DrvOf("recv", drv.irq, drv.prefix, drv.hist, drv.packet, drv.event)
  BY <1>1, <1>4, DrvSet
<1>9. SendEvent => drv' = DrvOf("recv", drv.irq, drv.prefix, drv.hist, drv.packet, <<>>)
  <2> DEFINE e == <<>>
  <2>1. SendEvent => drv' = ToEvent(drv, "recv", e)
    BY <1>5, SMTT(30)
  <2> HIDE DEF e
  <2>2. SendEvent => drv' = DrvOf("recv", drv.irq, drv.prefix, drv.hist, drv.packet, e)
    BY <1>1, <2>1, DrvSet
  <2> QED BY <2>2 DEF e
<1> QED BY <1>6, <1>7, <1>8, <1>9, ZenonT(30)

(* Every step keeps the driver and the devices in shape.                   *)
LEMMA DriverShapesStep ==
    ASSUME SetUp, Shapes, Len(moved) <= Len(Packets), [Next]_vars
    PROVE  DriverShapes'
<1> DEFINE Seqs == IsSeq(mouse') /\ IsSeq(typed') /\ IsSeq(moved') /\ IsSeq(sent')
<1>0. /\ DrvShape(drv) /\ IsSeq(drv.packet) /\ DriverShapes
      /\ IsSeq(mouse) /\ IsSeq(typed) /\ IsSeq(moved) /\ IsSeq(sent)
  BY DEF Shapes, DriverShapes, DrvShape
<1>a. DrvShape(drv') /\ IsSeq(drv'.packet) /\ Seqs => DriverShapes'
  BY DEF DriverShapes, DrvShape
<1>b. UNCHANGED ps2vars => DriverShapes'
  BY <1>0, <1>a DEF ps2vars, devices, driver
<1>1. CASE Controller \/ Timer \/ Interrupt \/ Exception
  BY <1>1, <1>b, SMTT(30) DEF Controller, Timer, Interrupt, Exception
<1>2. CASE KeyByte(obuf'.byte) \/ \E b : KeyByte(b)
  <2>1. PICK b : typed' = Append(typed, b) /\ UNCHANGED <<mouse, moved, drv, sent>>
    BY <1>2 DEF KeyByte, driver
  <2> QED BY <1>0, <1>a, <2>1, AppendFacts, SMTT(30)
<1>3. CASE MouseByte
  <2>1. IsSeq(mouse') /\ IsSeq(moved') /\ UNCHANGED <<typed, drv, sent>>
    BY <1>3, MouseSends, ZenonT(30) DEF MouseByte, driver
  <2> QED BY <1>0, <1>a, <2>1
<1>4. CASE Recv \/ Ack \/ PollEnds
  <2>1. \/ drv' = drv
        \/ \E a, i : drv' = DrvOf(a, i, drv.prefix, drv.hist, drv.packet, drv.event)
    BY <1>0, <1>4, DriverTurns, SMTT(30)
  <2>2. DrvShape(drv') /\ drv'.packet = drv.packet
    BY <1>0, <2>1, DrvParts
  <2>3. UNCHANGED <<mouse, typed, moved, sent>>
    BY <1>4, SMTT(30) DEF Recv, Ack, PollEnds, devices
  <2> QED BY <1>0, <1>a, <2>2, <2>3, SMTT(30)
<1>5. CASE SendEvent
  <2>1. drv' = DrvOf("recv", drv.irq, drv.prefix, drv.hist, drv.packet, <<>>)
    BY <1>0, <1>5, DriverTurns, SMTT(30)
  <2>2. DrvShape(drv') /\ drv'.packet = drv.packet
    BY <2>1 DEF DrvOf, DrvShape
  <2>3. UNCHANGED <<mouse, typed, moved>> /\ sent' = Append(sent, drv.event)
    BY <1>5 DEF SendEvent, devices
  <2> QED BY <1>0, <1>a, <2>2, <2>3, AppendFacts, SMTT(30)
<1>6. CASE Read
  <2>1. drv' = (IF drv.irq = 1 THEN irq1(drv, obuf.byte) ELSE irq12(drv, obuf.byte))
        /\ UNCHANGED <<mouse, typed, moved, sent>>
    BY <1>6, SMTT(30) DEF Read
  <2>2. DrvShape(drv') /\ IsSeq(drv'.packet)
    BY <1>0, <2>1, KeyRead, MouseRead, SMTT(30)
  <2> QED BY <1>0, <1>a, <2>1, <2>2, SMTT(30)
<1>7. CASE DriverBlocks \/ Reset \/ UNCHANGED vars
  BY <1>7, <1>b DEF DriverBlocks, Reset, vars
<1>8. CASE DriverStep
  BY <1>4, <1>5, <1>6, <1>7, <1>8, SMTT(30) DEF DriverStep
<1>9. CASE Device
  BY <1>2, <1>3, <1>9 DEF Device
<1>10. CASE OtherTask
  BY <1>10, <1>b DEF OtherTask, MountFs, UiStarts, UiDispatch
<1>11. CASE SysReady
  BY <1>11, <1>b DEF SysReady
<1> QED BY <1>1, <1>7, <1>8, <1>9, <1>10, <1>11, SMTT(30) DEF Next

(***************************************************************************)
(* The driver acknowledges one of its two lines only, and the mouse has no *)
(* more packets than it sends.                                             *)
(***************************************************************************)
Sane ==
    /\ drv.pc \in {"ack", "read"} => drv.irq \in {1, 12}
    /\ Len(moved) <= Len(Packets)

Bases == SetUp /\ Shapes /\ Sane

(* The system begins that way.                                             *)
LEMMA BasesInit == Init => Bases
<1> SUFFICES ASSUME Init PROVE Bases
  OBVIOUS
<1>1. drv.pc = "recv" /\ moved = <<>>
  BY DEF Init, Ps2Init, mouse_init
<1>2. Sane
  BY <1>1, Ps2Assumption DEF Sane
<1> QED BY <1>2, SetUpInit, ShapesInit, SMTT(30) DEF Bases

(* Recv takes a line from a message only after it has compared it with the *)
(* two it serves.                                                          *)
LEMMA SaneStep ==
    ASSUME Bases, [Next]_vars
    PROVE  Sane'
<1>0. /\ Sane /\ Shapes /\ DriverShapes /\ DrvShape(drv) /\ IsSeq(drv.packet) /\ IsSeq(moved)
  BY DEF Bases, Shapes, DriverShapes, DrvShape
<1>b. UNCHANGED ps2vars => Sane'
  BY <1>0 DEF ps2vars, devices, driver, Sane
<1>1. CASE Controller \/ Timer \/ Interrupt \/ Exception
  BY <1>1, <1>b DEF Controller, Timer, Interrupt, Exception
<1>2. CASE \E b : KeyByte(b)
  <2>1. UNCHANGED <<drv, moved>>
    BY <1>2 DEF KeyByte, driver
  <2> QED BY <1>0, <2>1 DEF Sane
<1>3. CASE MouseByte
  <2>1. drv' = drv
    BY <1>3 DEF MouseByte, driver
  <2>2. Len(moved) <= Len(Packets)
    BY <1>0 DEF Sane
  <2>3. Len(moved') <= Len(Packets)
    BY <1>0, <1>3, <2>2, MouseSends
  <2> QED BY <1>0, <2>1, <2>3 DEF Sane
<1>4. CASE Recv \/ Ack \/ PollEnds
  <2>1. \/ drv' = drv
        \/ \E i \in {1, 12} : drv' = DrvOf("ack", i, drv.prefix, drv.hist, drv.packet, drv.event)
        \/ \E a \in {"read", "recv"} :
              /\ a = "read" => Ack
              /\ drv' = DrvOf(a, drv.irq, drv.prefix, drv.hist, drv.packet, drv.event)
    BY <1>0, <1>4, DriverTurns, SMTT(30)
  <2>2. drv'.pc \in {"ack", "read"} => drv'.irq \in {1, 12}
    <3>1. Ack => drv.pc = "ack"
      BY DEF Ack, Driving
    <3>2. drv.pc \in {"ack", "read"} => drv.irq \in {1, 12}
      BY <1>0 DEF Sane
    <3>3. CASE drv' = drv
      BY <3>2, <3>3, SMTT(30)
    <3>4. ASSUME NEW i \in {1, 12},
                 drv' = DrvOf("ack", i, drv.prefix, drv.hist, drv.packet, drv.event)
          PROVE  drv'.irq \in {1, 12}
      BY <3>4 DEF DrvOf, DrvShape
    <3>5. ASSUME NEW a \in {"read", "recv"}, a = "read" => Ack,
                 drv' = DrvOf(a, drv.irq, drv.prefix, drv.hist, drv.packet, drv.event)
          PROVE  drv'.pc \in {"ack", "read"} => drv'.irq \in {1, 12}
      <4>1. drv'.pc = a /\ drv'.irq = drv.irq
        BY <3>5 DEF DrvOf, DrvShape
      <4> QED BY <3>1, <3>2, <3>5, <4>1, SMTT(30)
    <3> QED BY <2>1, <3>3, <3>4, <3>5
  <2>3. UNCHANGED moved
    BY <1>4 DEF Recv, Ack, PollEnds, devices
  <2> QED BY <1>0, <2>2, <2>3, SMTT(30) DEF Sane
<1>5. CASE SendEvent
  <2>1. drv' = DrvOf("recv", drv.irq, drv.prefix, drv.hist, drv.packet, <<>>)
    BY <1>0, <1>5, DriverTurns, SMTT(30)
  <2>2. drv'.pc = "recv"
    BY <2>1 DEF DrvOf, DrvShape
  <2>3. UNCHANGED moved
    BY <1>5 DEF SendEvent, devices
  <2> QED BY <1>0, <2>2, <2>3, SMTT(30) DEF Sane
<1>6. CASE Read
  <2>1. drv' = (IF drv.irq = 1 THEN irq1(drv, obuf.byte) ELSE irq12(drv, obuf.byte))
        /\ UNCHANGED moved
    BY <1>6, SMTT(30) DEF Read
  <2>2. drv'.pc \notin {"ack", "read"}
    BY <1>0, <2>1, KeyRead, MouseRead, SMTT(30)
  <2> QED BY <1>0, <2>1, <2>2 DEF Sane
<1>7. CASE DriverBlocks \/ Reset \/ UNCHANGED vars
  BY <1>7, <1>b DEF DriverBlocks, Reset, vars
<1>8. CASE DriverStep
  BY <1>4, <1>5, <1>6, <1>7, <1>8, SMTT(30) DEF DriverStep
<1>9. CASE Device
  BY <1>2, <1>3, <1>9 DEF Device
<1>10. CASE OtherTask
  BY <1>10, <1>b DEF OtherTask, MountFs, UiStarts, UiDispatch
<1>11. CASE SysReady
  BY <1>11, <1>b DEF SysReady
<1> QED BY <1>1, <1>7, <1>8, <1>9, <1>10, <1>11, SMTT(30) DEF Next

(* And every step keeps it that way.                                       *)
LEMMA BasesStep ==
    ASSUME Bases, [Next]_vars
    PROVE  Bases'
<1>1. SetUp /\ Shapes /\ Len(moved) <= Len(Packets) /\ (drv.pc = "ack" => drv.irq \in {1, 12})
  BY DEF Bases, Sane
<1>2. SetUp'
  BY <1>1, SetUpStep, Fixed
<1>3. Shapes'
  BY <1>1, TaskShapesStep, PicShapeStep, DriverShapesStep DEF Shapes
<1> QED BY <1>2, <1>3, SaneStep DEF Bases

(* When a task executes, its registers are what it left in them, for every *)
(* set of tasks, lines and faults: isr_savecontext runs in the old address *)
(* space, isr_loadcontext in the new one, and the only stub that destroys  *)
(* registers, that of a fault taken for one of the core, never returns to  *)
(* the task.                                                               *)
THEOREM ContextsStayKept == Spec => []ContextKept
<1>1. Init => Bases /\ Contexts
  BY BasesInit, ContextsInit
<1>2. Bases /\ Contexts /\ [Next]_vars => (Bases /\ Contexts)'
  BY BasesStep, ContextsStep DEF Bases
<1>3. Bases /\ Contexts => ContextKept
  BY DEF Bases, Shapes, TaskShapes, Contexts, ContextKept, Kept, Own
<1> QED BY <1>1, <1>2, <1>3, PTL DEF Spec

-----------------------------------------------------------------------------
(***************************************************************************)
(* The timer                                                               *)
(***************************************************************************)
ToTick(c, rcx, rbx, rax, tsc, loops) ==
    [c EXCEPT !.rcx = rcx, !.rbx = rbx, !.rax = rax, !.tsc = tsc, !.loops = loops]
ToTurn(c, rcx, loops, exit) == [c EXCEPT !.rcx = rcx, !.loops = loops, !.exit = exit]

(* What a tick and a turn of the loop make of the registers.               *)
LEMMA CalSet ==
    ASSUME NEW c, c = CalOf(c.rax, c.rbx, c.rcx, c.tsc, c.loops, c.exit),
           NEW a, NEW b, NEW n, NEW t, NEW l, NEW e
    PROVE  /\ ToTick(c, n, b, a, t, l) = CalOf(a, b, n, t, l, c.exit)
           /\ ToTurn(c, n, l, e) = CalOf(c.rax, c.rbx, n, c.tsc, l, e)
<1> DEFINE c1 == [c EXCEPT !.rcx = n]
<1>1. c1 = CalOf(c.rax, c.rbx, n, c.tsc, c.loops, c.exit)
  BY DEF CalOf
<1> HIDE DEF c1
<1> DEFINE c2 == [c1 EXCEPT !.rbx = b]
           d2 == [c1 EXCEPT !.loops = l]
<1>2. /\ c2 = CalOf(c.rax, b, n, c.tsc, c.loops, c.exit)
      /\ d2 = CalOf(c.rax, c.rbx, n, c.tsc, l, c.exit)
  BY <1>1 DEF CalOf
<1> HIDE DEF c2, d2
<1> DEFINE c3 == [c2 EXCEPT !.rax = a]
<1>3. /\ c3 = CalOf(a, b, n, c.tsc, c.loops, c.exit)
      /\ [d2 EXCEPT !.exit = e] = CalOf(c.rax, c.rbx, n, c.tsc, l, e)
  BY <1>2 DEF CalOf
<1> HIDE DEF c3
<1> DEFINE c4 == [c3 EXCEPT !.tsc = t]
<1>4. c4 = CalOf(a, b, n, t, c.loops, c.exit)
  BY <1>3 DEF CalOf
<1> HIDE DEF c4
<1>5. [c4 EXCEPT !.loops = l] = CalOf(a, b, n, t, l, c.exit)
  BY <1>4 DEF CalOf
<1> QED BY <1>3, <1>5 DEF ToTick, ToTurn, c1, c2, c3, c4, d2

(* The parts of a record of registers.                                     *)
LEMMA CalParts ==
    ASSUME NEW a, NEW b, NEW n, NEW t, NEW l, NEW e, NEW c, c = CalOf(a, b, n, t, l, e)
    PROVE  /\ c.rax = a /\ c.rbx = b /\ c.rcx = n /\ c.tsc = t /\ c.loops = l /\ c.exit = e
           /\ c = CalOf(c.rax, c.rbx, c.rcx, c.tsc, c.loops, c.exit)
<1>1. c.rax = a /\ c.rbx = b /\ c.rcx = n /\ c.tsc = t /\ c.loops = l /\ c.exit = e
  BY SMTT(30) DEF CalOf
<1> QED BY <1>1, Zenon

(* The calibration: no tick has come yet, and the handler has not been     *)
(* called.                                                                 *)
LEMMA CalibratesInit == Init => Calibrates
<1> SUFFICES ASSUME Init PROVE Calibrates
  OBVIOUS
<1>1. PICK f : f = FALSE
  BY Zenon
<1>2. cal = CalOf(0, 0, 0, 0, 0, f) /\ phase = "calibrate"
  BY <1>1, Zenon DEF Init, IsrInit, NoCal, CalOf
<1>3. cal = CalOf(cal.rax, cal.rbx, cal.rcx, cal.tsc, cal.loops, cal.exit)
      /\ cal.rax = 0 /\ cal.rbx = 0 /\ cal.rcx = 0 /\ cal.tsc = 0 /\ cal.loops = 0 /\ cal.exit = f
  BY <1>2, CalParts
<1>4. cal.exit \in BOOLEAN /\ ~cal.exit
  BY <1>1, <1>3, Zenon
<1> QED BY <1>2, <1>3, <1>4 DEF Calibrates, Measures

(* A tick: the time stamps move on, and the count begins at the first.     *)
LEMMA TickMeasures ==
    ASSUME Measures(cal), CalTick
    PROVE  Measures(cal')
<1> DEFINE a == cal.tsc + 1
           b == cal.rax
           n == IF cal.rax = 0 THEN 0 ELSE cal.rcx
           t == cal.tsc + 1
           l == IF cal.tsc = 0 THEN 0 ELSE cal.loops
<1>1. cal' = ToTick(cal, n, b, a, t, l)
  BY DEF CalTick, ToTick
<1>2. /\ a = cal.tsc + 1 /\ b = cal.tsc /\ t = cal.tsc + 1 /\ cal.tsc \in Nat
      /\ n \in Nat /\ l \in Nat /\ n = l
  BY SMTT(30) DEF Measures
<1> HIDE DEF a, b, n, t, l
<1>3. cal' = CalOf(a, b, n, t, l, cal.exit)
  BY <1>1, CalSet DEF Measures
<1>4. PICK c : c = cal'
  OBVIOUS
<1>5. c = CalOf(a, b, n, t, l, cal.exit)
  BY <1>3, <1>4
<1>6. /\ c = CalOf(c.rax, c.rbx, c.rcx, c.tsc, c.loops, c.exit)
      /\ c.rax = a /\ c.rbx = b /\ c.rcx = n /\ c.tsc = t /\ c.loops = l /\ c.exit = cal.exit
  <2>1. c.rax = a /\ c.rbx = b /\ c.rcx = n /\ c.tsc = t /\ c.loops = l /\ c.exit = cal.exit
    BY <1>5 DEF CalOf
  <2> QED BY <1>5, <2>1, Zenon
<1>7. c.exit \in BOOLEAN /\ (c.exit => cal.tsc >= 2)
  BY <1>6, SMTT(30) DEF Measures
<1>8. Measures(c)
  BY <1>2, <1>6, <1>7 DEF Measures
<1> QED BY <1>4, <1>8

(* A turn of the loop: it is the last one when two ticks have come.        *)
LEMMA TurnMeasures ==
    ASSUME Measures(cal), CalLoop
    PROVE  Measures(cal')
<1>0. PICK e \in BOOLEAN : e = (cal.rbx # 0)
  BY Zenon
<1> DEFINE n == cal.rcx + 1
           l == cal.loops + 1
<1>1. cal' = ToTurn(cal, n, l, e)
  BY <1>0 DEF CalLoop, ToTurn
<1>2. n = cal.rcx + 1 /\ l = cal.loops + 1
  OBVIOUS
<1> HIDE DEF n, l
<1>3. cal' = CalOf(cal.rax, cal.rbx, n, cal.tsc, l, e)
  BY <1>1, CalSet DEF Measures
<1>4. PICK c : c = cal'
  OBVIOUS
<1>5. c = CalOf(cal.rax, cal.rbx, n, cal.tsc, l, e)
  BY <1>3, <1>4
<1>6. /\ c = CalOf(c.rax, c.rbx, c.rcx, c.tsc, c.loops, c.exit)
      /\ c.rax = cal.rax /\ c.rbx = cal.rbx /\ c.rcx = n /\ c.tsc = cal.tsc
      /\ c.loops = l /\ c.exit = e
  <2>1. /\ c.rax = cal.rax /\ c.rbx = cal.rbx /\ c.rcx = n /\ c.tsc = cal.tsc
        /\ c.loops = l /\ c.exit = e
    BY <1>5 DEF CalOf
  <2> QED BY <1>5, <2>1, Zenon
<1>7. e => cal.tsc >= 2
  BY <1>0, SMTT(30) DEF Measures
<1>8. c.exit \in BOOLEAN /\ (c.exit => cal.tsc >= 2)
  BY <1>6, <1>7, SMTT(30)
<1>9. Measures(c)
  BY <1>2, <1>6, <1>8, SMTT(30) DEF Measures
<1> QED BY <1>4, <1>9

(* Every step of the calibration measures one period; nothing else touches *)
(* its registers before sys_ready.                                         *)
LEMMA CalibratesStep ==
    ASSUME Calibrates, [Next]_vars
    PROVE  Calibrates'
<1>a. UNCHANGED <<phase, cal>> => Calibrates'
  BY DEF Calibrates
<1>b. phase = "ready" /\ phase' \notin {"calibrate", "boot"} => Calibrates'
  BY DEF Calibrates
<1>1. CASE Controller
  <2>1. CASE TimerFires
    BY <1>a, <2>1 DEF TimerFires
  <2>2. CASE CalTick
    <3>1. phase = "calibrate" /\ phase' = "calibrate"
      BY <2>2 DEF CalTick
    <3> QED BY <2>2, <3>1, TickMeasures DEF Calibrates
  <2>3. CASE CalLoop
    <3>1. phase = "calibrate" /\ phase' = "calibrate"
      BY <2>3 DEF CalLoop
    <3> QED BY <2>3, <3>1, TurnMeasures DEF Calibrates
  <2>4. CASE CalDone
    <3>1. phase = "calibrate" /\ phase' = "boot" /\ cal.exit /\ cal' = cal
      BY <2>4, SMTT(30) DEF CalDone
    <3> QED BY <3>1 DEF Calibrates
  <2> QED BY <1>1, <2>1, <2>2, <2>3, <2>4 DEF Controller
<1>2. CASE Timer
  BY <1>2, <1>a, SMTT(30) DEF Timer, isr_irqtmr, isr_irqtmr_rtc
<1>3. CASE Interrupt
  BY <1>3, <1>a, SMTT(30) DEF Interrupt, isr_irq_master, isr_irq_slave, isr_irq_apic, IrqStub
<1>4. CASE Exception
  <2>1. CASE \E e \in Faults : Fault(e)
    BY <1>a, <2>1, SMTT(30) DEF Fault
  <2>2. CASE \E t \in Task : ExcStub(t)
    BY <1>b, <2>2 DEF ExcStub, FaultInCore, Handled
  <2> QED BY <1>4, <2>1, <2>2, SMTT(30) DEF Exception, isr_exc_pic, isr_exce_pic, isr_exc_apic, isr_exce_apic
<1>5. CASE DriverStep
  <2>1. CASE Reset
    BY <1>b, <2>1 DEF Reset, Driving
  <2>2. CASE Recv \/ DriverBlocks \/ Ack \/ Read \/ PollEnds \/ SendEvent
    BY <1>a, <2>2, SMTT(30) DEF Recv, DriverBlocks, Block, Ack, Read, PollEnds, SendEvent
  <2> QED BY <1>5, <2>1, <2>2 DEF DriverStep
<1>6. CASE Device
  BY <1>6, <1>a, SMTT(30) DEF Device, KeyByte, MouseByte
<1>7. CASE OtherTask
  BY <1>7, <1>a, SMTT(30) DEF OtherTask, Work, Block, MountFs, UiStarts, UiDispatch
<1>8. CASE SysReady
  BY <1>8, SMTT(30) DEF SysReady, Calibrates
<1>9. CASE UNCHANGED vars
  BY <1>9, <1>a, SMTT(30) DEF vars, isrvars
<1> QED BY <1>1, <1>2, <1>3, <1>4, <1>5, <1>6, <1>7, <1>8, <1>9, SMTT(30) DEF Next

(* The clock after a step that leaves the controller as it says.           *)
LEMMA ClockFrom ==
    ASSUME SetUp, UNCHANGED setup, NEW m, NEW i, NEW r \in BOOLEAN, PicIs(m, i, r),
           clocksource # "rtc" => r, r \/ tmrirq \in i,
           platform = "ibmpc" => 2 \notin m, phase' = "ready" => tmrirq \notin m
    PROVE  Clock'
<1>1. pic'.mask = m /\ pic'.irr = i /\ pic'.rtc = r
  BY DEF PicIs
<1>2. tmrirq' = tmrirq /\ platform' = platform /\ clocksource' = clocksource
  BY Fixed, SMTT(30) DEF setup
<1> QED BY <1>1, <1>2, SMTT(30) DEF Clock, ClockRuns

(* The clock is unmasked for its calibration, and has not asked yet.       *)
LEMMA ClockInit == Init => Clock
<1> SUFFICES ASSUME Init PROVE Clock
  OBVIOUS
<1>1. SetUp
  BY SetUpInit
<1>2. PICK t \in BOOLEAN : t = TRUE
  BY Zenon
<1> DEFINE p == (IF platform = "acpi" THEN inithw_apic ELSE inithw_pic).pic
           m == IF platform = "acpi" THEN Line ELSE Line \ {2}
<1>3. p = [mask |-> m, irr |-> {}, isv |-> {}, rtc |-> t]
  BY <1>2, Zenon DEF inithw_apic, inithw_pic
<1>4. tmrirq \in Line /\ platform \in {"ibmpc", "acpi"}
  BY <1>1, TimerLine DEF Line
<1>5. pic = isr_enableirq(p, tmrirq) /\ phase = "calibrate"
  BY DEF Init, IsrInit
<1>6. platform = "ibmpc" => 2 \notin m
  BY SMTT(30) DEF Line
<1> HIDE DEF p, m
<1>7. p = [mask |-> p.mask, irr |-> p.irr, isv |-> p.isv, rtc |-> p.rtc] /\ p.mask = m /\ p.rtc = t
  BY <1>3, SMTT(30)
<1>8. pic = [mask |-> p.mask \ {tmrirq}, isv |-> p.isv, rtc |-> p.rtc, irr |-> p.irr]
  BY <1>1, <1>4, <1>5, <1>7, PicOps, ZenonT(30)
<1>9. pic.mask = m \ {tmrirq} /\ pic.rtc = t
  BY <1>7, <1>8
<1> QED BY <1>2, <1>5, <1>6, <1>9 DEF Clock, ClockRuns

(* Every step keeps the clock going: its line is asked for until the stub  *)
(* has acknowledged it, is none of the lines of a driver, and is the only  *)
(* one masked when the calibration is done.                                *)
LEMMA ClockStep ==
    ASSUME Bases, Clock, [Next]_vars
    PROVE  Clock'
<1>0. /\ SetUp /\ Shapes /\ UNCHANGED setup /\ pic.rtc \in BOOLEAN
      /\ clocksource # "rtc" => pic.rtc
      /\ pic.rtc \/ tmrirq \in pic.irr
      /\ platform = "ibmpc" => 2 \notin pic.mask
      /\ phase = "ready" => tmrirq \notin pic.mask
  BY SetUpStep, SMTT(30) DEF Bases, Clock, ClockRuns
<1>t. /\ tmrirq \in {0, 8} /\ platform \in {"ibmpc", "acpi"}
      /\ DeviceLines \subseteq 1..15 \ {2, 8}
  BY <1>0, TimerLine, IsrAssumption, SMTT(30)
<1>u. tmrirq' = tmrirq /\ platform' = platform /\ clocksource' = clocksource
  BY <1>0, Fixed, SMTT(30) DEF setup
<1>b. UNCHANGED pic /\ (phase' = "ready" => phase = "ready") => Clock'
  BY <1>0, <1>u, SMTT(30) DEF Clock, ClockRuns
<1>1. CASE Controller
  <2>1. CASE TimerFires
    <3>1. PICK r \in BOOLEAN : r = (clocksource # "rtc")
      BY Zenon
    <3>2. PicIs(pic.mask, pic'.irr, r) /\ (clocksource = "rtc" => tmrirq \in pic'.irr)
      BY <1>0, <2>1, <3>1, TimerAsks, Zenon
    <3>3. phase' = phase
      BY <2>1 DEF TimerFires
    <3> QED BY <1>0, <3>1, <3>2, <3>3, ClockFrom, Zenon
  <2>2. CASE CalTick
    <3>1. PICK r \in BOOLEAN : r = TRUE
      BY Zenon
    <3>2. phase' = phase /\ phase = "calibrate"
      BY <2>2 DEF CalTick
    <3>3. ~isr_irqtmr
      BY <3>2 DEF isr_irqtmr
    <3>4. PicIs(pic.mask, pic.irr \ {tmrirq}, r)
      BY <1>0, <2>2, <3>1, <3>3, TickServed, ZenonT(30)
    <3> QED BY <1>0, <3>1, <3>2, <3>4, ClockFrom, Zenon
  <2>3. CASE CalLoop
    BY <1>b, <2>3, SMTT(30) DEF CalLoop
  <2>4. CASE CalDone
    <3>1. PicIs(pic.mask \cup {tmrirq}, pic.irr, pic.rtc) /\ phase' = "boot"
      BY <1>0, <2>4, CalDoneMasks, ZenonT(30) DEF CalDone
    <3>2. platform = "ibmpc" => 2 \notin pic.mask \cup {tmrirq}
      BY <1>0, <1>t, SMTT(30)
    <3> HIDE DEF PicIs
    <3> QED BY <1>0, <3>1, <3>2, ClockFrom, ZenonT(30)
  <2> QED BY <1>1, <2>1, <2>2, <2>3, <2>4, SMTT(30) DEF Controller
<1>2. CASE Timer
  <2>0. phase' = phase
    BY <1>2, SMTT(30) DEF Timer, isr_irqtmr, isr_irqtmr_rtc
  <2>1. CASE isr_irqtmr
    <3>1. clocksource # "rtc" /\ PicIs(pic.mask, pic.irr \ {tmrirq}, pic.rtc)
      BY <1>0, <2>1, TickServed, ZenonT(30) DEF isr_irqtmr
    <3> QED BY <1>0, <2>0, <3>1, ClockFrom, Zenon
  <2>2. CASE isr_irqtmr_rtc
    <3>1. PICK r \in BOOLEAN : r = TRUE
      OBVIOUS
    <3>2. clocksource = "rtc"
      BY <2>2, SMTT(30) DEF isr_irqtmr_rtc
    <3>3. ~isr_irqtmr
      BY <3>2 DEF isr_irqtmr
    <3>4. PicIs(pic.mask, pic.irr \ {tmrirq}, r)
      BY <1>0, <2>2, <3>1, <3>3, TickServed, ZenonT(30)
    <3> QED BY <1>0, <2>0, <3>1, <3>4, ClockFrom, ZenonT(30)
  <2> QED BY <1>2, <2>1, <2>2, SMTT(30) DEF Timer
<1>3. CASE Interrupt
  <2>1. PICK l \in DeviceLines : isr_irq_master(l) \/ isr_irq_slave(l) \/ isr_irq_apic(l)
    BY <1>3, SMTT(30) DEF Interrupt
  <2>2. PicIs(pic.mask \cup {l}, pic.irr \ {l}, pic.rtc) /\ \E p : IrqStub(l, p)
    BY <1>0, <2>1, LineServed, ZenonT(30)
  <2>3. phase' = phase
    BY <2>2, Zenon DEF IrqStub
  <2>4. l # tmrirq /\ l # 2
    BY <1>t, SMTT(30)
  <2>5. /\ platform = "ibmpc" => 2 \notin pic.mask \cup {l}
        /\ phase' = "ready" => tmrirq \notin pic.mask \cup {l}
        /\ pic.rtc \/ tmrirq \in pic.irr \ {l}
    BY <1>0, <2>3, <2>4, SMTT(30)
  <2> QED BY <1>0, <2>2, <2>5, ClockFrom, ZenonT(30)
<1>4. CASE Exception
  <2>1. pic' = pic /\ phase = "ready"
    BY <1>4, Zenon DEF Exception, Fault, isr_exc_pic, isr_exce_pic, isr_exc_apic, isr_exce_apic, ExcStub
  <2> QED BY <1>b, <2>1, SMTT(30)
<1>5. CASE DriverStep
  <2>1. CASE Ack
    <3>1. drv.irq \in {1, 12} /\ phase' = phase
      BY <2>1, SMTT(30) DEF Ack, Driving, Bases, Sane
    <3>2. PICK m : m \subseteq pic.mask /\ PicIs(m, pic.irr, pic.rtc)
      BY <1>0, <2>1, <3>1, AckUnmasks, ZenonT(30)
    <3> QED BY <1>0, <3>1, <3>2, ClockFrom, Zenon
  <2>2. CASE Read
    <3>1. PICK l \in {1, 12} : l = IF obuf.dev = "kbd" THEN 1 ELSE 12
      BY SMTT(30)
    <3>2. PicIs(pic.mask, IF platform = "acpi" THEN pic.irr ELSE pic.irr \ {l}, pic.rtc)
      BY <1>0, <2>2, <3>1, ReadDrops, SMTT(30)
    <3>3. PICK i : PicIs(pic.mask, i, pic.rtc) /\ (tmrirq \in pic.irr => tmrirq \in i)
      BY <1>t, <3>1, <3>2, SMTT(30)
    <3>4. phase' = phase
      BY <2>2, SMTT(30) DEF Read
    <3> QED BY <1>0, <3>3, <3>4, ClockFrom, SMTT(30)
  <2>3. CASE Recv \/ DriverBlocks \/ PollEnds \/ SendEvent \/ Reset
    <3>1. pic' = pic /\ phase = "ready"
      BY <2>3, SMTT(30) DEF Recv, DriverBlocks, Block, PollEnds, SendEvent, Reset, Driving
    <3> QED BY <1>b, <3>1
  <2> QED BY <1>5, <2>1, <2>2, <2>3, SMTT(30) DEF DriverStep
<1>6. CASE Device
  <2>1. PICK l \in {1, 12} : pic' = Signal(pic, l)
    BY <1>6, SMTT(30) DEF Device, KeyByte, MouseByte
  <2>2. PicIs(pic.mask, IF platform = "acpi" /\ l \in pic.mask THEN pic.irr
                        ELSE pic.irr \cup {l}, pic.rtc)
    BY <1>0, <2>1, ByteAsks, ZenonT(30)
  <2>3. PICK i : PicIs(pic.mask, i, pic.rtc) /\ (tmrirq \in pic.irr => tmrirq \in i)
    BY <2>2, SMTT(30)
  <2>4. phase' = phase
    BY <1>6, Zenon DEF Device, KeyByte, MouseByte
  <2> QED BY <1>0, <2>3, <2>4, ClockFrom
<1>7. CASE OtherTask
  <2>1. pic' = pic /\ phase' = phase
    BY <1>7, SMTT(30) DEF OtherTask, Work, Block, MountFs, UiStarts, UiDispatch
  <2> QED BY <1>b, <2>1, SMTT(30)
<1>8. CASE SysReady
  <2>1. PicIs(pic.mask \ Routed, pic.irr, pic.rtc)
    BY <1>0, <1>8, FiniUnmasks, ZenonT(30)
  <2>2. tmrirq \in Routed
    BY <1>0, TimerLine, SMTT(30) DEF Routed, Line
  <2>3. PICK m : /\ PicIs(m, pic.irr, pic.rtc) /\ tmrirq \notin m
                 /\ platform = "ibmpc" => 2 \notin m
    BY <1>0, <2>1, <2>2, SMTT(30)
  <2> QED BY <1>0, <2>3, ClockFrom, ZenonT(30)
<1>9. CASE UNCHANGED vars
  BY <1>9, <1>b, SMTT(30) DEF vars, isrvars
<1> QED BY <1>1, <1>2, <1>3, <1>4, <1>5, <1>6, <1>7, <1>8, <1>9 DEF Next

(* A tenth of the frequency at most divides it ten times at least.         *)
LEMMA TenTimes ==
    ASSUME NEW f \in Nat, NEW n \in Nat, n > 0, 10 * n <= f
    PROVE  f \div n >= 10
<1> DEFINE d == f \div n
           r == f % n
<1>1. d \in Nat /\ r \in Nat /\ r < n /\ f = n * d + r
  OBVIOUS
<1> HIDE DEF d, r
<1>2. CASE d >= 10
  BY <1>2, SMTT(30) DEF d
<1>3. CASE d < 10
  <2>1. d \in {0, 1, 2, 3, 4, 5, 6, 7, 8, 9}
    BY <1>1, <1>3, SMTT(30)
  <2>2. n * d <= 9 * n
    BY <1>1, <2>1, SMTT(30)
  <2> QED BY <1>1, <2>2, SMTT(30)
<1> QED BY <1>1, <1>2, <1>3, SMTT(30)

(* The divisors fit the frequency of every timer the platforms have.       *)
LEMMA Divisors ==
    ASSUME SetUp
    PROVE  DivisorsFit
<1>1. clocksource \in {"pit", "rtc", "hpet"}
  BY TimerLine
<1>2. tmrfreq \in {1000, 1024, 100000}
  BY <1>1, SMTT(30) DEF tmrfreq
<1>3. alarmstep > 0 /\ alarmstep * tmrfreq <= 1000000
  <2>1. alarmstep = LET st == 1000000 \div tmrfreq IN IF st < 1 THEN 1 ELSE st
    BY SMTT(30) DEF alarmstep
  <2> QED BY <1>2, <2>1, SMTT(30)
<1>4. ASSUME NEW q \in Quantums PROVE quantum(q) > 0 /\ qdiv(q) >= 10
  <2>1. q \in Nat
    BY IsrAssumption, SMTT(30)
  <2>2. quantum(q) \in Nat /\ quantum(q) > 0 /\ 10 * quantum(q) <= tmrfreq
    BY <1>2, <2>1, SMTT(30) DEF quantum
  <2>3. tmrfreq \in Nat
    BY <1>2
  <2> QED BY <2>2, <2>3, TenTimes, SMTT(30) DEF qdiv
<1> QED BY <1>3, <1>4, SMTT(30) DEF DivisorsFit

(* Time goes on, on both platforms and with each of their timers: the      *)
(* calibration measures one period however its loop and the ticks          *)
(* interleave, the divisors fit the frequency for every quantum= of the    *)
(* command line, and the clock neither waits for an acknowledgement that   *)
(* does not come nor is masked after sys_ready.                            *)
THEOREM TimerStaysSound == Spec => []TimerSound
<1>1. Init => Bases /\ Calibrates /\ Clock
  BY BasesInit, CalibratesInit, ClockInit, SMTT(30)
<1>2. Bases /\ Calibrates /\ Clock /\ [Next]_vars => (Bases /\ Calibrates /\ Clock)'
  BY BasesStep, CalibratesStep, ClockStep, SMTT(30)
<1>3. Bases /\ Calibrates /\ Clock => TimerSound
  <2> SUFFICES ASSUME Bases, Calibrates, Clock PROVE TimerSound
    OBVIOUS
  <2>1. DivisorsFit
    BY Divisors, SMTT(30) DEF Bases
  <2>2. CalibratesOnePeriod
    BY DEF Calibrates, Measures, CalibratesOnePeriod
  <2> QED BY <2>1, <2>2, SMTT(30) DEF TimerSound, Clock
<1> QED BY <1>1, <1>2, <1>3, PTL DEF Spec
==============================================================================
