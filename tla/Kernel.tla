------------------------------- MODULE Kernel -------------------------------
(***************************************************************************)
(* The core as its tasks see it: the system call entry and the interrupt   *)
(* handlers (src/core/x86_64/isrc.S, isrs.sh, isr.c, src/core/msg.c),      *)
(* composed with the scheduler (Sched.tla) and the message queues, which   *)
(* are the bounded FIFOs that MsgRing.tla implements.                      *)
(*                                                                         *)
(* Every handler runs with interrupts disabled, so it is one action.  What *)
(* interleaves are the system calls of the task whose address space is     *)
(* mapped (cur), the timer interrupt and the device interrupts.            *)
(***************************************************************************)
EXTENDS Sched, Fifo

CONSTANTS
    Irq,            \* device interrupt lines
    FS,             \* services[-SRV_FS]
    InitTask,       \* services[-SRV_init]
    MqCap,          \* messages a queue holds, mq_size - 2
    quantum,        \* first value of qcnt
    qdiv,           \* timer interrupts to a task switch
    tmrfreq,        \* timer interrupts per second
    MaxSec,         \* longest sleep, in whole seconds
    IrqOf,          \* lines named by the irqX() functions of each driver
    SetIrqOf,       \* lines each driver claims with setirq()
    Peers,          \* <<t, d>>: t may send to d, and msg_allowed lets it
    Refused,        \* tasks that pass buffers msg_sends refuses
    Sleepers,       \* tasks that call sleep() or usleep()
    Spinners        \* the ones that only compute until a sleep takes effect

ASSUME KernelAssumption ==
    /\ FS \in Task /\ InitTask \in Task
    /\ "msg" \notin Irq
    /\ MqCap \in Nat \ {0}
    /\ quantum \in Nat \ {0} /\ qdiv \in Nat \ {0} /\ tmrfreq \in Nat \ {0}
    /\ MaxSec \in Nat
    /\ IrqOf \in [Task -> SUBSET Irq] /\ SetIrqOf \in [Task -> SUBSET Irq]
    /\ \A t \in Task : Priority[t] # PRI_DRV => IrqOf[t] = {} /\ SetIrqOf[t] = {}
    /\ Peers \subseteq Task \X Task
    /\ Refused \subseteq Task
    /\ Spinners \subseteq Sleepers /\ Sleepers \subseteq Task

VARIABLES
    mode,           \* "boot", "start" (idle_first set), "ready" or "hung"
    cur,            \* the task whose address space is mapped; 0 while booting
    s,              \* the scheduler's state, see Sched.tla
    mq,             \* the message queue of each task
    route,          \* irq_routing_table
    irqon,          \* the lines that are not masked
    owed,           \* lines a driver has a SYS_IRQ message of and not acked
    qcnt,           \* timer interrupts left of the quantum
    nts,            \* ticks[TICKS_NTS], in units of alarmstep
    seccnt          \* timer interrupts left of the second

vars  == <<mode, cur, s, mq, route, irqon, owed, qcnt, nts, seccnt>>
irqs  == <<route, irqon, owed>>
clock == <<qcnt, nts, seccnt>>

(* SYS_IRQ carries its line; other messages are not told apart.            *)
Message == Irq \cup {"msg"}

(* Faulty: a full queue grows.                                             *)
ksend_grows(q, m) == Append(q, m)

(* What ksend does to a queue: a full one loses its oldest message.        *)
ksend(q, m) == Push(q, m, MqCap)

(***************************************************************************)
(* Boot: the core loads drivers and services, then enters the FS task.     *)
(***************************************************************************)
Init ==
    /\ mode = "boot"
    /\ cur = 0
    /\ s = SchedInit
    /\ mq = [t \in Task |-> <<>>]
    /\ route = [i \in Irq |-> 0]
    /\ irqon = {}
    /\ owed = [t \in Task |-> {}]
    /\ qcnt = quantum
    /\ nts = 0
    /\ seccnt = 1

(* isr_installirq: the first driver to claim a line keeps it.              *)
isr_installirq(lines, t) ==
    [i \in Irq |-> IF i \in lines /\ route[i] = 0 THEN t ELSE route[i]]

(* task_new, elf_rtlink and sched_add, for a driver or a service.          *)
Load(t) ==
    /\ mode = "boot"
    /\ s.state[t] = "none"
    /\ s' = task_load(s, t)
    /\ route' = isr_installirq(IrqOf[t], t)
    /\ UNCHANGED <<mode, cur, mq, irqon, owed, clock>>

sys_enable ==
    /\ mode = "boot"
    /\ \A t \in Task : s.state[t] # "none"
    /\ mode' = "start"
    /\ cur' = FS
    /\ UNCHANGED <<s, mq, irqs, clock>>

(***************************************************************************)
(* System calls of the current task                                        *)
(***************************************************************************)

(* A task makes calls while it executes, whatever its state says.          *)
Calls(t) ==
    /\ mode \in {"start", "ready"}
    /\ cur = t
    /\ s.state[t] = "blocked" => t \notin Spinners

(* sys_ready, the first time there is nothing to run: the routed lines are *)
(* unmasked and init is made to send SYS_mountfs to FS.                    *)
sys_ready(r) ==
    LET a == sched_awake(r, InitTask)
    IN  /\ mode' = "ready"
        /\ irqon' = {i \in Irq : route[i] # 0}
        /\ mq' = [mq EXCEPT ![FS] = ksend(@, "msg")]
        /\ s' = [(IF InitTask = FS THEN a ELSE sched_awake(a, FS)) EXCEPT !.isr_next = 0]
        /\ cur' = FS

(* Faulty: isr_next is not cleared.                                        *)
PickAndSwitch_pending(r) ==
    \/ /\ Picked(r) = Idle /\ mode = "start"
       /\ sys_ready(r)
    \/ /\ ~(Picked(r) = Idle /\ mode = "start")
       /\ s' = sched_pick(r, cur)
       /\ cur' = Picked(r)
       /\ UNCHANGED <<mode, mq, irqon>>

(* sched_pick, then the switch: the task runs at once.  r is the state the *)
(* caller has left the scheduler in.                                       *)
PickAndSwitch(r) ==
    \/ /\ Picked(r) = Idle /\ mode = "start"
       /\ sys_ready(r)
    \/ /\ ~(Picked(r) = Idle /\ mode = "start")
       /\ s' = [sched_pick(r, cur) EXCEPT !.isr_next = 0]
       /\ cur' = Picked(r)
       /\ UNCHANGED <<mode, mq, irqon>>

(* SYS_recv with a message waiting.                                        *)
Recv(t) ==
    /\ Calls(t)
    /\ mq[t] # <<>>
    /\ mq' = [mq EXCEPT ![t] = Tail(@)]
    /\ owed' = [owed EXCEPT ![t] = @ \cup ({Head(mq[t])} \cap Irq)]
    /\ UNCHANGED <<mode, cur, s, route, irqon, clock>>

(* SYS_recv with none: the call is repeated when the task runs again.      *)
RecvBlock(t) ==
    /\ Calls(t)
    /\ mq[t] = <<>>
    /\ PickAndSwitch(sched_block(s, t))
    /\ UNCHANGED <<route, owed, clock>>

Yield(t) ==
    /\ Calls(t)
    /\ PickAndSwitch(s)
    /\ UNCHANGED <<route, owed, clock>>

(* msg_sends: the receiver is to run at the next tick, the sender goes on. *)
Send(t, d) ==
    /\ Calls(t)
    /\ <<t, d>> \in Peers
    /\ mq' = [mq EXCEPT ![d] = ksend(@, "msg")]
    /\ s' = IF t = d THEN [s EXCEPT !.isr_next = d] ELSE sched_awake(s, d)
    /\ UNCHANGED <<mode, cur, irqs, clock>>

(* msg_sends with a buffer it refuses (EFAULT, ENOTSHM), after isr_next    *)
(* has already been set.                                                   *)
SendRefused(t, d) ==
    /\ Calls(t)
    /\ t \in Refused
    /\ <<t, d>> \in Peers
    /\ s' = [s EXCEPT !.isr_next = d]
    /\ UNCHANGED <<mode, cur, mq, irqs, clock>>

(* SYS_alarm, sec seconds and n alarmsteps from now.  A shorter sleep is   *)
(* made one step long.  The call returns to its caller, now blocked, which *)
(* is why a task that waits for it to take effect needs the timer running. *)
Alarm(t, sec, n) ==
    LET ns == nts + (IF sec = 0 /\ n = 0 THEN 1 ELSE n)
    IN  /\ Calls(t)
        /\ t \in Sleepers
        /\ t \in Spinners => mode = "ready"
        /\ IF AlarmReturns(s, t, sec, ns, nts)
           THEN s' = sched_alarm(s, t, sec, ns, nts) /\ mode' = mode
           ELSE s' = s /\ mode' = "hung"
        /\ UNCHANGED <<cur, mq, irqs, clock>>

(* SYS_setirq, in the initialisation code of a driver.                     *)
SetIrq(t, i) ==
    /\ Calls(t)
    /\ mode = "start"
    /\ i \in SetIrqOf[t]
    /\ route' = isr_installirq({i}, t)
    /\ UNCHANGED <<mode, cur, s, mq, irqon, owed, clock>>

(* Faulty: the line stays masked.                                          *)
Ack_masked(t, i) ==
    /\ Calls(t)
    /\ Priority[t] = PRI_DRV
    /\ i \in owed[t]
    /\ owed' = [owed EXCEPT ![t] = @ \ {i}]
    /\ UNCHANGED <<mode, cur, s, mq, route, irqon, clock>>

(* SYS_ack for a line the driver got a SYS_IRQ message of.                 *)
Ack(t, i) ==
    /\ Calls(t)
    /\ Priority[t] = PRI_DRV
    /\ i \in owed[t]
    /\ owed' = [owed EXCEPT ![t] = @ \ {i}]
    /\ irqon' = IF route[i] = t THEN irqon \cup {i} ELSE irqon
    /\ UNCHANGED <<mode, cur, s, mq, route, clock>>

(***************************************************************************)
(* Interrupts                                                              *)
(***************************************************************************)

(* "never preempt real-time and driver tasks"                              *)
Preemptible(t) == (IF t = Idle THEN PRI_IDLE ELSE Priority[t]) > PRI_DRV

(* The tail of the timer handler: a pending isr_next is switched to, and   *)
(* cleared.  r is the state isr_timer has left the scheduler in.           *)
Resume(r) ==
    /\ cur' = IF r.isr_next = 0 THEN cur ELSE r.isr_next
    /\ s' = [r EXCEPT !.isr_next = 0]

(* The timer interrupt (isr_irqtmr and isr_timer).                         *)
Timer ==
    LET second == seccnt = 1
        n == IF second THEN 0 ELSE nts + 1
        r == IF second THEN NextSecond(s) ELSE s
    IN  /\ mode = "ready"
        /\ nts' = n
        /\ seccnt' = IF second THEN tmrfreq ELSE seccnt - 1
        /\ \/ ~Preemptible(cur) /\ Resume(r) /\ qcnt' = qcnt
           \/ Preemptible(cur) /\ AlarmDue(r, n) /\ Resume(AlarmAwake(r)) /\ qcnt' = qdiv
           \/ Preemptible(cur) /\ ~AlarmDue(r, n) /\ qcnt > 1 /\ Resume(r) /\ qcnt' = qcnt - 1
           \/ Preemptible(cur) /\ ~AlarmDue(r, n) /\ qcnt = 1
              /\ Resume(sched_pick(r, cur)) /\ qcnt' = qdiv
        /\ UNCHANGED <<mode, mq, irqs>>

(* Faulty: a blocked driver is mapped but not awaken.                      *)
Interrupt_asleep(i) ==
    /\ mode = "ready"
    /\ i \in irqon
    /\ cur' = route[i]
    /\ irqon' = irqon \ {i}
    /\ mq' = [mq EXCEPT ![route[i]] = ksend(@, i)]
    /\ UNCHANGED <<mode, s, route, owed, clock>>

(* A device interrupt (isr_irqN): the driver is mapped and, if it is not   *)
(* running, awaken; the line is masked until it is acked.                  *)
Interrupt(i) ==
    LET d == route[i]
    IN  /\ mode = "ready"
        /\ i \in irqon
        /\ cur' = d
        /\ s' = IF cur = d \/ s.state[d] = "running" THEN s ELSE sched_awake(s, d)
        /\ irqon' = irqon \ {i}
        /\ mq' = [mq EXCEPT ![d] = ksend(@, i)]
        /\ UNCHANGED <<mode, route, owed, clock>>

SysCall(t) ==
    \/ Recv(t) \/ RecvBlock(t) \/ Yield(t)
    \/ \E d \in Task : Send(t, d) \/ SendRefused(t, d)
    \/ \E sec \in 0..MaxSec, n \in 0..(tmrfreq - 1) : Alarm(t, sec, n)
    \/ \E i \in Irq : SetIrq(t, i) \/ Ack(t, i)

Next ==
    \/ \E t \in Task : Load(t)
    \/ sys_enable
    \/ \E t \in Task : SysCall(t)
    \/ Timer
    \/ \E i \in Irq : Interrupt(i)

Spec == Init /\ [][Next]_vars

(* The timer keeps interrupting once it has been enabled.  Tasks may stop  *)
(* calling the core, and devices may stay silent.                          *)
FairSpec == Spec /\ WF_vars(Timer)

(***************************************************************************)
(* Correctness                                                             *)
(***************************************************************************)
(* Every variable keeps the range the C declarations give it; a message    *)
(* queue never holds more than mq_size - 2 messages (ksend).               *)
TypeOK ==
    /\ mode \in {"boot", "start", "ready", "hung"}
    /\ cur \in Pid \cup {Idle}
    /\ s \in SchedState
    /\ mq \in [Task -> Seq(Message)]
    /\ \A t \in Task : Len(mq[t]) <= MqCap
    /\ route \in [Irq -> Pid]
    /\ irqon \subseteq Irq
    /\ owed \in [Task -> SUBSET Irq]
    /\ qcnt \in Nat \ {0}
    /\ nts \in Nat
    /\ seccnt \in Nat \ {0}

(* The queues of the scheduler stay whole over every interleaving of       *)
(* system calls and interrupts (sched_add, sched_remove, sched_block and   *)
(* sched_awake): every running task is in the active queue of its          *)
(* priority, every blocked one in the blocked queue, each exactly once.    *)
QueuesWhole == QueuesHold(s)

(* The back links mirror the forward links, and no cursor of sched_pick is *)
(* left behind on a task that has moved to another queue (sched_remove).   *)
LinksMirror == LinksSound(s)

(* Only a runnable task gets the CPU, and isr_next, which outlives the     *)
(* handler that sets it, never names a task that has blocked meanwhile.    *)
RunsRunnable ==
    /\ mode # "boot" /\ cur # Idle => cur \in Running(s)
    /\ s.isr_next \in Running(s) \cup {0}

(* No wake-up is lost: a task that SYS_recv has blocked has no message     *)
(* waiting (isr_syscall checks and blocks, msg_sends and isr_irqN awake).  *)
NoLostWakeup ==
    \A t \in Blocked(s) \ Sleepers : mq[t] = <<>>

(* The CPU is halted in the idle task only while every queue is empty.     *)
IdleOnlyWhenIdle ==
    cur = Idle => Running(s) = {} /\ s.isr_next = 0

(* A routed line is masked only while its driver still has the SYS_IRQ     *)
(* message to read or to ack: no device is left masked forever.            *)
MaskedIsPending ==
    mode = "ready" =>
        \A i \in Irq : route[i] # 0 /\ i \notin irqon =>
            \/ i \in owed[route[i]]
            \/ \E n \in 1..Len(mq[route[i]]) : mq[route[i]][n] = i

(* Every runnable task above the idle level gets the CPU again and again   *)
(* while it is runnable ("no task will starve ever", docs/scheduler.md),   *)
(* whatever messages the others send.                                      *)
NoStarvation ==
    \A t \in Task : Priority[t] < PRI_IDLE =>
        []<>(mode = "ready" => (cur = t \/ t \notin Running(s)))

(* A sleep that has begun ends, whatever the tasks that stay awake do:     *)
(* isr_timer gets to the task at the end of the timer queue.               *)
SleepersWake ==
    \A t \in Sleepers :
        t \in Blocked(s) /\ (s.hd_timerq = t \/ \E u \in Task : s.alarm[u] = t) ~> t \in Running(s)
=============================================================================
