---------------------------- MODULE KernelProofs ----------------------------
(***************************************************************************)
(* The safety of the core for any tasks, priorities, devices, queue sizes  *)
(* and timer settings.                                                     *)
(*                                                                         *)
(* SYS_alarm returns to the task it has blocked, and a send refused for    *)
(* its buffer leaves isr_next on a task that may be blocked.  A system     *)
(* call of such a task would break the queues, so the theorems are about   *)
(* programs with some discipline: a task that sleeps makes no call until   *)
(* the timer has taken the CPU from it, and no send to another task is     *)
(* refused for its buffer.                                                 *)
(***************************************************************************)
EXTENDS Kernel, SchedProofs

Disciplined ==
    /\ Spinners = Sleepers
    /\ \A t \in Refused, d \in Task : <<t, d>> \in Peers => d = t

(* What is left of RunsRunnable when tasks sleep.                          *)
RunsOrSleeps ==
    /\ mode # "boot" /\ cur # Idle => cur \in Running(s) \cup Sleepers
    /\ s.isr_next \in Running(s) \cup Sleepers \cup {0}

(* The inductive invariant.  The properties need each other: a send to     *)
(* oneself does not awake, which is right because the sender is running    *)
(* (RunsOrSleeps), and sched_block is right because its task is.           *)
IInv ==
    /\ TypeOK
    /\ Sound(s)
    /\ RunsOrSleeps
    /\ NoLostWakeup
    /\ IdleOnlyWhenIdle
    /\ mode = "boot" => cur = 0 /\ irqon = {} /\ Blocked(s) = {}
    /\ mode # "boot" => cur # 0 /\ \A t \in Task : s.state[t] # "none"
    /\ \A i \in irqon : route[i] # 0

(* A bounded FIFO keeps its bound.                                         *)
LEMMA PushType ==
    ASSUME NEW S, NEW q \in Seq(S), NEW m \in S, NEW cap \in Nat \ {0}, Len(q) <= cap
    PROVE  Push(q, m, cap) \in Seq(S) /\ Len(Push(q, m, cap)) <= cap
<1>1. CASE Len(q) = cap
  <2>1. Tail(q) \in Seq(S) /\ Len(Tail(q)) = cap - 1
    BY <1>1
  <2> QED BY <1>1, <2>1 DEF Push
<1>2. CASE Len(q) # cap
  BY <1>2 DEF Push
<1> QED
  BY <1>1, <1>2

(* ksend keeps the message queues in their range.                          *)
LEMMA SendType ==
    ASSUME TypeOK, NEW d \in Task, NEW m \in Message,
           mq' = [mq EXCEPT ![d] = ksend(@, m)]
    PROVE  /\ mq' \in [Task -> Seq(Message)]
           /\ \A t \in Task : Len(mq'[t]) <= MqCap
<1>1. /\ mq \in [Task -> Seq(Message)] /\ Len(mq[d]) <= MqCap /\ MqCap \in Nat \ {0}
  BY KernelAssumption DEF TypeOK
<1>2. ksend(mq[d], m) \in Seq(Message) /\ Len(ksend(mq[d], m)) <= MqCap
  BY <1>1, PushType DEF ksend
<1> QED
  BY <1>1, <1>2 DEF TypeOK

(* The core at power on satisfies the invariant.                           *)
LEMMA InitOK == Init => IInv
<1> SUFFICES ASSUME Init PROVE IInv
  OBVIOUS
<1> USE DEF Init
<1>1. /\ s \in SchedState
      /\ s.next = [t \in Task |-> 0] /\ s.prev = [t \in Task |-> 0]
      /\ s.state = [t \in Task |-> "none"]
      /\ s.hd_active = [i \in Levels |-> 0] /\ s.cr_active = [i \in Levels |-> 0]
      /\ s.hd_blocked = 0 /\ s.hd_timerq = 0 /\ s.isr_next = 0
  BY DEF SchedInit, SchedState, Pid
<1>2. LinksSound(s)
  BY <1>1 DEF LinksSound
<1>3. Ranked(s)
  <2>1. [t \in Task |-> 0] \in [Task -> Nat]
    OBVIOUS
  <2> QED BY <1>1, <2>1 DEF Ranked
<1>4. TypeOK
  BY <1>1, KernelAssumption DEF TypeOK, Pid, Message
<1>5. RunsOrSleeps /\ NoLostWakeup /\ IdleOnlyWhenIdle
  BY <1>1, TaskAssumption DEF RunsOrSleeps, NoLostWakeup, IdleOnlyWhenIdle, Blocked, Pid
<1> QED
  BY <1>1, <1>2, <1>3, <1>4, <1>5 DEF IInv, Sound, Blocked

(* sched_pick and the switch preserve the invariant when the caller has left*)
(* the scheduler sound and blocked no task that has a message; this includes*)
(* the first idle, where sys_ready runs.                                   *)
LEMMA SwitchOK ==
    ASSUME IInv, mode \in {"start", "ready"}, NEW r, Sound(r),
           \A t \in Task : r.state[t] # "none" /\ (r.state[t] = "blocked" => t \in Sleepers \/ mq[t] = <<>>),
           PickAndSwitch(r), UNCHANGED <<route, owed, clock>>
    PROVE  IInv'
<1>1. /\ TypeOK /\ FS \in Task /\ InitTask \in Task
      /\ r \in SchedState
  BY KernelAssumption DEF IInv, Sound
<1>2. CASE Picked(r) = Idle /\ mode = "start" /\ sys_ready(r)
  <2> DEFINE a == sched_awake(r, InitTask)
             b == IF InitTask = FS THEN a ELSE sched_awake(a, FS)
  <2>1. Sound(a)
        /\ \A t \in Task : a.state[t] = IF t = InitTask THEN "running" ELSE r.state[t]
    BY <1>1, AwakeSound, AwakeFields
  <2> HIDE DEF a
  <2>2. a \in SchedState /\ a.state[FS] # "none"
    BY <1>1, <2>1 DEF Sound
  <2>3. Sound(b)
        /\ \A t \in Task : b.state[t] = IF t \in {InitTask, FS} THEN "running" ELSE r.state[t]
    <3>1. CASE InitTask = FS
      BY <2>1, <3>1
    <3>2. CASE InitTask # FS
      <4>1. /\ Sound(sched_awake(a, FS))
            /\ \A t \in Task : sched_awake(a, FS).state[t] = IF t = FS THEN "running" ELSE a.state[t]
        BY <1>1, <2>1, <2>2, AwakeSound, AwakeFields
      <4> QED BY <2>1, <3>2, <4>1
    <3> QED BY <3>1, <3>2
  <2>4. /\ mode' = "ready" /\ cur' = FS
        /\ irqon' = {i \in Irq : route[i] # 0}
        /\ mq' = [mq EXCEPT ![FS] = ksend(@, "msg")]
        /\ s' = [b EXCEPT !.isr_next = 0]
    BY <1>2 DEF sys_ready, a
  <2> HIDE DEF b
  <2>5. Sound(s') /\ s'.state = b.state /\ s'.isr_next = 0
    BY <2>3, <2>4, SetNextSound, SMTT(30) DEF Pid
  <2>6. mq' \in [Task -> Seq(Message)] /\ \A t \in Task : Len(mq'[t]) <= MqCap
    BY <1>1, <2>4, SendType, Zenon DEF Message
  <2>7. TypeOK'
    BY <1>1, <2>4, <2>5, <2>6 DEF TypeOK, Sound, Pid, clock
  <2>8. RunsOrSleeps'
    BY <1>1, <2>3, <2>4, <2>5 DEF RunsOrSleeps, Running
  <2>9. NoLostWakeup'
    <3> SUFFICES ASSUME NEW t \in Task, s'.state[t] = "blocked", t \notin Sleepers PROVE mq'[t] = <<>>
      BY DEF NoLostWakeup, Blocked
    <3> QED BY <1>1, <2>3, <2>4, <2>5, Zenon DEF TypeOK
  <2>10. IdleOnlyWhenIdle'
    BY <1>1, <2>4, TaskAssumption DEF IdleOnlyWhenIdle, Pid
  <2>11. cur' # 0 /\ \A t \in Task : s'.state[t] # "none"
    BY <1>1, <2>3, <2>4, <2>5, TaskAssumption
  <2>12. \A i \in irqon' : route'[i] # 0
    BY <2>4
  <2> QED BY <2>4, <2>5, <2>7, <2>8, <2>9, <2>10, <2>11, <2>12, SMTT(30) DEF IInv
<1>3. CASE /\ s' = [sched_pick(r, cur) EXCEPT !.isr_next = 0]
           /\ cur' = Picked(r)
           /\ UNCHANGED <<mode, mq, irqon>>
  <2>1. Sound(sched_pick(r, cur)) /\ sched_pick(r, cur).state = r.state
    BY PickSound
  <2>2. Sound(s') /\ s'.state = r.state /\ s'.isr_next = 0
    BY <1>3, <2>1, SetNextSound DEF Pid
  <2>3. /\ Picked(r) # Idle => Picked(r) \in Running(r)
        /\ Picked(r) = Idle => Running(r) = {}
    BY PickCases DEF Queue
  <2>4. TypeOK'
    BY <1>1, <1>3, <2>2, <2>3 DEF TypeOK, Sound, Pid, Running, clock
  <2>5. RunsOrSleeps' /\ IdleOnlyWhenIdle'
    BY <1>3, <2>2, <2>3 DEF RunsOrSleeps, IdleOnlyWhenIdle, Running
  <2>6. NoLostWakeup'
    BY <1>3, <2>2 DEF NoLostWakeup, Blocked
  <2>7. cur' # 0 /\ \A t \in Task : s'.state[t] # "none"
    BY <1>3, <2>2, <2>3, TaskAssumption DEF Running, Pid
  <2> QED BY <1>3, <2>2, <2>4, <2>5, <2>6, <2>7 DEF IInv
<1> QED
  BY <1>2, <1>3 DEF PickAndSwitch

(* Loading a driver or a service preserves the invariant.                  *)
LEMMA LoadOK ==
    ASSUME IInv, NEW t \in Task, Load(t)
    PROVE  IInv'
<1> USE DEF Load
<1>1. /\ Sound(s') /\ s'.isr_next = s.isr_next
      /\ \A x \in Task : s'.state[x] = IF x = t THEN "running" ELSE s.state[x]
  BY LoadSound, LoadFields DEF IInv, Sound
<1>2. route' \in [Irq -> Pid] /\ irqon = {} /\ cur = 0
  BY DEF IInv, TypeOK, isr_installirq, Pid
<1>3. TypeOK'
  BY <1>1, <1>2, SMTT(30) DEF IInv, TypeOK, Sound, clock
<1>4. RunsOrSleeps' /\ NoLostWakeup' /\ IdleOnlyWhenIdle'
  BY <1>1, <1>2, TaskAssumption
  DEF IInv, RunsOrSleeps, NoLostWakeup, IdleOnlyWhenIdle, Running, Blocked, Pid
<1> QED
  BY <1>1, <1>2, <1>3, <1>4 DEF IInv, Blocked

(* Entering the FS task preserves the invariant.                           *)
LEMMA EnableOK ==
    ASSUME IInv, sys_enable
    PROVE  IInv'
<1> USE DEF sys_enable
<1>1. FS \in Running(s)
  BY KernelAssumption DEF IInv, Sound, SchedState, Running, Blocked
<1>2. TypeOK'
  BY <1>1 DEF IInv, TypeOK, Running, Pid, irqs, clock
<1>3. RunsOrSleeps' /\ NoLostWakeup' /\ IdleOnlyWhenIdle'
  BY <1>1, TaskAssumption DEF IInv, RunsOrSleeps, NoLostWakeup, IdleOnlyWhenIdle, Running, Blocked, Pid
<1> QED
  BY <1>1, <1>2, <1>3, TaskAssumption DEF IInv, Running, irqs

(* A task that makes a system call is running.                             *)
LEMMA CallsRunning ==
    ASSUME Disciplined, IInv, NEW t \in Task, Calls(t)
    PROVE  /\ s.state[t] = "running"
           /\ mode \in {"start", "ready"}
           /\ Sound(s)
           /\ \A x \in Task : s.state[x] # "none"
<1>1. /\ t \in Running(s) \cup Sleepers /\ mode \in {"start", "ready"} /\ Sound(s)
      /\ \A x \in Task : s.state[x] # "none"
      /\ s.state \in [Task -> {"none", "running", "blocked"}]
  BY TaskAssumption DEF IInv, Calls, RunsOrSleeps, Pid, Sound, SchedState
<1>2. s.state[t] # "blocked"
  <2> SUFFICES ASSUME s.state[t] = "blocked" PROVE FALSE
    OBVIOUS
  <2>1. t \in Sleepers
    BY <1>1 DEF Running
  <2> QED BY <2>1 DEF Disciplined, Calls
<1> QED
  BY <1>1, <1>2

(* SYS_recv with a message waiting preserves the invariant.                *)
LEMMA RecvOK ==
    ASSUME Disciplined, IInv, NEW t \in Task, Recv(t)
    PROVE  IInv'
<1> USE DEF Recv
<1>1. s.state[t] = "running"
  BY CallsRunning
<1>2. mq[t] \in Seq(Message) /\ Tail(mq[t]) \in Seq(Message) /\ Len(Tail(mq[t])) <= MqCap
  BY KernelAssumption DEF IInv, TypeOK
<1>3. TypeOK'
  BY <1>2 DEF IInv, TypeOK, clock
<1>4. NoLostWakeup'
  BY <1>1 DEF IInv, TypeOK, NoLostWakeup, Blocked
<1> QED
  BY <1>3, <1>4 DEF IInv, RunsOrSleeps, IdleOnlyWhenIdle

(* SYS_recv without one preserves the invariant.                           *)
LEMMA RecvBlockOK ==
    ASSUME Disciplined, IInv, NEW t \in Task, RecvBlock(t)
    PROVE  IInv'
<1>1. /\ s.state[t] = "running" /\ mode \in {"start", "ready"} /\ Sound(s)
      /\ \A x \in Task : s.state[x] # "none"
  BY CallsRunning DEF RecvBlock
<1>2. Sound(sched_block(s, t))
  BY <1>1, BlockSound, SMTT(30)
<1>3. \A x \in Task : sched_block(s, t).state[x] = IF x = t THEN "blocked" ELSE s.state[x]
  BY <1>1, BlockFields, SMTT(30) DEF Sound
<1>4. \A x \in Task : /\ sched_block(s, t).state[x] # "none"
                       /\ sched_block(s, t).state[x] = "blocked" => x \in Sleepers \/ mq[x] = <<>>
  BY <1>1, <1>3 DEF IInv, NoLostWakeup, Blocked, RecvBlock
<1> QED
  BY <1>1, <1>2, <1>3, <1>4, SwitchOK, SMTT(30) DEF RecvBlock

(* SYS_yield preserves the invariant.                                      *)
LEMMA YieldOK ==
    ASSUME Disciplined, IInv, NEW t \in Task, Yield(t)
    PROVE  IInv'
<1>1. /\ mode \in {"start", "ready"} /\ Sound(s)
      /\ \A x \in Task : s.state[x] # "none"
  BY CallsRunning DEF Yield
<1>2. \A x \in Task : s.state[x] = "blocked" => x \in Sleepers \/ mq[x] = <<>>
  BY DEF IInv, NoLostWakeup, Blocked
<1> QED
  BY <1>1, <1>2, SwitchOK DEF Yield

(* msg_sends preserves the invariant.                                      *)
LEMMA SendOK ==
    ASSUME Disciplined, IInv, NEW t \in Task, NEW d \in Task, Send(t, d)
    PROVE  IInv'
<1> USE DEF Send
<1>1. /\ s.state[t] = "running" /\ mode \in {"start", "ready"} /\ Sound(s)
      /\ \A x \in Task : s.state[x] # "none"
  BY CallsRunning
<1>2. /\ Sound(s') /\ s'.isr_next = d
      /\ \A x \in Task : s'.state[x] = IF x = d THEN "running" ELSE s.state[x]
  <2>1. CASE t = d
    <3>1. s' = [s EXCEPT !.isr_next = d]
      BY <2>1
    <3> QED BY <1>1, <2>1, <3>1, SetNextSound DEF Pid
  <2>2. CASE t # d
    <3>1. s' = sched_awake(s, d)
      BY <2>2
    <3>2. s \in SchedState /\ Sound(s) /\ s.state[d] # "none"
      BY <1>1 DEF Sound
    <3> HIDE DEF Send, Sound
    <3>3. Sound(sched_awake(s, d))
      BY <3>2, AwakeSound
    <3> QED BY <1>1, <3>1, <3>2, <3>3, AwakeFields
  <2> QED BY <2>1, <2>2
<1>3. mq' \in [Task -> Seq(Message)] /\ \A x \in Task : Len(mq'[x]) <= MqCap
  BY SendType, Zenon DEF IInv, Message
<1>4. TypeOK'
  BY <1>2, <1>3 DEF IInv, TypeOK, Sound, irqs, clock
<1>5. RunsOrSleeps' /\ IdleOnlyWhenIdle'
  BY <1>1, <1>2, TaskAssumption DEF IInv, RunsOrSleeps, IdleOnlyWhenIdle, Running, Calls, Pid
<1>6. NoLostWakeup'
  BY <1>2 DEF IInv, TypeOK, NoLostWakeup, Blocked
<1> QED
  BY <1>1, <1>2, <1>4, <1>5, <1>6, SMTT(30) DEF IInv, irqs

(* A send to oneself that msg_sends refuses preserves the invariant.       *)
LEMMA RefusedOK ==
    ASSUME Disciplined, IInv, NEW t \in Task, NEW d \in Task, SendRefused(t, d)
    PROVE  IInv'
<1>1. /\ s.state[t] = "running" /\ mode \in {"start", "ready"} /\ Sound(s) /\ cur = t
  BY CallsRunning DEF SendRefused, Calls
<1>2. d = t /\ s' = [s EXCEPT !.isr_next = t] /\ UNCHANGED <<mode, cur, mq, irqs, clock>>
  BY DEF SendRefused, Disciplined
<1>3. Sound(s') /\ s'.isr_next = t /\ s'.state = s.state
  BY <1>1, <1>2, SetNextSound DEF Pid
<1>4. TypeOK'
  BY <1>2, <1>3 DEF IInv, TypeOK, Sound, irqs, clock
<1>5. RunsOrSleeps' /\ IdleOnlyWhenIdle' /\ NoLostWakeup'
  BY <1>1, <1>2, <1>3, TaskAssumption, SMTT(30)
  DEF IInv, RunsOrSleeps, IdleOnlyWhenIdle, NoLostWakeup, Running, Blocked, Pid
<1> QED
  BY <1>1, <1>2, <1>3, <1>4, <1>5, SMTT(30) DEF IInv, Blocked, irqs

(* SYS_alarm preserves the invariant, whether its loop ends or not.        *)
LEMMA AlarmOK ==
    ASSUME Disciplined, IInv, NEW t \in Task, NEW sec \in 0..MaxSec, NEW n \in 0..(tmrfreq - 1),
           Alarm(t, sec, n)
    PROVE  IInv'
<1> DEFINE ns == nts + (IF sec = 0 /\ n = 0 THEN 1 ELSE n)
<1>1. /\ s.state[t] = "running" /\ mode \in {"start", "ready"} /\ Sound(s) /\ cur = t
      /\ \A x \in Task : s.state[x] # "none"
      /\ t \in Sleepers /\ UNCHANGED <<cur, mq, irqs, clock>>
  BY CallsRunning DEF Alarm, Calls
<1>2. ns \in Nat /\ sec \in Int /\ nts \in Nat
  BY KernelAssumption DEF IInv, TypeOK
<1>3. \/ AlarmReturns(s, t, sec, ns, nts) /\ s' = sched_alarm(s, t, sec, ns, nts) /\ mode' = mode
      \/ s' = s /\ mode' = "hung"
  BY DEF Alarm
<1> HIDE DEF ns
<1>4. /\ Sound(s') /\ s'.isr_next \in {s.isr_next, t} /\ mode' \in {mode, "hung"}
      /\ \A x \in Task : x # t => s'.state[x] = s.state[x]
      /\ s'.state[t] \in {"running", "blocked"}
  <2>1. CASE AlarmReturns(s, t, sec, ns, nts) /\ s' = sched_alarm(s, t, sec, ns, nts) /\ mode' = mode
    BY <1>1, <1>2, <2>1, AlarmSound, SMTT(30)
  <2>2. CASE s' = s /\ mode' = "hung"
    BY <1>1, <2>2
  <2> QED BY <1>3, <2>1, <2>2, SMTT(30)
<1>5. TypeOK'
  BY <1>1, <1>4, SMTT(30) DEF IInv, TypeOK, Sound, irqs, clock
<1>6. RunsOrSleeps' /\ IdleOnlyWhenIdle' /\ NoLostWakeup'
  BY <1>1, <1>4, TaskAssumption, SMTT(30)
  DEF IInv, RunsOrSleeps, IdleOnlyWhenIdle, NoLostWakeup, Running, Blocked, Pid
<1>7. mode' # "boot" /\ cur' # 0 /\ \A x \in Task : s'.state[x] # "none"
  BY <1>1, <1>4, TaskAssumption
<1> QED
  BY <1>1, <1>4, <1>5, <1>6, <1>7, SMTT(30) DEF IInv, irqs

(* SYS_setirq and SYS_ack preserve the invariant.                          *)
LEMMA IrqCallsOK ==
    ASSUME Disciplined, IInv, NEW t \in Task, NEW i \in Irq, SetIrq(t, i) \/ Ack(t, i)
    PROVE  IInv'
<1>1. CASE SetIrq(t, i)
  <2>1. route' \in [Irq -> Pid] /\ \A j \in irqon : route'[j] # 0
    BY <1>1, TaskAssumption, SMTT(30) DEF SetIrq, IInv, TypeOK, isr_installirq, Pid
  <2> QED BY <1>1, <2>1, Zenon
    DEF SetIrq, IInv, TypeOK, clock, RunsOrSleeps, NoLostWakeup, IdleOnlyWhenIdle
<1>2. CASE Ack(t, i)
  <2>1. irqon' \subseteq Irq /\ owed' \in [Task -> SUBSET Irq]
    BY <1>2 DEF Ack, IInv, TypeOK
  <2>2. \A j \in irqon' : route'[j] # 0
    BY <1>2, TaskAssumption, SMTT(30) DEF Ack, IInv
  <2>3. mode # "boot"
    BY <1>2, SMTT(30) DEF Ack, Calls
  <2> QED BY <1>2, <2>1, <2>2, <2>3, SMTT(30)
    DEF Ack, IInv, TypeOK, clock, RunsOrSleeps, NoLostWakeup, IdleOnlyWhenIdle
<1> QED
  BY <1>1, <1>2

(* The tail of the timer handler preserves the invariant.                  *)
LEMMA ResumeOK ==
    ASSUME IInv, mode = "ready", NEW r, Sound(r),
           \A t \in Task : r.state[t] # "none" /\ (r.state[t] = "blocked" => t \in Sleepers \/ mq[t] = <<>>),
           r.isr_next \in Running(r) \cup Sleepers \cup {0, Idle},
           r.isr_next = Idle => Running(r) = {},
           cur = Idle => r.isr_next # 0 \/ Running(r) = {},
           cur # Idle => cur \in Running(r) \cup Sleepers,
           Resume(r), UNCHANGED <<mode, mq, irqs>>,
           qcnt' \in Nat \ {0}, nts' \in Nat, seccnt' \in Nat \ {0}
    PROVE  IInv'
<1>1. /\ s' = [r EXCEPT !.isr_next = 0]
      /\ cur' = IF r.isr_next = 0 THEN cur ELSE r.isr_next
  BY DEF Resume
<1>2. Sound(s') /\ s'.state = r.state /\ s'.isr_next = 0
  BY <1>1, SetNextSound, SMTT(30) DEF Pid
<1>3. TypeOK'
  BY <1>1, <1>2, KernelAssumption, SMTT(30) DEF IInv, TypeOK, Sound, Running, Pid, irqs
<1>4. RunsOrSleeps' /\ IdleOnlyWhenIdle'
  <2>1. Idle \notin Running(r) \cup Sleepers
    BY TaskAssumption, KernelAssumption DEF Running, Pid
  <2> QED BY <1>1, <1>2, <2>1, SMTT(30) DEF RunsOrSleeps, IdleOnlyWhenIdle, Running
<1>5. NoLostWakeup'
  BY <1>2 DEF NoLostWakeup, Blocked
<1>6. cur' # 0 /\ \A t \in Task : s'.state[t] # "none"
  BY <1>1, <1>2 DEF IInv
<1> QED
  BY <1>2, <1>3, <1>4, <1>5, <1>6, SMTT(30) DEF IInv, irqs

(* The timer interrupt preserves the invariant.                            *)
LEMMA TimerOK ==
    ASSUME IInv, Timer
    PROVE  IInv'
<1> DEFINE n == IF seccnt = 1 THEN 0 ELSE nts + 1
           r == IF seccnt = 1 THEN NextSecond(s) ELSE s
<1>1. Sound(r) /\ r.state = s.state /\ r.isr_next = s.isr_next
  BY NextSecondSound, SMTT(30) DEF IInv
<1>2. /\ mode = "ready" /\ UNCHANGED <<mode, mq, irqs>>
      /\ nts' \in Nat /\ seccnt' \in Nat \ {0}
  BY KernelAssumption, SMTT(30) DEF Timer, IInv, TypeOK
<1>3. \/ Resume(r) /\ qcnt' = qcnt
      \/ Resume(r) /\ qcnt > 1 /\ qcnt' = qcnt - 1
      \/ Resume(sched_pick(r, cur)) /\ qcnt' = qdiv
      \/ AlarmDue(r, n) /\ Resume(AlarmAwake(r)) /\ qcnt' = qdiv
  BY SMTT(30) DEF Timer
<1>4. qcnt' \in Nat \ {0}
  BY <1>3, KernelAssumption, SMTT(30) DEF IInv, TypeOK
<1> HIDE DEF r, n
<1>5. /\ \A t \in Task : s.state[t] # "none" /\ (s.state[t] = "blocked" => t \in Sleepers \/ mq[t] = <<>>)
      /\ s.isr_next \in Running(s) \cup Sleepers \cup {0}
      /\ cur = Idle => Running(s) = {}
      /\ cur # Idle => cur \in Running(s) \cup Sleepers
  BY <1>2 DEF IInv, RunsOrSleeps, NoLostWakeup, IdleOnlyWhenIdle, Blocked
<1>6. Running(r) = Running(s) /\ Idle \notin Running(s) \cup Sleepers \cup {0} /\ 0 \notin Running(s)
  BY <1>1, TaskAssumption, KernelAssumption DEF Running, Pid
<1>7. CASE Resume(r)
  BY <1>1, <1>2, <1>4, <1>5, <1>6, <1>7, ResumeOK, SMTT(30)
<1>8. CASE Resume(sched_pick(r, cur))
  <2> DEFINE k == sched_pick(r, cur)
  <2>1. /\ Sound(k) /\ k.state = s.state
        /\ k.isr_next = IF cur = Picked(r) /\ cur # Idle THEN s.isr_next ELSE Picked(r)
    BY <1>1, PickSound
  <2>2. /\ Picked(r) # Idle => Picked(r) \in Running(s)
        /\ Picked(r) = Idle => Running(s) = {}
    BY <1>1, <1>6, PickCases DEF Queue
  <2>3. Resume(k)
    BY <1>8
  <2> HIDE DEF k
  <2>4. Running(k) = Running(s)
    BY <2>1 DEF Running
  <2>5. /\ k.isr_next \in Running(s) \cup Sleepers \cup {0, Idle}
        /\ k.isr_next = Idle => Running(s) = {}
        /\ cur = Idle => k.isr_next # 0 \/ Running(s) = {}
    BY <1>5, <1>6, <2>1, <2>2, SMTT(30)
  <2> QED BY <1>2, <1>4, <1>5, <2>1, <2>3, <2>4, <2>5, ResumeOK, SMTT(30)
<1>9. CASE AlarmDue(r, n) /\ Resume(AlarmAwake(r))
  <2> DEFINE k == AlarmAwake(r)
             h == r.hd_timerq
  <2>1. h # 0 /\ h \in Task
    BY <1>1, <1>9, SMTT(30) DEF AlarmDue, Sound, SchedState, Pid
  <2>2. /\ Sound(k) /\ k.isr_next = h
        /\ \A x \in Task : k.state[x] = IF x = h THEN "running" ELSE s.state[x]
    <3>1. Sound(r) /\ r.state[h] # "none"
      BY <1>1, <1>5, <2>1
    <3>2. /\ Sound(k) /\ k.isr_next = h
          /\ \A x \in Task : k.state[x] = IF x = h THEN "running" ELSE r.state[x]
      BY <2>1, <3>1, AlarmAwakeSound, Zenon
    <3> QED BY <1>1, <3>2, SMTT(30)
  <2>3. Resume(k)
    BY <1>9
  <2> HIDE DEF k, h
  <2>4. /\ k.isr_next \in Running(k) /\ k.isr_next \notin {0, Idle}
        /\ Running(s) \subseteq Running(k)
    BY <2>1, <2>2, TaskAssumption, SMTT(30) DEF Running, Pid
  <2>5. \A t \in Task : k.state[t] # "none" /\ (k.state[t] = "blocked" => t \in Sleepers \/ mq[t] = <<>>)
    BY <1>5, <2>2, SMTT(30)
  <2> QED BY <1>2, <1>4, <1>5, <2>2, <2>3, <2>4, <2>5, ResumeOK, SMTT(30)
<1> QED
  BY <1>3, <1>7, <1>8, <1>9, SMTT(30)

(* Device interrupts preserve the invariant.                               *)
LEMMA InterruptOK ==
    ASSUME IInv, NEW i \in Irq, Interrupt(i)
    PROVE  IInv'
<1> DEFINE d == route[i]
<1>1. /\ d \in Task /\ mode = "ready" /\ cur' = d /\ irqon' = irqon \ {i}
      /\ mq' = [mq EXCEPT ![d] = ksend(@, i)]
      /\ UNCHANGED <<mode, route, owed, clock>>
  BY SMTT(30) DEF Interrupt, IInv, TypeOK, Pid
<1>2. s' = IF cur = d \/ s.state[d] = "running" THEN s ELSE sched_awake(s, d)
  BY DEF Interrupt
<1>3. cur = d => s.state[d] = "running" \/ d \in Sleepers
  BY <1>1, TaskAssumption, SMTT(30) DEF IInv, RunsOrSleeps, Running, Pid
<1> HIDE DEF d
<1>4. /\ Sound(s') /\ s'.isr_next \in {s.isr_next, d}
      /\ \A x \in Task : x # d => s'.state[x] = s.state[x]
      /\ s'.state[d] # "none" /\ (s'.state[d] = "running" \/ d \in Sleepers)
  <2>1. Sound(s) /\ s \in SchedState /\ s.state[d] # "none"
    BY <1>1 DEF IInv, Sound
  <2>2. CASE cur = d \/ s.state[d] = "running"
    BY <1>2, <1>3, <2>1, <2>2, SMTT(30)
  <2>3. CASE ~(cur = d \/ s.state[d] = "running")
    <3>1. s' = sched_awake(s, d)
      BY <1>2, <2>3, SMTT(30)
    <3> QED BY <1>1, <2>1, <3>1, AwakeSound, AwakeFields
  <2> QED BY <2>2, <2>3
<1>5. mq' \in [Task -> Seq(Message)] /\ \A x \in Task : Len(mq'[x]) <= MqCap
  BY <1>1, SendType, Zenon DEF IInv, Message
<1>6. TypeOK'
  BY <1>1, <1>4, <1>5, SMTT(30) DEF IInv, TypeOK, Sound, Pid, clock
<1>7. RunsOrSleeps'
  BY <1>1, <1>4 DEF IInv, RunsOrSleeps, Running
<1>8. IdleOnlyWhenIdle'
  BY <1>1, TaskAssumption DEF IdleOnlyWhenIdle, Pid
<1>9. NoLostWakeup'
  BY <1>1, <1>4, Zenon DEF IInv, TypeOK, NoLostWakeup, Blocked
<1>10. cur' # 0 /\ \A x \in Task : s'.state[x] # "none"
  BY <1>1, <1>4, TaskAssumption DEF IInv
<1> QED
  BY <1>1, <1>4, <1>6, <1>7, <1>8, <1>9, <1>10, SMTT(30) DEF IInv

(* Every step of the core preserves the invariant.                         *)
LEMMA Inductive ==
    ASSUME Disciplined
    PROVE  IInv /\ [Next]_vars => IInv'
<1> SUFFICES ASSUME IInv, [Next]_vars PROVE IInv'
  OBVIOUS
<1>1. ASSUME NEW t \in Task, SysCall(t) PROVE IInv'
  BY <1>1, RecvOK, RecvBlockOK, YieldOK, SendOK, RefusedOK, AlarmOK, IrqCallsOK, SMTT(30) DEF SysCall
<1>2. CASE UNCHANGED vars
  BY <1>2 DEF vars, IInv, TypeOK, RunsOrSleeps, NoLostWakeup, IdleOnlyWhenIdle
<1> QED
  BY <1>1, <1>2, LoadOK, EnableOK, TimerOK, InterruptOK DEF Next

(* The invariant holds in every state the core reaches.                    *)
LEMMA Invariance ==
    ASSUME Disciplined
    PROVE  Spec => []IInv
  BY InitOK, Inductive, PTL DEF Spec

(* Every variable keeps its range; no message queue holds more than mq_size*)
(* minus 2 messages (ksend).                                               *)
THEOREM TypeCorrect ==
    ASSUME Disciplined
    PROVE  Spec => []TypeOK
<1>1. IInv => TypeOK
  BY SMTT(30) DEF IInv
<1> QED
  BY <1>1, Invariance, PTL

(* The queues of sched.c stay doubly linked and the cursors of sched_pick stay*)
(* in their queues, whatever system calls and interrupts interleave.       *)
THEOREM LinksStaySound ==
    ASSUME Disciplined
    PROVE  Spec => []LinksMirror
<1>1. IInv => LinksMirror
  BY SMTT(30) DEF IInv, Sound, LinksMirror
<1> QED
  BY <1>1, Invariance, PTL

(* Following the links of sched.c each queue ends and holds exactly its    *)
(* tasks: no interleaving loses a task or puts one into two queues.        *)
THEOREM QueuesStayWhole ==
    ASSUME Disciplined
    PROVE  Spec => []QueuesWhole
<1>1. IInv => QueuesWhole
  BY SoundHolds DEF IInv, QueuesWhole
<1> QED
  BY <1>1, Invariance, PTL

(* The queues of sched.c never contain a cycle.                            *)
THEOREM NoCycles ==
    ASSUME Disciplined
    PROVE  Spec => []Ranked(s)
<1>1. IInv => Ranked(s)
  BY DEF IInv, Sound
<1> QED
  BY <1>1, Invariance, PTL

(* While no task sleeps and no send is refused, the CPU runs runnable      *)
(* tasks only, and isr_next is never stale.                                *)
THEOREM OnlyRunnableRuns ==
    ASSUME Sleepers = {}, Refused = {}
    PROVE  Spec => []RunsRunnable
<1>1. IInv => RunsRunnable
  BY DEF IInv, RunsOrSleeps, RunsRunnable
<1>2. Disciplined
  BY KernelAssumption, SMTT(30) DEF Disciplined
<1> QED
  BY <1>1, <1>2, Invariance, PTL

(* No task stays blocked in SYS_recv with a message in its queue.          *)
THEOREM NoWakeupIsLost ==
    ASSUME Disciplined
    PROVE  Spec => []NoLostWakeup
<1>1. IInv => NoLostWakeup
  BY DEF IInv
<1> QED
  BY <1>1, Invariance, PTL

(* The core halts only when no task is runnable.                           *)
THEOREM IdleMeansIdle ==
    ASSUME Disciplined
    PROVE  Spec => []IdleOnlyWhenIdle
<1>1. IInv => IdleOnlyWhenIdle
  BY DEF IInv
<1> QED
  BY <1>1, Invariance, PTL

-----------------------------------------------------------------------------
(***************************************************************************)
(* Device interrupts are not lost: a line is masked by the core only while *)
(* its driver has the SYS_IRQ message to read or to ack.  A message queue  *)
(* that is full loses its oldest message (ksend), so this needs room in    *)
(* the queues of the drivers.  The first theorem takes it from the         *)
(* behaviour, the second one from the configuration.                       *)
(***************************************************************************)
Drivers == {t \in Task : Priority[t] = PRI_DRV}

(* No driver is sent a message while its queue is full.                    *)
NoOverflow ==
    \A d \in Drivers : Len(mq[d]) = MqCap => mq'[d] = mq[d] \/ Len(mq'[d]) < MqCap

(* Only drivers get lines.                                                 *)
RoutedToDrivers == \A i \in Irq : route[i] # 0 => route[i] \in Drivers

(* The message is in the queue.                                            *)
Waits(q, m) == \E n \in 1..Len(q) : q[n] = m

(* A queue keeps what it has when a message is added below its bound.      *)
LEMMA PushKeeps ==
    ASSUME NEW S, NEW q \in Seq(S), NEW m \in S, NEW cap \in Nat \ {0}, Len(q) <= cap,
           Len(q) = cap => Push(q, m, cap) = q \/ Len(Push(q, m, cap)) < cap
    PROVE  \A x : Waits(q, x) => Waits(Push(q, m, cap), x)
<1>1. CASE Len(q) = cap
  <2>1. Tail(q) \in Seq(S) /\ Len(Tail(q)) = cap - 1
    BY <1>1
  <2>2. Push(q, m, cap) = Append(Tail(q), m) /\ Len(Push(q, m, cap)) = cap
    BY <1>1, <2>1 DEF Push
  <2>3. Push(q, m, cap) = q
    <3>1. ~ (Len(Push(q, m, cap)) < cap)
      BY <2>2
    <3> QED BY <1>1, <3>1
  <2> QED BY <2>3
<1>2. CASE Len(q) # cap
  <2>1. Push(q, m, cap) = Append(q, m)
    BY <1>2 DEF Push
  <2> QED BY <2>1 DEF Waits
<1> QED
  BY <1>1, <1>2

(* The message that is added is in the queue.                              *)
LEMMA PushAdds ==
    ASSUME NEW S, NEW q \in Seq(S), NEW m \in S, NEW cap \in Nat \ {0}, Len(q) <= cap
    PROVE  Waits(Push(q, m, cap), m)
<1>1. CASE Len(q) = cap
  <2>1. Tail(q) \in Seq(S) /\ Len(Tail(q)) = cap - 1
    BY <1>1
  <2>2. Push(q, m, cap) = Append(Tail(q), m)
    BY <1>1, <2>1 DEF Push
  <2> QED BY <2>1, <2>2 DEF Waits
<1>2. CASE Len(q) # cap
  <2>1. Push(q, m, cap) = Append(q, m)
    BY <1>2 DEF Push
  <2> QED BY <2>1 DEF Waits
<1> QED
  BY <1>1, <1>2

(* The message that is read waited at the head; the others stay.           *)
LEMMA TailKeeps ==
    ASSUME NEW S, NEW q \in Seq(S), q # <<>>
    PROVE  \A x : Waits(q, x) => x = Head(q) \/ Waits(Tail(q), x)
<1> SUFFICES ASSUME NEW x, NEW n \in 1..Len(q), q[n] = x, x # Head(q)
             PROVE  \E k \in 1..Len(Tail(q)) : Tail(q)[k] = x
  BY DEF Waits
<1>1. n # 1 /\ n - 1 \in 1..Len(Tail(q)) /\ Tail(q)[n - 1] = q[n]
  OBVIOUS
<1> QED
  BY <1>1

(* The driver still has the message of the line i to read or to ack.       *)
Pending(i) == i \in owed[route[i]] \/ Waits(mq[route[i]], i)

(* MaskedIsPending says that a masked line has its message.               *)
LEMMA PendingIff ==
    MaskedIsPending <=>
        (mode = "ready" => \A i \in Irq : route[i] # 0 /\ i \notin irqon => Pending(i))
  BY DEF MaskedIsPending, Pending, Waits

(* What the types say of a routed line and its driver's queue.             *)
LEMMA RouteType ==
    ASSUME TypeOK, NEW i \in Irq, route[i] # 0
    PROVE  /\ route[i] \in Task /\ mq[route[i]] \in Seq(Message) /\ Len(mq[route[i]]) <= MqCap
           /\ MqCap \in Nat \ {0} /\ i \in Message
  BY KernelAssumption DEF TypeOK, Pid, Message

(* A message for the task d leaves every line pending.                     *)
LEMMA SendPending ==
    ASSUME TypeOK, RoutedToDrivers, NoOverflow, NEW d \in Task, NEW m \in Message,
           mq' = [mq EXCEPT ![d] = ksend(@, m)], UNCHANGED <<route, owed>>,
           NEW i \in Irq, route[i] # 0, Pending(i)
    PROVE  Pending(i)'
<1> DEFINE r == route[i]
           q == mq[r]
<1>1. r \in Task /\ q \in Seq(Message) /\ Len(q) <= MqCap /\ MqCap \in Nat \ {0} /\ r \in Drivers
  BY RouteType DEF RoutedToDrivers
<1>2. mq \in [Task -> Seq(Message)]
  BY DEF TypeOK
<1>3. CASE r # d
  BY <1>1, <1>2, <1>3, SMTT(30) DEF Pending
<1>4. CASE r = d
  <2>1. mq'[r] = Push(q, m, MqCap)
    BY <1>1, <1>2, <1>4, SMTT(30) DEF ksend
  <2>2. Len(q) = MqCap => Push(q, m, MqCap) = q \/ Len(Push(q, m, MqCap)) < MqCap
    BY <1>1, <2>1, SMTT(30) DEF NoOverflow
  <2>3. Waits(q, i) => Waits(mq'[r], i)
    BY <1>1, <2>1, <2>2, PushKeeps, SMTT(30)
  <2> QED BY <2>3 DEF Pending
<1> QED
  BY <1>3, <1>4

(* Every step of the core keeps masked lines pending while no driver's     *)
(* queue overflows.                                                        *)
LEMMA PendingStep ==
    ASSUME TypeOK, RoutedToDrivers, MaskedIsPending, NoOverflow, Next
    PROVE  MaskedIsPending'
<1> SUFFICES ASSUME mode' = "ready", NEW i \in Irq, route'[i] # 0, i \notin irqon'
             PROVE  Pending(i)'
  BY DEF MaskedIsPending, Pending, Waits
<1>0. /\ mode = "ready" /\ route[i] # 0 /\ i \notin irqon => Pending(i)
      /\ mq \in [Task -> Seq(Message)] /\ owed \in [Task -> SUBSET Irq]
  BY PendingIff DEF TypeOK
<1>1. ASSUME NEW t \in Task, Load(t) PROVE FALSE
  BY <1>1 DEF Load
<1>2. CASE sys_enable
  BY <1>2 DEF sys_enable
<1>3. ASSUME NEW t \in Task, Recv(t) PROVE Pending(i)'
  <2>1. /\ mode = "ready" /\ route' = route /\ irqon' = irqon
        /\ mq' = [mq EXCEPT ![t] = Tail(@)] /\ mq[t] # <<>>
        /\ owed' = [owed EXCEPT ![t] = @ \cup ({Head(mq[t])} \cap Irq)]
    BY <1>3 DEF Recv
  <2>2. Pending(i) /\ route[i] \in Task
    BY <1>0, <2>1, RouteType, SMTT(30)
  <2>3. CASE route[i] # t
    BY <1>0, <2>1, <2>2, <2>3, SMTT(30) DEF Pending
  <2>4. CASE route[i] = t
    <3>1. Waits(mq[t], i) => i = Head(mq[t]) \/ Waits(Tail(mq[t]), i)
      BY <1>0, <2>1, TailKeeps
    <3>2. i = Head(mq[t]) => i \in owed'[t]
      BY <1>0, <2>1
    <3>3. i \in owed[t] => i \in owed'[t]
      BY <1>0, <2>1
    <3>4. mq'[t] = Tail(mq[t])
      BY <1>0, <2>1
    <3> QED BY <2>1, <2>2, <2>4, <3>1, <3>2, <3>3, <3>4, SMTT(30) DEF Pending
  <2> QED BY <2>3, <2>4
<1>4. ASSUME NEW t \in Task, NEW r, PickAndSwitch(r), UNCHANGED <<route, owed>> PROVE Pending(i)'
  <2>1. CASE sys_ready(r)
    BY <1>4, <2>1, SMTT(30) DEF sys_ready
  <2>2. CASE UNCHANGED <<mode, mq, irqon>>
    BY <1>0, <1>4, <2>2 DEF Pending
  <2> QED BY <1>4, <2>1, <2>2, SMTT(30) DEF PickAndSwitch
<1>5. ASSUME NEW t \in Task, NEW d \in Task, Send(t, d) PROVE Pending(i)'
  BY <1>0, <1>5, SendPending, Zenon DEF Send, irqs, Message
<1>6. ASSUME NEW t \in Task, NEW d \in Task, SendRefused(t, d) PROVE Pending(i)'
  BY <1>0, <1>6, SMTT(30) DEF SendRefused, irqs, Pending
<1>7. ASSUME NEW t \in Task, NEW sec \in 0..MaxSec, NEW n \in 0..(tmrfreq - 1), Alarm(t, sec, n)
      PROVE  Pending(i)'
  <2>1. mode' # "hung" /\ UNCHANGED <<mq, irqs>>
    BY <1>7, SMTT(30) DEF Alarm
  <2>2. mode' = mode
    BY <1>7, <2>1, SMTT(30) DEF Alarm
  <2> QED BY <1>0, <2>1, <2>2, SMTT(30) DEF irqs, Pending
<1>8. ASSUME NEW t \in Task, NEW j \in Irq, SetIrq(t, j) PROVE FALSE
  BY <1>8, SMTT(30) DEF SetIrq
<1>9. ASSUME NEW t \in Task, NEW j \in Irq, Ack(t, j) PROVE Pending(i)'
  <2>1. /\ mode = "ready" /\ route' = route /\ mq' = mq
        /\ owed' = [owed EXCEPT ![t] = @ \ {j}]
        /\ irqon' = IF route[j] = t THEN irqon \cup {j} ELSE irqon
    BY <1>9, SMTT(30) DEF Ack
  <2>2. Pending(i) /\ ~ (i = j /\ route[j] = t)
    BY <1>0, <2>1, SMTT(30)
  <2> QED BY <1>0, <2>1, <2>2, SMTT(30) DEF Pending
<1>10. CASE Timer
  BY <1>0, <1>10 DEF Timer, irqs, Pending
<1>11. ASSUME NEW j \in Irq, Interrupt(j) PROVE Pending(i)'
  <2>1. /\ mode = "ready" /\ route' = route /\ owed' = owed /\ irqon' = irqon \ {j}
        /\ mq' = [mq EXCEPT ![route[j]] = ksend(@, j)] /\ j \in Message
    BY <1>11, SMTT(30) DEF Interrupt, Message
  <2>2. CASE i = j
    <3>1. /\ route[i] \in Task /\ mq[route[i]] \in Seq(Message)
          /\ Len(mq[route[i]]) <= MqCap /\ MqCap \in Nat \ {0}
      BY <2>1, RouteType, SMTT(30)
    <3>2. mq'[route[i]] = Push(mq[route[i]], i, MqCap)
      BY <1>0, <2>1, <2>2, <3>1, SMTT(30) DEF ksend
    <3> QED BY <2>1, <2>2, <3>1, <3>2, PushAdds, SMTT(30) DEF Pending
  <2>3. CASE i # j
    <3>1. CASE route[j] \in Task
      BY <1>0, <2>1, <2>3, <3>1, SendPending, Zenon
    <3>2. CASE route[j] \notin Task
      BY <1>0, <2>1, <2>3, <3>2, SMTT(30) DEF Pending
    <3> QED BY <3>1, <3>2, SMTT(30)
  <2> QED BY <2>2, <2>3, SMTT(30)
<1>12. ASSUME NEW t \in Task, RecvBlock(t) \/ Yield(t) PROVE Pending(i)'
  <2>1. PickAndSwitch(sched_block(s, t)) \/ PickAndSwitch(s)
    BY <1>12, SMTT(30) DEF RecvBlock, Yield
  <2>2. UNCHANGED <<route, owed>>
    BY <1>12, SMTT(30) DEF RecvBlock, Yield
  <2> QED BY <1>4, <2>1, <2>2, SMTT(30)
<1> QED
  BY <1>1, <1>2, <1>3, <1>5, <1>6, <1>7, <1>8, <1>9, <1>10, <1>11, <1>12, SMTT(30) DEF Next, SysCall

(* isr_installirq is called for drivers only.                              *)
LEMMA RoutedStep ==
    ASSUME TypeOK, RoutedToDrivers, [Next]_vars
    PROVE  RoutedToDrivers'
<1>1. ASSUME NEW t \in Task, NEW L \in SUBSET Irq, route' = isr_installirq(L, t), L # {} => t \in Drivers
      PROVE  RoutedToDrivers'
  BY <1>1, SMTT(30) DEF isr_installirq, RoutedToDrivers, TypeOK, Drivers
<1>2. ASSUME NEW t \in Task, Load(t) PROVE RoutedToDrivers'
  BY <1>1, <1>2, KernelAssumption, SMTT(30) DEF Load, Drivers
<1>3. ASSUME NEW t \in Task, NEW i \in Irq, SetIrq(t, i) PROVE RoutedToDrivers'
  BY <1>1, <1>3, KernelAssumption, SMTT(30) DEF SetIrq, Drivers
<1>4. CASE route' = route
  BY <1>4 DEF RoutedToDrivers, Drivers
<1> QED
  BY <1>2, <1>3, <1>4, Zenon
  DEF Next, SysCall, vars, irqs, sys_enable, Recv, RecvBlock, Yield, Send, SendRefused, Alarm, Ack, Timer, Interrupt

(* No device is left masked: a line is masked only while its driver has    *)
(* the SYS_IRQ message to read or to ack, in every behaviour in which      *)
(* ksend never drops a message of a driver's full queue.                   *)
THEOREM NoLineIsLost ==
    ASSUME Disciplined
    PROVE  Spec /\ [][NoOverflow]_vars => []MaskedIsPending
<1>1. Spec => []TypeOK
  BY TypeCorrect
<1>2. Init => RoutedToDrivers /\ MaskedIsPending
  BY DEF Init, RoutedToDrivers, MaskedIsPending
<1>3. TypeOK /\ RoutedToDrivers /\ MaskedIsPending /\ [Next]_vars /\ [NoOverflow]_vars
          => (RoutedToDrivers /\ MaskedIsPending)'
  <2>1. CASE UNCHANGED vars
    BY <2>1, Zenon DEF vars, RoutedToDrivers, MaskedIsPending, Drivers
  <2> QED BY <2>1, RoutedStep, PendingStep, SMTT(30)
<1> QED
  BY <1>1, <1>2, <1>3, PTL DEF Spec

(***************************************************************************)
(* A configuration whose queues have the room: drivers are only sent       *)
(* SYS_IRQ messages, and a queue holds one of each line.                   *)
(***************************************************************************)
RoomForLines ==
    /\ IsFiniteSet(Irq) /\ Cardinality(Irq) <= MqCap
    /\ FS \notin Drivers
    /\ \A p \in Peers : p[2] \notin Drivers

(* The queue q has only lines that its driver d has been given and that    *)
(* are masked, each of them once, and none that d has read already.        *)
LinesOnce(q, d, on, rt, ow) ==
    /\ \A n \in 1..Len(q) : q[n] \in Irq /\ q[n] \notin on /\ rt[q[n]] = d /\ q[n] \notin ow
    /\ \A m, n \in 1..Len(q) : q[m] = q[n] => m = n
    /\ \A i \in ow : i \notin on /\ rt[i] = d

IrqInv ==
    /\ \A d \in Drivers : LinesOnce(mq[d], d, irqon, route, owed[d])
    /\ mode \in {"boot", "start"} => \A d \in Drivers : mq[d] = <<>> /\ owed[d] = {}

(* A line that is not masked is not in its driver's queue, so the queue    *)
(* has room for it.                                                        *)
LEMMA HasRoom ==
    ASSUME RoomForLines, NEW q \in Seq(Message), NEW i \in Irq, NEW d, NEW on, i \in on, NEW rt, NEW ow,
           LinesOnce(q, d, on, rt, ow)
    PROVE  Len(q) < MqCap
<1> DEFINE S == 1..Len(q)
           T == Irq \ {i}
<1>1. IsFiniteSet(S) /\ Cardinality(S) = Len(q)
  <2>1. Len(q) \in Nat /\ 1 \in Int
    OBVIOUS
  <2>2. IsFiniteSet(1..Len(q)) /\ Cardinality(1..Len(q)) = IF 1 > Len(q) THEN 0 ELSE Len(q) - 1 + 1
    BY <2>1, FS_Interval, SMTT(30)
  <2> QED BY <2>1, <2>2
<1>2. IsFiniteSet(T) /\ Cardinality(T) = Cardinality(Irq) - 1 /\ Cardinality(Irq) \in Nat
  BY FS_RemoveElement, FS_CardinalityType DEF RoomForLines
<1>3. q \in [S -> T]
  BY DEF LinesOnce
<1>4. \A x, y \in S : q[x] = q[y] => x = y
  BY DEF LinesOnce
<1> HIDE DEF S, T
<1>5. ~ (Cardinality(T) < Cardinality(S))
  BY <1>1, <1>2, <1>3, <1>4, FS_PigeonHole, SMTT(30)
<1> QED
  BY <1>1, <1>2, <1>5, KernelAssumption, SMTT(30) DEF RoomForLines

(* With that room no driver's queue overflows.                             *)
LEMMA RoomStep ==
    ASSUME RoomForLines, TypeOK, IrqInv, Next
    PROVE  NoOverflow
<1> SUFFICES ASSUME NEW d \in Drivers, Len(mq[d]) = MqCap, mq'[d] # mq[d]
             PROVE  Len(mq'[d]) < MqCap
  BY SMTT(30) DEF NoOverflow
<1>0. mq \in [Task -> Seq(Message)] /\ d \in Task /\ MqCap \in Nat \ {0}
  BY KernelAssumption DEF TypeOK, Drivers
<1>1. ASSUME NEW t \in Task, Recv(t) PROVE Len(mq'[d]) < MqCap
  BY <1>0, <1>1 DEF Recv
<1>2. ASSUME NEW e \in Task, NEW m, mq' = [mq EXCEPT ![e] = ksend(@, m)], e \notin Drivers
      PROVE  FALSE
  BY <1>0, <1>2, SMTT(30)
<1>3. ASSUME NEW t \in Task, NEW e \in Task, Send(t, e) PROVE FALSE
  <2>1. e \notin Drivers /\ mq' = [mq EXCEPT ![e] = ksend(@, "msg")]
    BY <1>3 DEF Send, RoomForLines
  <2> QED BY <1>2, <2>1
<1>4. ASSUME NEW r, PickAndSwitch(r) PROVE FALSE
  BY <1>2, <1>4, KernelAssumption, SMTT(30) DEF PickAndSwitch, sys_ready, RoomForLines
<1>5. ASSUME NEW i \in Irq, Interrupt(i) PROVE FALSE
  <2>1. i \in irqon /\ mq' = [mq EXCEPT ![route[i]] = ksend(@, i)]
    BY <1>5, SMTT(30) DEF Interrupt
  <2>2. route[i] = d
    BY <1>0, <2>1, SMTT(30)
  <2>3. Len(mq[d]) < MqCap
    BY <1>0, <2>1, HasRoom, SMTT(30) DEF IrqInv
  <2> QED BY <2>3, SMTT(30)
<1>6. mq' # mq
  BY SMTT(30)
<1> QED
  BY <1>1, <1>3, <1>4, <1>5, <1>6, Zenon
  DEF Next, SysCall, Load, sys_enable, RecvBlock, Yield, SendRefused, Alarm, SetIrq, Ack, Timer

(* Every step of the core keeps the lines in the drivers' queues single.   *)
LEMMA IrqStep ==
    ASSUME RoomForLines, TypeOK, RoutedToDrivers, IrqInv, [Next]_vars
    PROVE  IrqInv'
<1>0. /\ mq \in [Task -> Seq(Message)] /\ owed \in [Task -> SUBSET Irq]
      /\ MqCap \in Nat \ {0} /\ Drivers \subseteq Task
  BY KernelAssumption, SMTT(30) DEF TypeOK, Drivers
<1> DEFINE Once(d) == LinesOnce(mq[d], d, irqon, route, owed[d])
<1>1. \A d \in Drivers : Once(d)
  BY SMTT(30) DEF IrqInv
<1>2. mode \in {"boot", "start"} => \A d \in Drivers : mq[d] = <<>> /\ owed[d] = {}
  BY SMTT(30) DEF IrqInv
<1>3. ASSUME UNCHANGED <<mq, owed, irqon, route>>, mode' \in {"boot", "start"} => mode \in {"boot", "start"}
      PROVE  IrqInv'
  BY <1>3, SMTT(30) DEF IrqInv
<1>4. ASSUME mode \in {"boot", "start"}, UNCHANGED <<mq, owed>>
      PROVE  IrqInv'
  <2>1. \A d \in Drivers : mq'[d] = <<>> /\ owed'[d] = {}
    BY <1>2, <1>4, SMTT(30)
  <2>2. \A d \in Drivers : LinesOnce(<<>>, d, irqon', route', {})
    <3>1. 1..Len(<<>>) = {}
      OBVIOUS
    <3> QED BY <3>1 DEF LinesOnce
  <2>3. \A d \in Drivers : LinesOnce(mq'[d], d, irqon', route', owed'[d])
    BY <2>1, <2>2, Zenon
  <2> QED BY <2>1, <2>3, SMTT(30) DEF IrqInv
<1>5. ASSUME NEW e \in Task, NEW m, mq' = [mq EXCEPT ![e] = ksend(@, m)], e \notin Drivers,
             UNCHANGED owed
      PROVE  \A d \in Drivers : mq'[d] = mq[d] /\ owed'[d] = owed[d]
  BY <1>0, <1>5, SMTT(30)
<1>6. ASSUME NEW t \in Task, Recv(t) PROVE IrqInv'
  <2>1. /\ mq' = [mq EXCEPT ![t] = Tail(@)] /\ mq[t] # <<>>
        /\ owed' = [owed EXCEPT ![t] = @ \cup ({Head(mq[t])} \cap Irq)]
        /\ UNCHANGED <<mode, irqon, route>>
    BY <1>6, SMTT(30) DEF Recv
  <2>2. mode \in {"boot", "start"} => t \notin Drivers
    BY <1>2, <2>1, SMTT(30)
  <2>3. \A d \in Drivers \ {t} : mq'[d] = mq[d] /\ owed'[d] = owed[d]
    BY <1>0, <2>1, SMTT(30)
  <2>4. ASSUME t \in Drivers PROVE LinesOnce(Tail(mq[t]), t, irqon, route, owed[t] \cup ({Head(mq[t])} \cap Irq))
    <3> DEFINE q == mq[t]
               ow == owed[t]
    <3>1. q \in Seq(Message) /\ q # <<>> /\ LinesOnce(q, t, irqon, route, ow) /\ ow \subseteq Irq
      BY <1>0, <1>1, <2>1, <2>4, SMTT(30)
    <3>2. Tail(q) \in Seq(Message) /\ Len(Tail(q)) = Len(q) - 1 /\ Len(q) \in Nat \ {0}
          /\ Head(q) = q[1] /\ \A n \in 1..Len(Tail(q)) : Tail(q)[n] = q[n + 1] /\ n + 1 \in 1..Len(q)
      BY <3>1, SMTT(30)
    <3> HIDE DEF q, ow
    <3>3. \A n \in 1..Len(Tail(q)) : /\ Tail(q)[n] \in Irq /\ Tail(q)[n] \notin irqon
                                     /\ route[Tail(q)[n]] = t /\ Tail(q)[n] \notin ow
                                     /\ Tail(q)[n] # Head(q)
      <4> SUFFICES ASSUME NEW n \in 1..Len(Tail(q)) PROVE
             /\ q[n + 1] \in Irq /\ q[n + 1] \notin irqon
             /\ route[q[n + 1]] = t /\ q[n + 1] \notin ow /\ q[n + 1] # q[1]
        BY <3>2, SMTT(30)
      <4>1. n + 1 \in 1..Len(q) /\ 1 \in 1..Len(q) /\ n + 1 # 1
        BY <3>2, SMTT(30)
      <4> QED BY <3>1, <4>1, SMTT(30) DEF LinesOnce
    <3>4. \A m, n \in 1..Len(Tail(q)) : Tail(q)[m] = Tail(q)[n] => m = n
      <4> SUFFICES ASSUME NEW m \in 1..Len(Tail(q)), NEW n \in 1..Len(Tail(q)), q[m + 1] = q[n + 1]
                   PROVE  m = n
        BY <3>2, SMTT(30)
      <4>1. m + 1 = n + 1
        BY <3>1, <3>2, SMTT(30) DEF LinesOnce
      <4> QED BY <3>2, <4>1, SMTT(30)
    <3>5. Head(q) \notin irqon /\ route[Head(q)] = t
      BY <3>1, <3>2, SMTT(30) DEF LinesOnce
    <3>6. LinesOnce(Tail(q), t, irqon, route, ow \cup ({Head(q)} \cap Irq))
      BY <3>1, <3>3, <3>4, <3>5, SMTT(30) DEF LinesOnce
    <3> QED BY <3>6, SMTT(30) DEF q, ow
  <2>5. t \in Drivers => mq'[t] = Tail(mq[t]) /\ owed'[t] = owed[t] \cup ({Head(mq[t])} \cap Irq)
    BY <1>0, <2>1, SMTT(30)
  <2>6. \A d \in Drivers : LinesOnce(mq'[d], d, irqon', route', owed'[d])
    BY <1>1, <2>1, <2>3, <2>4, <2>5, ZenonT(30)
  <2>7. mode' \in {"boot", "start"} => \A d \in Drivers : mq'[d] = <<>> /\ owed'[d] = {}
    BY <1>2, <2>1, <2>2, <2>3, SMTT(30)
  <2> QED BY <2>6, <2>7, SMTT(30) DEF IrqInv
<1>7. ASSUME NEW t \in Task, NEW e \in Task, Send(t, e) PROVE IrqInv'
  <2>1. /\ e \notin Drivers /\ mq' = [mq EXCEPT ![e] = ksend(@, "msg")]
        /\ UNCHANGED <<mode, irqon, route, owed>>
    BY <1>7, SMTT(30) DEF Send, RoomForLines, irqs
  <2>2. \A d \in Drivers : mq'[d] = mq[d] /\ owed'[d] = owed[d]
    BY <1>5, <2>1, SMTT(30)
  <2> QED BY <1>1, <1>2, <2>1, <2>2, SMTT(30) DEF IrqInv
<1>8. ASSUME NEW r, PickAndSwitch(r), UNCHANGED <<route, owed>> PROVE IrqInv'
  <2>1. CASE UNCHANGED <<mode, mq, irqon>>
    BY <1>3, <1>8, <2>1, SMTT(30)
  <2>2. CASE mode = "start" /\ sys_ready(r)
    <3>1. mode' = "ready" /\ \A d \in Drivers : mq'[d] = mq[d] /\ owed'[d] = owed[d]
      BY <1>5, <1>8, <2>2, KernelAssumption, SMTT(30) DEF sys_ready, RoomForLines
    <3>2. \A d \in Drivers : mq'[d] = <<>> /\ owed'[d] = {}
      BY <1>2, <2>2, <3>1, SMTT(30)
    <3>3. \A d \in Drivers : LinesOnce(<<>>, d, irqon', route', {})
      <4>1. 1..Len(<<>>) = {}
        OBVIOUS
      <4> QED BY <4>1 DEF LinesOnce
    <3>4. \A d \in Drivers : LinesOnce(mq'[d], d, irqon', route', owed'[d])
      BY <3>2, <3>3, Zenon
    <3>5. mode' \notin {"boot", "start"}
      BY <3>1, SMTT(30)
    <3> QED BY <3>4, <3>5, SMTT(30) DEF IrqInv
  <2> QED BY <1>8, <2>1, <2>2, SMTT(30) DEF PickAndSwitch
<1>9. ASSUME NEW t \in Task, NEW j \in Irq, Ack(t, j) PROVE IrqInv'
  <2>1. /\ t \in Drivers /\ j \in owed[t] /\ UNCHANGED <<mode, route, mq>>
        /\ owed' = [owed EXCEPT ![t] = @ \ {j}]
        /\ irqon' = IF route[j] = t THEN irqon \cup {j} ELSE irqon
    BY <1>9, SMTT(30) DEF Ack, Drivers
  <2>2. route[j] = t
    BY <1>1, <2>1, SMTT(30) DEF LinesOnce
  <2>3. mode \notin {"boot", "start"}
    BY <1>2, <2>1, SMTT(30)
  <2>4. ASSUME NEW d \in Drivers PROVE LinesOnce(mq[d], d, irqon \cup {j}, route, owed'[d])
    <3>1. CASE d = t
      <4>1. owed'[d] = owed[t] \ {j}
        BY <1>0, <2>1, <3>1, SMTT(30)
      <4>2. LinesOnce(mq[t], t, irqon, route, owed[t])
        BY <1>1, <2>1, SMTT(30)
      <4>3. LinesOnce(mq[t], t, irqon \cup {j}, route, owed[t] \ {j})
        BY <2>1, <4>2, SMTT(30) DEF LinesOnce
      <4> QED BY <3>1, <4>1, <4>3, SMTT(30)
    <3>2. CASE d # t
      <4>1. owed'[d] = owed[d]
        BY <1>0, <2>1, <3>2, SMTT(30)
      <4>2. LinesOnce(mq[d], d, irqon, route, owed[d])
        BY <1>1, SMTT(30)
      <4>3. LinesOnce(mq[d], d, irqon \cup {j}, route, owed[d])
        BY <2>2, <3>2, <4>2, SMTT(30) DEF LinesOnce
      <4> QED BY <4>1, <4>3, SMTT(30)
    <3> QED BY <3>1, <3>2, SMTT(30)
  <2>5. \A d \in Drivers : LinesOnce(mq'[d], d, irqon', route', owed'[d])
    BY <2>1, <2>2, <2>4, SMTT(30)
  <2> QED BY <2>1, <2>3, <2>5, Zenon DEF IrqInv
<1>10. ASSUME NEW j \in Irq, Interrupt(j) PROVE IrqInv'
  <2>1. /\ mode = "ready" /\ j \in irqon /\ UNCHANGED <<mode, route, owed>> /\ irqon' = irqon \ {j}
        /\ mq' = [mq EXCEPT ![route[j]] = ksend(@, j)]
    BY <1>10, SMTT(30) DEF Interrupt
  <2>2. ASSUME NEW d \in Drivers, d # route[j] PROVE LinesOnce(mq'[d], d, irqon', route', owed'[d])
    <3>1. mq'[d] = mq[d] /\ irqon' = irqon \ {j} /\ route' = route /\ owed'[d] = owed[d]
      BY <1>0, <2>1, <2>2, SMTT(30)
    <3>2. LinesOnce(mq[d], d, irqon, route, owed[d])
      BY <1>1, SMTT(30)
    <3>3. LinesOnce(mq[d], d, irqon \ {j}, route, owed[d])
      BY <3>2, SMTT(30) DEF LinesOnce
    <3> QED BY <3>1, <3>3, SMTT(30)
  <2>3. ASSUME NEW d \in Drivers, d = route[j] PROVE LinesOnce(mq'[d], d, irqon', route', owed'[d])
    <3> DEFINE q == mq[d]
               ow == owed[d]
    <3>1. q \in Seq(Message) /\ LinesOnce(q, d, irqon, route, ow)
      BY <1>0, <1>1, SMTT(30)
    <3>2. Len(q) < MqCap
      BY <2>1, <3>1, HasRoom, SMTT(30)
    <3>3. mq'[d] = Append(q, j)
      BY <1>0, <2>1, <2>3, <3>2, SMTT(30) DEF ksend, Push
    <3>4. Len(Append(q, j)) = Len(q) + 1 /\ Append(q, j)[Len(q) + 1] = j /\ Len(q) \in Nat
          /\ \A n \in 1..Len(q) : Append(q, j)[n] = q[n]
      <4> HIDE DEF q
      <4>1. PICK L \in Nat : L = Len(q)
        BY <3>1, SMTT(30)
      <4>2. Len(Append(q, j)) = L + 1 /\ Append(q, j)[L + 1] = j
        BY <3>1, <4>1, SMTT(30)
      <4>3. \A n \in 1..L : Append(q, j)[n] = q[n]
        BY <3>1, <4>1, SMTT(30)
      <4> QED BY <4>1, <4>2, <4>3, SMTT(30)
    <3>5. j \notin ow /\ \A n \in 1..Len(q) : q[n] # j
      BY <2>1, <3>1, SMTT(30) DEF LinesOnce
    <3> HIDE DEF q, ow
    <3>6. \A n \in 1..(Len(q) + 1) : n \in 1..Len(q) \/ n = Len(q) + 1
      BY <3>4, SMTT(30)
    <3>7. LinesOnce(Append(q, j), d, irqon \ {j}, route, ow)
      BY <2>3, <3>1, <3>4, <3>5, <3>6, SMTT(30) DEF LinesOnce
    <3> QED BY <2>1, <3>3, <3>7, ZenonT(30) DEF ow
  <2>4. \A d \in Drivers : LinesOnce(mq'[d], d, irqon', route', owed'[d])
    BY <2>2, <2>3, SMTT(30)
  <2> QED BY <2>1, <2>4, ZenonT(30) DEF IrqInv
<1>11. ASSUME NEW t \in Task, NEW j \in Irq, SetIrq(t, j) PROVE IrqInv'
  BY <1>4, <1>11, SMTT(30) DEF SetIrq
<1>12. ASSUME NEW t \in Task, Load(t) PROVE IrqInv'
  BY <1>4, <1>12, SMTT(30) DEF Load
<1>13. ASSUME NEW t \in Task, RecvBlock(t) \/ Yield(t) PROVE IrqInv'
  <2>1. (PickAndSwitch(sched_block(s, t)) \/ PickAndSwitch(s)) /\ UNCHANGED <<route, owed>>
    BY <1>13 DEF RecvBlock, Yield
  <2> QED BY <1>8, <2>1, SMTT(30)
<1>14. ASSUME NEW t \in Task, \E e \in Task : SendRefused(t, e) PROVE IrqInv'
  BY <1>3, <1>14, SMTT(30) DEF SendRefused, irqs
<1>15. ASSUME NEW t \in Task, \E sec \in 0..MaxSec, n \in 0..(tmrfreq - 1) : Alarm(t, sec, n)
       PROVE  IrqInv'
  <2>1. UNCHANGED <<mq, irqs>> /\ mode' \in {mode, "hung"}
    BY <1>15, SMTT(30) DEF Alarm
  <2> QED BY <1>3, <2>1, SMTT(30) DEF irqs
<1>16. CASE Timer \/ sys_enable \/ UNCHANGED vars
  BY <1>3, <1>16, Zenon DEF Timer, sys_enable, vars, irqs
<1> QED
  BY <1>6, <1>7, <1>9, <1>10, <1>11, <1>12, <1>13, <1>14, <1>15, <1>16, SMTT(30) DEF Next, SysCall

(* No device is left masked when the drivers' queues have a place for      *)
(* every line: then no SYS_IRQ message is ever dropped, in any             *)
(* interleaving of interrupts, acks and task switches.                     *)
THEOREM NoLineIsLostWithRoom ==
    ASSUME Disciplined, RoomForLines
    PROVE  Spec => []MaskedIsPending
<1>1. Spec => []TypeOK
  BY TypeCorrect, SMTT(30)
<1>2. Init => RoutedToDrivers /\ MaskedIsPending /\ IrqInv
  BY DEF Init, RoutedToDrivers, MaskedIsPending, IrqInv, LinesOnce, Drivers
<1>3. TypeOK /\ RoutedToDrivers /\ MaskedIsPending /\ IrqInv /\ [Next]_vars
          => (RoutedToDrivers /\ MaskedIsPending /\ IrqInv)'
  <2>1. CASE UNCHANGED vars
    BY <2>1 DEF vars, RoutedToDrivers, MaskedIsPending, IrqInv
  <2> QED BY <2>1, RoutedStep, PendingStep, IrqStep, RoomStep, SMTT(30)
<1> QED
  BY <1>1, <1>2, <1>3, PTL DEF Spec
============================================================================
