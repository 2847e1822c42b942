------------------------------- MODULE Sched -------------------------------
(***************************************************************************)
(* The task scheduler of the core (src/core/sched.c): eight doubly linked  *)
(* active queues, one blocked queue and the singly linked timer queue, all *)
(* threaded through the Task Control Blocks.                               *)
(*                                                                         *)
(* The functions of sched.c are called with interrupts disabled, from the  *)
(* handlers that Kernel.tla models, and often several in a row.  Each one  *)
(* is therefore an operator from a scheduler state s to the next one, and  *)
(* a handler composes them.  s is a record:                                *)
(*                                                                         *)
(*   hd_active, cr_active   ccb: head and cursor of each priority queue    *)
(*   hd_blocked, hd_timerq  ccb: heads of the blocked and the timer queue  *)
(*   prev, next, alarm      tcb: the links, by task                        *)
(*   state                  tcb: "running", "blocked", or "none" before    *)
(*                          the task is created                            *)
(*   alarmsec, alarmns      tcb: when the alarm is due; alarmsec is kept   *)
(*                          relative to ticks[TICKS_TS]                    *)
(*   isr_next               the task to switch to at the next timer tick   *)
(*                                                                         *)
(* 0 is the null pid.  A task's memroot and its pid name the same task, so *)
(* isr_next holds a pid here.  The third task state, hybernated, is not    *)
(* reachable: nothing calls sched_hybernate.                               *)
(***************************************************************************)
EXTENDS Integers, FiniteSets

CONSTANTS
    Task,           \* pids of the tasks; the idle task is not one of them
    Idle,           \* the idle task, idle_mapping: it is in no queue
    Priority        \* tcb->priority of every task

PRI_SYS  == 0
PRI_DRV  == 2
PRI_SRV  == 3
PRI_APP  == 5
PRI_IDLE == 7

Levels == PRI_SYS..PRI_IDLE
Pid    == Task \cup {0}

ASSUME TaskAssumption == IsFiniteSet(Task) /\ 0 \notin Task /\ Idle \notin Pid

ASSUME PriorityAssumption == Priority \in [Task -> Levels]

(* The zeroed ccb, and tasks that are not created yet: state "none".       *)
SchedInit ==
    [hd_active  |-> [i \in Levels |-> 0],
     cr_active  |-> [i \in Levels |-> 0],
     hd_blocked |-> 0,
     hd_timerq  |-> 0,
     prev       |-> [t \in Task |-> 0],
     next       |-> [t \in Task |-> 0],
     alarm      |-> [t \in Task |-> 0],
     alarmsec   |-> [t \in Task |-> 0],
     alarmns    |-> [t \in Task |-> 0],
     state      |-> [t \in Task |-> "none"],
     isr_next   |-> 0]

SchedState ==
    [hd_active  : [Levels -> Pid],
     cr_active  : [Levels -> Pid],
     hd_blocked : Pid,
     hd_timerq  : Pid,
     prev       : [Task -> Pid],
     next       : [Task -> Pid],
     alarm      : [Task -> Pid],
     alarmsec   : [Task -> Int],
     alarmns    : [Task -> Nat],
     state      : [Task -> {"none", "running", "blocked"}],
     isr_next   : Pid \cup {Idle}]

(* if(p != 0) { tcb = sched_get_tcb(p); tcb->link = v; }                   *)
Relink(link, p, v) == IF p = 0 THEN link ELSE [link EXCEPT ![p] = v]

(* if(head == t) head = v;                                                 *)
Advance(head, t, v) == IF head = t THEN v ELSE head

(* The task n links after the head h, 0 past the end.                      *)
Chain(link, h) ==
    LET c[n \in 0..Cardinality(Task)] ==
            IF n = 0 THEN h ELSE IF c[n-1] = 0 THEN 0 ELSE link[c[n-1]]
    IN  c

(***************************************************************************)
(* Queue operations                                                        *)
(***************************************************************************)
sched_add(s, t) ==
    LET h == s.hd_active[Priority[t]]
    IN  [s EXCEPT !.hd_active[Priority[t]] = t,
                  !.next[t] = h,
                  !.prev = Relink([s.prev EXCEPT ![t] = 0], h, t)]

(* task_new sets the state and the loader calls sched_add.                 *)
task_load(s, t) == sched_add([s EXCEPT !.state[t] = "running"], t)

(* Faulty: a cursor on the task stays behind.                              *)
sched_remove_stale(s, t) ==
    LET n == s.next[t]
        p == s.prev[t]
    IN  [s EXCEPT !.hd_active[Priority[t]] = Advance(@, t, n),
                  !.next = Relink([s.next EXCEPT ![t] = 0], p, n),
                  !.prev = Relink([s.prev EXCEPT ![t] = 0], n, p)]

(* Faulty: a cursor on the task goes back to the end of its round.         *)
sched_remove_rewind(s, t) ==
    LET n == s.next[t]
        p == s.prev[t]
    IN  [s EXCEPT !.hd_active[Priority[t]] = Advance(@, t, n),
                  !.cr_active[Priority[t]] = Advance(@, t, 0),
                  !.next = Relink([s.next EXCEPT ![t] = 0], p, n),
                  !.prev = Relink([s.prev EXCEPT ![t] = 0], n, p)]

sched_remove(s, t) ==
    LET n == s.next[t]
        p == s.prev[t]
    IN  [s EXCEPT !.hd_active[Priority[t]] = Advance(@, t, n),
                  !.cr_active[Priority[t]] = Advance(@, t, n),
                  !.next = Relink([s.next EXCEPT ![t] = 0], p, n),
                  !.prev = Relink([s.prev EXCEPT ![t] = 0], n, p)]

(* The idle task never gets here with t \in Task: "never block the idle".  *)
sched_block(s, t) ==
    LET r == sched_remove(s, t)
        b == r.hd_blocked
    IN  [r EXCEPT !.state[t] = "blocked",
                  !.prev = [Relink(r.prev, b, t) EXCEPT ![t] = 0],
                  !.next[t] = b,
                  !.hd_blocked = t]

(* Faulty: the task before it in the blocked queue is not relinked.        *)
sched_awake_linked(s, t) ==
    LET n == s.next[t]
        p == s.prev[t]
        a == sched_add(s, t)
        r == IF s.state[t] = "blocked"
             THEN [a EXCEPT !.hd_blocked = Advance(@, t, n),
                            !.prev = Relink(a.prev, n, p)]
             ELSE s
    IN  [r EXCEPT !.state[t] = "running", !.isr_next = t]

(* A blocked task moves to its active queue; its neighbours in the blocked *)
(* queue are relinked after sched_add has overwritten its own links.  In   *)
(* every case the task is to run next.                                     *)
sched_awake(s, t) ==
    LET n == s.next[t]
        p == s.prev[t]
        a == sched_add(s, t)
        r == IF s.state[t] = "blocked"
             THEN [a EXCEPT !.hd_blocked = Advance(@, t, n),
                            !.next = Relink(a.next, p, n),
                            !.prev = Relink(a.prev, n, p)]
             ELSE s
    IN  [r EXCEPT !.state[t] = "running", !.isr_next = t]

(***************************************************************************)
(* sched_pick                                                              *)
(***************************************************************************)

(* The time shared levels with a task to run, and those of them whose      *)
(* cursor stands on a task; the others have turned around.                 *)
ReadyLevels(s)  == {i \in PRI_SYS..(PRI_IDLE - 1) : s.hd_active[i] # 0}
CursorLevels(s) == {i \in ReadyLevels(s) : s.cr_active[i] # 0}

Highest(L) == CHOOSE i \in L : \A j \in L : i <= j

(* Faulty: no second round when every level has turned around.             *)
PickLevel_once(s) ==
    IF CursorLevels(s) # {} THEN Highest(CursorLevels(s)) ELSE PRI_IDLE

(* The level the loop stops at: the highest one with a cursor; the highest *)
(* ready one when all have turned around ("goto again"); PRI_IDLE if none. *)
PickLevel(s) ==
    LET C == CursorLevels(s)
        R == ReadyLevels(s)
    IN  IF C # {} THEN Highest(C) ELSE IF R # {} THEN Highest(R) ELSE PRI_IDLE

(* The levels the loop rewinds to their heads on its way down to that      *)
(* level; every time shared one when it goes round again.                  *)
Rewound(s) ==
    LET p == PickLevel(s)
        C == CursorLevels(s)
    IN  {i \in Levels : s.cr_active[i] = 0 /\ (i <= p \/ (C = {} /\ i # PRI_IDLE))}

RewoundCursors(s) ==
    LET R == Rewound(s)
    IN  [i \in Levels |-> IF i \in R THEN s.hd_active[i] ELSE s.cr_active[i]]

(* The task sched_pick returns; Idle if every queue is empty.              *)
Picked(s) ==
    LET t == RewoundCursors(s)[PickLevel(s)] IN IF t = 0 THEN Idle ELSE t

(* Faulty: the cursor does not move on.                                    *)
sched_pick_stuck(s, curr) ==
    LET i == PickLevel(s)
        t == Picked(s)
    IN  IF t = Idle
        THEN [s EXCEPT !.isr_next = Idle]
        ELSE [s EXCEPT !.cr_active = RewoundCursors(s),
                       !.isr_next = IF curr = t THEN @ ELSE t]

(* The state it leaves when called with curr mapped: isr_next changes only *)
(* if another task was picked.                                             *)
sched_pick(s, curr) ==
    LET i == PickLevel(s)
        t == Picked(s)
    IN  IF t = Idle
        THEN [s EXCEPT !.isr_next = Idle]
        ELSE [s EXCEPT !.cr_active = [RewoundCursors(s) EXCEPT ![i] = s.next[t]],
                       !.isr_next = IF curr = t THEN @ ELSE t]

(***************************************************************************)
(* The timer queue                                                         *)
(***************************************************************************)

(* (sec, ns) is strictly before the alarm of x.                            *)
Before(s, sec, ns, x) ==
    \/ sec < s.alarmsec[x]
    \/ sec = s.alarmsec[x] /\ ns < s.alarmns[x]

(* The tasks the insertion loop visits, from the head on, 0 past the end.  *)
(* When it makes more steps than there are tasks it never ends.            *)
Visit(s) == Chain(s.alarm, s.hd_timerq)

(* The steps at which the loop stops: a task due later, or the last one.   *)
Stops(s, sec, ns) ==
    {n \in 0..Cardinality(Task) :
        LET x == Visit(s)[n]
        IN  x # 0 /\ (Before(s, sec, ns, x) \/ s.alarm[x] = 0)}

(* Faulty: the task before t is not linked to it.                          *)
TimerqInsert_unlinked(s, t, sec, ns) ==
    IF s.hd_timerq = 0 \/ Before(s, sec, ns, s.hd_timerq)
    THEN [s EXCEPT !.alarm[t] = s.hd_timerq, !.hd_timerq = t]
    ELSE LET x == Visit(s)[Highest(Stops(s, sec, ns))]
         IN  IF Before(s, sec, ns, x)
             THEN [s EXCEPT !.alarm[t] = x]
             ELSE [s EXCEPT !.alarm[x] = t]

(* Insert t, whose alarm is already (sec, ns).  The last task of the queue *)
(* is linked to t but t's own link is left alone.                          *)
TimerqInsert(s, t, sec, ns) ==
    IF s.hd_timerq = 0 \/ Before(s, sec, ns, s.hd_timerq)
    THEN [s EXCEPT !.alarm[t] = s.hd_timerq, !.hd_timerq = t]
    ELSE LET n == Highest(Stops(s, sec, ns))
             x == Visit(s)[n]
         IN  IF Before(s, sec, ns, x)
             THEN [s EXCEPT !.alarm = [Relink(s.alarm, IF n = 0 THEN 0 ELSE Visit(s)[n-1], t)
                                          EXCEPT ![t] = x]]
             ELSE [s EXCEPT !.alarm[x] = t]

(* sched_alarm with ticks[TICKS_TS] = 0 (alarmsec is relative to it) and   *)
(* ticks[TICKS_NTS] = nts.  A time in the past only keeps the task awake.  *)
AlarmPast(sec, ns, nts) == 0 > sec \/ (sec = 0 /\ nts > ns)

AlarmSet(s, t, sec, ns) ==
    [sched_block(s, t) EXCEPT !.alarmsec[t] = sec, !.alarmns[t] = ns]

sched_alarm(s, t, sec, ns, nts) ==
    IF AlarmPast(sec, ns, nts)
    THEN sched_awake(s, t)
    ELSE TimerqInsert(AlarmSet(s, t, sec, ns), t, sec, ns)

(* Does that call return?  The loop runs forever round a cyclic queue.     *)
AlarmReturns(s, t, sec, ns, nts) ==
    LET r == AlarmSet(s, t, sec, ns)
    IN  \/ AlarmPast(sec, ns, nts)
        \/ r.hd_timerq # 0 => Before(r, sec, ns, r.hd_timerq) \/ Stops(r, sec, ns) # {}

(* A second has passed: alarmsec is relative to ticks[TICKS_TS].  Alarms   *)
(* of a second that is over are all just overdue: none of them is compared *)
(* with another any more.                                                  *)
NextSecond(r) ==
    [r EXCEPT !.alarmsec = [t \in Task |-> IF @[t] < 0 THEN @[t] ELSE @[t] - 1],
              !.alarmns  = [t \in Task |-> IF r.alarmsec[t] <= 0 THEN 0 ELSE @[t]]]

(* Faulty: an alarm of an earlier second is never due.                     *)
AlarmDue_exact(r, n) ==
    /\ r.hd_timerq # 0
    /\ r.alarmsec[r.hd_timerq] = 0 /\ r.alarmns[r.hd_timerq] <= n

(* The head of the timer queue is due at n steps into the second.          *)
AlarmDue(r, n) ==
    /\ r.hd_timerq # 0
    /\ \/ r.alarmsec[r.hd_timerq] < 0
       \/ r.alarmsec[r.hd_timerq] = 0 /\ r.alarmns[r.hd_timerq] <= n

(* Faulty: the task is marked as running but not put into a queue.         *)
AlarmAwake_unqueued(r) ==
    LET t == r.hd_timerq
    IN  [r EXCEPT !.state[t] = "running", !.isr_next = t,
                  !.hd_timerq = r.alarm[t], !.alarm[t] = 0]

(* It is awaken and leaves the queue.                                      *)
AlarmAwake(r) ==
    LET t == r.hd_timerq
    IN  [sched_awake(r, t) EXCEPT !.hd_timerq = r.alarm[t], !.alarm[t] = 0]

(***************************************************************************)
(* What makes a scheduler state sound                                      *)
(***************************************************************************)
Running(s) == {t \in Task : s.state[t] = "running"}
Blocked(s) == {t \in Task : s.state[t] = "blocked"}
Queue(s, i) == {t \in Running(s) : Priority[t] = i}

SameQueue(s, x, y) ==
    /\ s.state[x] = s.state[y]
    /\ s.state[x] = "running" => Priority[x] = Priority[y]

HeadOf(s, t) ==
    IF s.state[t] = "running" THEN s.hd_active[Priority[t]] ELSE s.hd_blocked

(* The links are locally sound: prev mirrors next, links stay inside one   *)
(* queue, exactly the heads have no predecessor, and the heads and the     *)
(* cursor of a queue are tasks of that queue.                              *)
LinksSound(s) ==
    /\ \A t \in Task :
        /\ s.state[t] = "none" => s.next[t] = 0 /\ s.prev[t] = 0
        /\ s.next[t] # 0 => s.prev[s.next[t]] = t /\ SameQueue(s, t, s.next[t])
        /\ s.prev[t] # 0 => s.next[s.prev[t]] = t
        /\ s.state[t] # "none" => (s.prev[t] = 0 <=> HeadOf(s, t) = t)
    /\ \A i \in Levels :
        /\ s.hd_active[i] \in Queue(s, i) \cup {0}
        /\ s.cr_active[i] \in Queue(s, i) \cup {0}
    /\ s.hd_blocked \in Blocked(s) \cup {0}

(* The chain from h ends, and holds the tasks of S and no others.          *)
Holds(link, h, S) ==
    LET c == Chain(link, h)
    IN  /\ c[Cardinality(Task)] = 0
        /\ {c[n] : n \in DOMAIN c} \ {0} = S

(* Following the links, each queue ends and holds exactly its tasks: no    *)
(* task is lost from the queues, in two of them or round a cycle.          *)
QueuesHold(s) ==
    /\ \A i \in Levels : Holds(s.next, s.hd_active[i], Queue(s, i))
    /\ Holds(s.next, s.hd_blocked, Blocked(s))
=============================================================================
