----------------------------- MODULE TimerQueue -----------------------------
(***************************************************************************)
(* The timer queue on its own: SYS_alarm puts tasks into it (sched_alarm), *)
(* the timer interrupt takes them out (isr_timer).  Tasks are either       *)
(* asleep or free to sleep; each one waits for its sleep to be over before *)
(* it makes another call.  left counts the ticks that each sleep still has *)
(* to last by what its caller asked for.                                   *)
(***************************************************************************)
EXTENDS Sched

CONSTANTS
    tmrfreq,        \* timer interrupts per second
    MaxSec          \* longest sleep, in whole seconds

ASSUME TimerAssumption == tmrfreq \in Nat \ {0} /\ MaxSec \in Nat

VARIABLES
    s,              \* the scheduler's state, see Sched.tla
    nts,            \* ticks[TICKS_NTS], in units of alarmstep
    seccnt,         \* timer interrupts left of the second
    left            \* ticks the sleep of each task has left, 0 if awake

vars == <<s, nts, seccnt, left>>

(* The first timer interrupt has started the clock at a whole second.      *)
Init ==
    /\ s = SchedInit
    /\ nts = 0
    /\ seccnt = tmrfreq
    /\ left = [t \in Task |-> 0]

Load(t) ==
    /\ s.state[t] = "none"
    /\ s' = task_load(s, t)
    /\ UNCHANGED <<nts, seccnt, left>>

(* SYS_alarm for sec seconds and n alarmsteps; no time at all is made one  *)
(* step by isr_syscall.                                                    *)
Alarm(t, sec, n) ==
    LET ns == nts + (IF sec = 0 /\ n = 0 THEN 1 ELSE n)
    IN  /\ s.state[t] = "running"
        /\ AlarmReturns(s, t, sec, ns, nts)
        /\ s' = sched_alarm(s, t, sec, ns, nts)
        /\ left' = [left EXCEPT ![t] = sec * tmrfreq + n]
        /\ UNCHANGED <<nts, seccnt>>

(* Lateness is counted up to the number of tasks.                          *)
Less(k) == IF k = -Cardinality(Task) THEN k ELSE k - 1

(* isr_timer while a preemptible task runs: the clock, then the head of    *)
(* the timer queue.                                                        *)
Tick ==
    LET second == seccnt = 1
        n == IF second THEN 0 ELSE nts + 1
        r == IF second THEN NextSecond(s) ELSE s
    IN  /\ nts' = n
        /\ seccnt' = IF second THEN tmrfreq ELSE seccnt - 1
        /\ s' = IF AlarmDue(r, n) THEN AlarmAwake(r) ELSE r
        /\ left' = [t \in Task |-> IF s'.state[t] = "blocked" THEN Less(left[t]) ELSE 0]

Next ==
    \/ \E t \in Task : Load(t)
    \/ \E t \in Task, sec \in 0..MaxSec, n \in 0..(tmrfreq - 1) : Alarm(t, sec, n)
    \/ Tick

Spec == Init /\ [][Next]_vars

(* The timer never stops.                                                  *)
FairSpec == Spec /\ WF_vars(Tick)

(***************************************************************************)
(* Correctness                                                             *)
(***************************************************************************)

(* Every variable stays in its range.                                      *)
TypeOK ==
    /\ s \in SchedState
    /\ nts \in 0..(tmrfreq - 1)
    /\ seccnt \in 1..tmrfreq
    /\ left \in [Task -> Int]

(* The timer queue ends and holds exactly the sleeping tasks, in the order *)
(* of their alarms; a task outside it has no stale alarm link, which the   *)
(* insertion at the end of the queue in sched_alarm relies on.             *)
TimerqSound ==
    /\ Holds(s.alarm, s.hd_timerq, Blocked(s))
    /\ \A t \in Task : s.alarm[t] # 0 =>
        /\ t \in Blocked(s)
        /\ ~Before(s, s.alarmsec[s.alarm[t]], s.alarmns[s.alarm[t]], t)

(* The insertion loop of sched_alarm, which walks the timer queue with     *)
(* interrupts disabled, ends whenever a running task calls it.             *)
AlarmEnds ==
    \A t \in Running(s), sec \in 0..MaxSec, n \in 1..tmrfreq :
        AlarmReturns(s, t, sec, nts + n, nts)

(* isr_timer awakes one task per tick, so sleepers that are due together   *)
(* are late, but by less than one tick for each other task.                *)
BoundedLateness ==
    \A t \in Blocked(s) : left[t] > -Cardinality(Task)

(* The timer queue is what sched_alarm and isr_timer take it for: sorted   *)
(* and whole, so that every insertion ends and nobody wakes much too late. *)
AlarmsSound == TypeOK /\ TimerqSound /\ AlarmEnds /\ BoundedLateness

(* Every sleep ends, although isr_timer looks only at the head of the      *)
(* queue and awakes one task at a time.                                    *)
SleepEnds ==
    \A t \in Task : s.state[t] = "blocked" ~> s.state[t] = "running"
=============================================================================
