------------------------------ MODULE PickOrder ------------------------------
(***************************************************************************)
(* The order in which sched_pick gives out time slices, while tasks block  *)
(* and are awaken in between.                                              *)
(***************************************************************************)
EXTENDS Sched

VARIABLES
    s,          \* the scheduler's state, see Sched.tla
    turn,       \* the task picked last, 0 before the first slice
    passed      \* by task: tasks picked since it was, or not ready meanwhile;
                \* all tasks once it has not been ready itself

vars == <<s, turn, passed>>

Init ==
    /\ s = SchedInit
    /\ turn = 0
    /\ passed = [t \in Task |-> Task]

Load(t) ==
    /\ s.state[t] = "none"
    /\ s' = task_load(s, t)
    /\ UNCHANGED <<turn, passed>>

(* A task blocks in SYS_recv, or is awaken by a message.                   *)
Block(t) ==
    /\ s.state[t] = "running"
    /\ s' = sched_block(s, t)
    /\ passed' = [u \in Task |-> IF u = t THEN Task ELSE passed[u] \cup {t}]
    /\ UNCHANGED turn

Awake(t) ==
    /\ s.state[t] = "blocked"
    /\ s' = [sched_awake(s, t) EXCEPT !.isr_next = 0]
    /\ UNCHANGED <<turn, passed>>

(* A time slice is over.                                                   *)
Pick ==
    \E t \in {Picked(s)} :
        /\ turn' = t
        /\ s' = [sched_pick(s, turn) EXCEPT !.isr_next = 0]
        /\ passed' = [u \in Task |-> IF u = t THEN Task \ Running(s)
                                     ELSE passed[u] \cup ({t} \cap Task)]

Next == Pick \/ \E t \in Task : Load(t) \/ Block(t) \/ Awake(t)

Spec == Init /\ [][Next]_vars

(* Slices keep being given out.                                            *)
FairSpec == Spec /\ WF_vars(Pick)

(***************************************************************************)
(* Correctness                                                             *)
(***************************************************************************)

(* "Within a given priority level the task is choosen in round-rubin       *)
(* style": of two tasks of a level that stay ready neither gets two slices *)
(* in a row, although sched_add puts the tasks that are awaken meanwhile   *)
(* in front of them and sched_remove moves the cursor of sched_pick.       *)
RoundRobin ==
    turn' \in Task =>
        Queue(s, Priority[turn']) \subseteq passed[turn'] \cup {turn'}

(* "no task will starve ever": above the idle level every task gets slices *)
(* as long as it is ready, however the others come and go.                 *)
NeverStarves ==
    \A t \in Task : Priority[t] < PRI_IDLE => []<>(turn = t \/ t \notin Running(s))

(* "This level is only scheduled when there're no other runnable           *)
(* (non-blocked) tasks at higher priority levels", PRI_IDLE, and the idle  *)
(* task when that is empty too: no slice is wasted.                        *)
IdleLevelLast ==
    \A t \in Running(s) :
        turn' # Idle /\ (Priority[turn'] = PRI_IDLE => Priority[t] = PRI_IDLE)

(* What docs/scheduler.md and the comment of sched_pick say of every       *)
(* choice: round robin within a level, the idle level last.                *)
SlicesFair == [][Pick => RoundRobin /\ IdleLevelLast]_vars
=============================================================================
