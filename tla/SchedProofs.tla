---------------------------- MODULE SchedProofs ----------------------------
(***************************************************************************)
(* The queue operations of sched.c keep the scheduler state sound, for any *)
(* number of tasks and any priorities.  Local soundness of the links       *)
(* (LinksSound) is not preserved by itself: unlinking a task from a cycle  *)
(* of two would link a task to itself.  So the lemmas carry a ranking of   *)
(* the tasks that grows along the links, which rules cycles out.           *)
(***************************************************************************)
EXTENDS Sched, FiniteSetTheorems, WellFoundedInduction, TLAPS

(* There is no cycle: some ranking of the tasks grows along every link.    *)
Ranked(s) ==
    \E rank \in [Task -> Nat] :
        \A t \in Task : s.next[t] # 0 => rank[t] < rank[s.next[t]]

(* What the queue operations preserve.                                      *)
Sound(s) == s \in SchedState /\ LinksSound(s) /\ Ranked(s)

(* What sound links say of one task: its neighbours are tasks of its queue *)
(* and link back to it.                                                    *)
LEMMA LinksAt ==
    ASSUME NEW s \in SchedState, LinksSound(s), NEW x \in Task
    PROVE  /\ s.next[x] \in Pid /\ s.prev[x] \in Pid
           /\ s.state[x] \in {"none", "running", "blocked"} /\ Priority[x] \in Levels
           /\ s.state[x] = "none" => s.next[x] = 0 /\ s.prev[x] = 0
           /\ s.next[x] # 0 => /\ s.next[x] \in Task /\ s.prev[s.next[x]] = x
                               /\ s.state[s.next[x]] = s.state[x]
                               /\ s.state[x] = "running" => Priority[s.next[x]] = Priority[x]
           /\ s.prev[x] # 0 => /\ s.prev[x] \in Task /\ s.next[s.prev[x]] = x
                               /\ s.state[s.prev[x]] = s.state[x]
           /\ s.state[x] # "none" => (s.prev[x] = 0 <=> HeadOf(s, x) = x)
<1>1. /\ s.next \in [Task -> Pid] /\ s.prev \in [Task -> Pid]
      /\ s.state \in [Task -> {"none", "running", "blocked"}] /\ Priority[x] \in Levels
  BY PriorityAssumption DEF SchedState
<1>2. ASSUME NEW y \in Task
      PROVE  /\ s.state[y] = "none" => s.next[y] = 0 /\ s.prev[y] = 0
             /\ s.next[y] # 0 => s.prev[s.next[y]] = y /\ SameQueue(s, y, s.next[y])
             /\ s.prev[y] # 0 => s.next[s.prev[y]] = y
             /\ s.state[y] # "none" => (s.prev[y] = 0 <=> HeadOf(s, y) = y)
  BY DEF LinksSound
<1>3. s.next[x] # 0 => s.next[x] \in Task
  BY <1>1 DEF Pid
<1>4. s.prev[x] # 0 => s.prev[x] \in Task
  BY <1>1 DEF Pid
<1>5. s.prev[x] # 0 => SameQueue(s, s.prev[x], x)
  BY <1>2, <1>4, TaskAssumption
<1> QED
  BY <1>1, <1>2, <1>3, <1>4, <1>5 DEF SameQueue

(* What they say of the heads: a head is a task of its queue that has no   *)
(* predecessor, and so is the cursor but for the predecessor.              *)
LEMMA HeadsAt ==
    ASSUME NEW s \in SchedState, LinksSound(s), NEW i \in Levels
    PROVE  /\ s.hd_active[i] # 0 => /\ s.hd_active[i] \in Task
                                    /\ s.state[s.hd_active[i]] = "running"
                                    /\ Priority[s.hd_active[i]] = i
                                    /\ s.prev[s.hd_active[i]] = 0
           /\ s.cr_active[i] # 0 => /\ s.cr_active[i] \in Task
                                    /\ s.state[s.cr_active[i]] = "running"
                                    /\ Priority[s.cr_active[i]] = i
           /\ s.hd_blocked # 0 => /\ s.hd_blocked \in Task
                                  /\ s.state[s.hd_blocked] = "blocked"
                                  /\ s.prev[s.hd_blocked] = 0
<1>1. /\ s.hd_active[i] \in Queue(s, i) \cup {0}
      /\ s.cr_active[i] \in Queue(s, i) \cup {0}
      /\ s.hd_blocked \in Blocked(s) \cup {0}
  BY DEF LinksSound
<1>2. s.hd_active[i] # 0 => /\ s.hd_active[i] \in Task
                           /\ s.state[s.hd_active[i]] = "running"
                           /\ Priority[s.hd_active[i]] = i
  BY <1>1 DEF Queue, Running
<1>3. s.hd_active[i] # 0 => s.prev[s.hd_active[i]] = 0
  BY <1>2, LinksAt DEF HeadOf
<1>4. s.hd_blocked # 0 => s.hd_blocked \in Task /\ s.state[s.hd_blocked] = "blocked"
  BY <1>1 DEF Blocked
<1>5. s.hd_blocked # 0 => s.prev[s.hd_blocked] = 0
  BY <1>4, LinksAt DEF HeadOf
<1>6. s.cr_active[i] # 0 => /\ s.cr_active[i] \in Task
                           /\ s.state[s.cr_active[i]] = "running"
                           /\ Priority[s.cr_active[i]] = i
  BY <1>1 DEF Queue, Running
<1> QED
  BY <1>2, <1>3, <1>4, <1>5, <1>6

(* What sched_block does to each field; it unlinks the task (sched_remove) *)
(* and puts it at the head of the blocked queue.                           *)
LEMMA BlockFields ==
    ASSUME NEW s \in SchedState, NEW t \in Task
    PROVE  /\ sched_block(s, t) \in SchedState
           /\ \A x \in Task : sched_block(s, t).state[x] = IF x = t THEN "blocked" ELSE s.state[x]
           /\ \A i \in Levels : sched_block(s, t).hd_active[i] =
                IF i = Priority[t] /\ s.hd_active[i] = t THEN s.next[t] ELSE s.hd_active[i]
           /\ \A i \in Levels : sched_block(s, t).cr_active[i] =
                IF i = Priority[t] /\ s.cr_active[i] = t THEN s.next[t] ELSE s.cr_active[i]
           /\ sched_block(s, t).hd_blocked = t
           /\ sched_block(s, t).isr_next = s.isr_next
           /\ sched_block(s, t).hd_timerq = s.hd_timerq
           /\ \A x \in Task : sched_block(s, t).next[x] =
                IF x = t THEN s.hd_blocked
                ELSE IF x = s.prev[t] THEN s.next[t] ELSE s.next[x]
           /\ \A x \in Task : sched_block(s, t).prev[x] =
                IF x = t THEN 0 ELSE IF x = s.hd_blocked THEN t
                ELSE IF x = s.next[t] THEN s.prev[t] ELSE s.prev[x]
<1> DEFINE r == sched_remove(s, t)
           n == s.next[t]
           p == s.prev[t]
           h == s.hd_blocked
<1>1. /\ n \in Pid /\ p \in Pid /\ h \in Pid /\ Priority[t] \in Levels
      /\ s.next \in [Task -> Pid] /\ s.prev \in [Task -> Pid]
  BY PriorityAssumption DEF SchedState, Pid
<1>2. /\ r.state = s.state
      /\ r.hd_active = [s.hd_active EXCEPT ![Priority[t]] = Advance(@, t, n)]
      /\ r.cr_active = [s.cr_active EXCEPT ![Priority[t]] = Advance(@, t, n)]
      /\ r.hd_blocked = h
      /\ r.isr_next = s.isr_next
      /\ r.hd_timerq = s.hd_timerq
      /\ r.next = Relink([s.next EXCEPT ![t] = 0], p, n)
      /\ r.prev = Relink([s.prev EXCEPT ![t] = 0], n, p)
      /\ r \in SchedState
  <2>1. PICK ha : ha = [s.hd_active EXCEPT ![Priority[t]] = Advance(@, t, n)]
    BY Zenon
  <2>2. PICK ca : ca = [s.cr_active EXCEPT ![Priority[t]] = Advance(@, t, n)]
    BY Zenon
  <2>3. PICK nx : nx = Relink([s.next EXCEPT ![t] = 0], p, n)
    OBVIOUS
  <2>4. PICK pv : pv = Relink([s.prev EXCEPT ![t] = 0], n, p)
    OBVIOUS
  <2>5. r = [s EXCEPT !.hd_active = ha, !.cr_active = ca, !.next = nx, !.prev = pv]
    BY <2>1, <2>2, <2>3, <2>4 DEF sched_remove
  <2>6. ha \in [Levels -> Pid] /\ ca \in [Levels -> Pid]
    BY <1>1, <2>1, <2>2 DEF Advance, SchedState
  <2>7. nx \in [Task -> Pid]
    BY <1>1, <2>3 DEF Relink, Pid
  <2>8. pv \in [Task -> Pid]
    BY <1>1, <2>4 DEF Relink, Pid
  <2> HIDE DEF r
  <2>9. /\ r.state = s.state /\ r.hd_active = ha /\ r.cr_active = ca /\ r.hd_blocked = h
        /\ r.isr_next = s.isr_next /\ r.hd_timerq = s.hd_timerq /\ r.next = nx /\ r.prev = pv
    BY <2>5 DEF SchedState
  <2>10. r \in SchedState
    BY <2>5, <2>6, <2>7, <2>8, Zenon DEF SchedState
  <2> QED BY <2>1, <2>2, <2>3, <2>4, <2>9, <2>10
<1> DEFINE b == sched_block(s, t)
<1>3. /\ b.state = [s.state EXCEPT ![t] = "blocked"]
      /\ b.hd_active = r.hd_active
      /\ b.cr_active = r.cr_active
      /\ b.hd_blocked = t
      /\ b.isr_next = s.isr_next
      /\ b.hd_timerq = s.hd_timerq
      /\ b.next = [r.next EXCEPT ![t] = h]
      /\ b.prev = [Relink(r.prev, h, t) EXCEPT ![t] = 0]
  BY <1>2 DEF sched_block, SchedState
<1>4. r.next \in [Task -> Pid] /\ r.prev \in [Task -> Pid] /\ Relink(r.prev, h, t) \in [Task -> Pid]
  BY <1>1, <1>2, SMTT(30) DEF SchedState, Relink, Pid
<1>5. b \in SchedState
  BY <1>1, <1>2, <1>4, Zenon DEF sched_block, SchedState, Pid
<1>6. \A x \in Task : b.next[x] = IF x = t THEN h ELSE IF x = p THEN n ELSE s.next[x]
  BY <1>1, <1>2, <1>3, <1>4, TaskAssumption DEF Relink, Pid
<1>7. \A x \in Task : b.prev[x] = IF x = t THEN 0 ELSE IF x = h THEN t ELSE IF x = n THEN p ELSE s.prev[x]
  BY <1>1, <1>2, <1>3, <1>4, TaskAssumption DEF Relink, Pid
<1>8. /\ \A x \in Task : b.state[x] = IF x = t THEN "blocked" ELSE s.state[x]
      /\ \A i \in Levels : b.hd_active[i] = IF i = Priority[t] /\ s.hd_active[i] = t THEN n ELSE s.hd_active[i]
      /\ \A i \in Levels : b.cr_active[i] = IF i = Priority[t] /\ s.cr_active[i] = t THEN n ELSE s.cr_active[i]
  BY <1>2, <1>3 DEF Advance, SchedState
<1> QED
  BY <1>3, <1>5, <1>6, <1>7, <1>8

(* sched_block keeps the queues sound when the task was running.           *)
LEMMA BlockSound ==
    ASSUME NEW s, NEW t \in Task, Sound(s), s.state[t] = "running"
    PROVE  Sound(sched_block(s, t))
<1> DEFINE n == s.next[t]
           p == s.prev[t]
           h == s.hd_blocked
           b == sched_block(s, t)
<1>1. /\ s \in SchedState /\ LinksSound(s) /\ Ranked(s)
      /\ n \in Pid /\ p \in Pid /\ h \in Pid
      /\ s.state \in [Task -> {"none", "running", "blocked"}]
      /\ s.next \in [Task -> Pid] /\ s.prev \in [Task -> Pid]
      /\ s.hd_active \in [Levels -> Pid] /\ s.cr_active \in [Levels -> Pid]
      /\ \A x \in Task : Priority[x] \in Levels
  BY PriorityAssumption DEF Sound, SchedState
<1>2. PICK rank \in [Task -> Nat] : \A x \in Task : s.next[x] # 0 => rank[x] < rank[s.next[x]]
  BY <1>1 DEF Ranked
<1>3. \A x \in Task : s.next[x] # x /\ (s.next[x] # 0 => s.next[s.next[x]] # x)
  BY <1>1, <1>2, TaskAssumption DEF Pid
<1>4. /\ b \in SchedState
      /\ \A x \in Task : b.state[x] = IF x = t THEN "blocked" ELSE s.state[x]
      /\ \A i \in Levels : b.hd_active[i] = IF i = Priority[t] /\ s.hd_active[i] = t THEN n ELSE s.hd_active[i]
      /\ \A i \in Levels : b.cr_active[i] = IF i = Priority[t] /\ s.cr_active[i] = t THEN n ELSE s.cr_active[i]
      /\ b.hd_blocked = t
      /\ \A x \in Task : b.next[x] = IF x = t THEN h ELSE IF x = p THEN n ELSE s.next[x]
      /\ \A x \in Task : b.prev[x] = IF x = t THEN 0 ELSE IF x = h THEN t ELSE IF x = n THEN p ELSE s.prev[x]
  BY <1>1, BlockFields
<1>5. /\ n # t /\ p # t /\ h # t
      /\ h # 0 => h \in Task /\ s.state[h] = "blocked" /\ s.prev[h] = 0
      /\ n # 0 => n \in Task /\ s.state[n] = "running" /\ Priority[n] = Priority[t] /\ s.prev[n] = t
      /\ p # 0 => p \in Task /\ s.state[p] = "running" /\ Priority[p] = Priority[t] /\ s.next[p] = t
      /\ p = 0 <=> s.hd_active[Priority[t]] = t
  BY <1>1, <1>3, TaskAssumption DEF LinksSound, SameQueue, HeadOf, Blocked, Pid
<1>6. Ranked(b)
  <2> DEFINE rk == [x \in Task |-> IF x = t THEN 0 ELSE rank[x] + 1]
  <2>2. rk \in [Task -> Nat]
    BY <1>2
  <2>3. \A x \in Task : b.next[x] # 0 => rk[x] < rk[b.next[x]]
    <3> SUFFICES ASSUME NEW x \in Task, b.next[x] # 0
                 PROVE  rk[x] < rk[b.next[x]]
      OBVIOUS
    <3>1. CASE x = t
      BY <3>1, <1>2, <1>4, <1>5
    <3>2. CASE x # t /\ x = p
      <4>1. b.next[x] = n /\ n # 0 /\ rank[p] < rank[t] /\ rank[t] < rank[n]
        BY <3>2, <1>2, <1>4, <1>5, TaskAssumption
      <4> QED BY <3>2, <4>1, <1>2, <1>5
    <3>3. CASE x # t /\ x # p
      <4>1. b.next[x] = s.next[x] /\ s.next[x] # t /\ s.next[x] \in Task
        BY <3>3, <1>1, <1>4, <1>5 DEF LinksSound, Pid
      <4> QED BY <3>3, <4>1, <1>2
    <3> QED BY <3>1, <3>2, <3>3
  <2> QED BY <2>2, <2>3, Zenon DEF Ranked
<1>7. ASSUME NEW x \in Task
      PROVE  /\ b.state[x] = "none" => b.next[x] = 0 /\ b.prev[x] = 0
             /\ b.next[x] # 0 => b.prev[b.next[x]] = x /\ SameQueue(b, x, b.next[x])
             /\ b.prev[x] # 0 => b.next[b.prev[x]] = x
             /\ b.state[x] # "none" => (b.prev[x] = 0 <=> HeadOf(b, x) = x)
  <2>1. b.state[x] = "none" => b.next[x] = 0 /\ b.prev[x] = 0
    BY <1>1, <1>4, <1>5, TaskAssumption, SMTT(30) DEF LinksSound
  <2>2. b.next[x] # 0 => b.prev[b.next[x]] = x /\ SameQueue(b, x, b.next[x])
    BY <1>1, <1>3, <1>4, <1>5, TaskAssumption DEF LinksSound, SameQueue, Pid
  <2>3. b.prev[x] # 0 => b.next[b.prev[x]] = x
    BY <1>1, <1>3, <1>4, <1>5, TaskAssumption, SMTT(30) DEF LinksSound, Pid
  <2>4. b.state[x] # "none" => (b.prev[x] = 0 <=> HeadOf(b, x) = x)
    BY <1>1, <1>3, <1>4, <1>5, TaskAssumption, SMTT(30) DEF LinksSound, HeadOf, Advance, Pid
  <2> QED BY <2>1, <2>2, <2>3, <2>4
<1>8. ASSUME NEW i \in Levels
      PROVE  /\ b.hd_active[i] \in Queue(b, i) \cup {0}
             /\ b.cr_active[i] \in Queue(b, i) \cup {0}
  BY <1>1, <1>4, <1>5 DEF LinksSound, Queue, Running, Advance
<1>9. b.hd_blocked \in Blocked(b) \cup {0}
  BY <1>1, <1>4 DEF Blocked
<1> QED
  BY <1>4, <1>6, <1>7, <1>8, <1>9 DEF Sound, LinksSound

(* A non-empty set of naturals has a least element.                        *)
LEMMA NatMin ==
    ASSUME NEW T, T \subseteq Nat, T # {}
    PROVE  \E x \in T : \A y \in T : x <= y
<1> DEFINE R == OpToRel(<, Nat)
<1>1. \A x, y \in Nat : <<x, y>> \in R <=> x < y
  BY DEF OpToRel
<1>2. IsWellFoundedOn(R, Nat)
  BY NatLessThanWellFounded
<1> HIDE DEF R
<1>3. PICK x \in T : \A y \in T : ~(<<y, x>> \in R)
  BY <1>2, WFMin, Zenon
<1>4. \A y \in T : ~(y < x)
  BY <1>1, <1>3, Zenon
<1>5. \A y \in T : x <= y
  BY <1>4
<1> QED
  BY <1>5

(* A queue with a task in it has a head: following prev from any task ends,*)
(* because the rank decreases, and only the head has no predecessor.       *)
LEMMA HeadOfQueue ==
    ASSUME NEW s, Sound(s), NEW i \in Levels, Queue(s, i) # {}
    PROVE  s.hd_active[i] # 0
<1> SUFFICES ASSUME s.hd_active[i] = 0
             PROVE  FALSE
  OBVIOUS
<1>1. PICK rank \in [Task -> Nat] : \A x \in Task : s.next[x] # 0 => rank[x] < rank[s.next[x]]
  BY DEF Sound, Ranked
<1> DEFINE T == {rank[x] : x \in Queue(s, i)}
<1>2. T \subseteq Nat /\ T # {}
  BY <1>1 DEF Queue, Running
<1>3. PICK m \in T : \A y \in T : m <= y
  <2> HIDE DEF T
  <2> QED BY <1>2, NatMin
<1>4. PICK x \in Queue(s, i) : m = rank[x]
  BY <1>3
<1>5. x \in Task /\ s.state[x] = "running" /\ Priority[x] = i
  BY <1>4 DEF Queue, Running
<1>6. s.prev[x] # 0
  BY <1>5, TaskAssumption DEF Sound, LinksSound, HeadOf
<1>7. s.prev[x] \in Task /\ s.next[s.prev[x]] = x
  BY <1>5, <1>6 DEF Sound, SchedState, LinksSound, Pid
<1>8. s.prev[x] \in Queue(s, i)
  BY <1>5, <1>7, TaskAssumption DEF Sound, LinksSound, SameQueue, Queue, Running
<1>9. rank[s.prev[x]] < rank[x]
  BY <1>1, <1>5, <1>7, TaskAssumption
<1> QED
  BY <1>1, <1>3, <1>4, <1>5, <1>7, <1>8, <1>9, SMTT(30)

(* What task_new and sched_add do to each field.                           *)
LEMMA LoadFields ==
    ASSUME NEW s \in SchedState, NEW t \in Task
    PROVE  /\ task_load(s, t) \in SchedState
           /\ \A x \in Task : task_load(s, t).state[x] = IF x = t THEN "running" ELSE s.state[x]
           /\ \A i \in Levels : task_load(s, t).hd_active[i] =
                IF i = Priority[t] THEN t ELSE s.hd_active[i]
           /\ task_load(s, t).cr_active = s.cr_active
           /\ task_load(s, t).hd_blocked = s.hd_blocked
           /\ task_load(s, t).isr_next = s.isr_next
           /\ task_load(s, t).hd_timerq = s.hd_timerq
           /\ \A x \in Task : task_load(s, t).next[x] =
                IF x = t THEN s.hd_active[Priority[t]] ELSE s.next[x]
           /\ \A x \in Task : task_load(s, t).prev[x] =
                IF x = s.hd_active[Priority[t]] THEN t ELSE IF x = t THEN 0 ELSE s.prev[x]
<1> DEFINE h == s.hd_active[Priority[t]]
           a == task_load(s, t)
<1>1. h \in Pid /\ Priority[t] \in Levels
  BY PriorityAssumption DEF SchedState
<1>2. /\ a.state = [s.state EXCEPT ![t] = "running"]
      /\ a.hd_active = [s.hd_active EXCEPT ![Priority[t]] = t]
      /\ a.cr_active = s.cr_active
      /\ a.hd_blocked = s.hd_blocked
      /\ a.isr_next = s.isr_next
      /\ a.hd_timerq = s.hd_timerq
      /\ a.next = [s.next EXCEPT ![t] = h]
      /\ a.prev = Relink([s.prev EXCEPT ![t] = 0], h, t)
  BY DEF task_load, sched_add, SchedState
<1>3. Relink([s.prev EXCEPT ![t] = 0], h, t) \in [Task -> Pid]
  BY <1>1 DEF SchedState, Relink, Pid
<1>4. a \in SchedState
  BY <1>1, <1>3, Zenon DEF task_load, sched_add, SchedState, Pid
<1>5. \A x \in Task : a.prev[x] = IF x = h THEN t ELSE IF x = t THEN 0 ELSE s.prev[x]
  BY <1>1, <1>2, TaskAssumption DEF SchedState, Relink, Pid
<1>6. /\ \A x \in Task : a.state[x] = IF x = t THEN "running" ELSE s.state[x]
      /\ \A i \in Levels : a.hd_active[i] = IF i = Priority[t] THEN t ELSE s.hd_active[i]
      /\ \A x \in Task : a.next[x] = IF x = t THEN h ELSE s.next[x]
  BY <1>1, <1>2, SMTT(30) DEF SchedState
<1> QED
  BY <1>2, <1>4, <1>5, <1>6

(* sched_add keeps the queues sound when the task is new.                  *)
LEMMA LoadSound ==
    ASSUME NEW s, NEW t \in Task, Sound(s), s.state[t] = "none"
    PROVE  Sound(task_load(s, t))
<1> DEFINE h == s.hd_active[Priority[t]]
           a == task_load(s, t)
<1>1. /\ s \in SchedState /\ LinksSound(s) /\ Ranked(s)
      /\ h \in Pid
      /\ s.state \in [Task -> {"none", "running", "blocked"}]
      /\ s.next \in [Task -> Pid] /\ s.prev \in [Task -> Pid]
      /\ \A x \in Task : Priority[x] \in Levels
  BY PriorityAssumption DEF Sound, SchedState
<1>2. PICK rank \in [Task -> Nat] : \A x \in Task : s.next[x] # 0 => rank[x] < rank[s.next[x]]
  BY <1>1 DEF Ranked
<1>3. /\ a \in SchedState
      /\ \A x \in Task : a.state[x] = IF x = t THEN "running" ELSE s.state[x]
      /\ \A i \in Levels : a.hd_active[i] = IF i = Priority[t] THEN t ELSE s.hd_active[i]
      /\ a.cr_active = s.cr_active
      /\ a.hd_blocked = s.hd_blocked
      /\ \A x \in Task : a.next[x] = IF x = t THEN h ELSE s.next[x]
      /\ \A x \in Task : a.prev[x] = IF x = h THEN t ELSE IF x = t THEN 0 ELSE s.prev[x]
  BY <1>1, LoadFields
<1>4. /\ h # 0 => h \in Task /\ s.state[h] = "running" /\ Priority[h] = Priority[t] /\ s.prev[h] = 0
      /\ h # t /\ s.hd_blocked # t
      /\ s.next[t] = 0 /\ s.prev[t] = 0
      /\ \A x \in Task : s.next[x] # t /\ s.prev[x] # t
  BY <1>1, TaskAssumption DEF LinksSound, SameQueue, HeadOf, Queue, Running, Blocked, Pid
<1>5. Ranked(a)
  <2> DEFINE rk == [x \in Task |-> IF x = t THEN 0 ELSE rank[x] + 1]
  <2>1. rk \in [Task -> Nat]
    BY <1>2
  <2>2. \A x \in Task : a.next[x] # 0 => rk[x] < rk[a.next[x]]
    BY <1>1, <1>2, <1>3, <1>4, SMTT(30) DEF Pid
  <2> QED BY <2>1, <2>2, Zenon DEF Ranked
<1>6. ASSUME NEW x \in Task
      PROVE  /\ a.state[x] = "none" => a.next[x] = 0 /\ a.prev[x] = 0
             /\ a.next[x] # 0 => a.prev[a.next[x]] = x /\ SameQueue(a, x, a.next[x])
             /\ a.prev[x] # 0 => a.next[a.prev[x]] = x
             /\ a.state[x] # "none" => (a.prev[x] = 0 <=> HeadOf(a, x) = x)
  <2>1. /\ s.next[x] \in Pid /\ s.prev[x] \in Pid
        /\ s.state[x] = "none" => s.next[x] = 0 /\ s.prev[x] = 0
        /\ s.next[x] # 0 => /\ s.next[x] \in Task /\ s.prev[s.next[x]] = x
                            /\ s.state[s.next[x]] = s.state[x]
                            /\ s.state[x] = "running" => Priority[s.next[x]] = Priority[x]
        /\ s.prev[x] # 0 => s.prev[x] \in Task /\ s.next[s.prev[x]] = x
        /\ s.state[x] # "none" => (s.prev[x] = 0 <=> HeadOf(s, x) = x)
    BY <1>1, LinksAt
  <2>2. CASE x = t
    <3>1. a.next[x] = h /\ a.prev[x] = 0 /\ a.state[x] = "running" /\ HeadOf(a, x) = x
      BY <1>1, <1>3, <1>4, <2>2, SMTT(30) DEF HeadOf
    <3>2. h # 0 => a.prev[h] = x /\ a.state[h] = "running" /\ Priority[h] = Priority[x]
      BY <1>3, <1>4, <2>2
    <3> QED BY <3>1, <3>2, TaskAssumption DEF SameQueue
  <2>3. CASE x # t
    <3>1. a.next[x] = s.next[x] /\ a.state[x] = s.state[x]
      BY <1>3, <2>3
    <3>2. s.next[x] # 0 => a.prev[s.next[x]] = x /\ SameQueue(a, x, s.next[x])
      <4>1. s.next[x] # 0 => s.next[x] # h /\ s.next[x] # t
        BY <1>4, <2>1, TaskAssumption
      <4> QED BY <1>3, <2>1, <3>1, <4>1 DEF SameQueue
    <3>3. CASE x = h
      <4>1. a.prev[x] = t /\ a.next[t] = x /\ a.state[x] = "running" /\ HeadOf(a, x) = t
        BY <1>1, <1>3, <1>4, <2>3, <3>3, TaskAssumption, SMTT(30) DEF HeadOf
      <4> QED BY <2>3, <3>1, <3>2, <4>1, TaskAssumption, SMTT(30)
    <3>4. CASE x # h
      <4>1. a.prev[x] = s.prev[x] /\ (s.prev[x] # 0 => a.next[s.prev[x]] = x)
        BY <1>3, <1>4, <2>1, <2>3, <3>4, SMTT(30)
      <4>2. s.state[x] # "none" => (s.prev[x] = 0 <=> HeadOf(a, x) = x)
        BY <1>1, <1>3, <2>1, <2>3, <3>1, <3>4, SMTT(30) DEF HeadOf
      <4> QED BY <2>1, <3>1, <3>2, <4>1, <4>2, SMTT(30)
    <3> QED BY <3>3, <3>4
  <2> QED BY <2>2, <2>3
<1>7. ASSUME NEW i \in Levels
      PROVE  /\ a.hd_active[i] \in Queue(a, i) \cup {0}
             /\ a.cr_active[i] \in Queue(a, i) \cup {0}
  BY <1>1, <1>3 DEF LinksSound, Queue, Running
<1>8. a.hd_blocked \in Blocked(a) \cup {0}
  BY <1>1, <1>3, <1>4 DEF LinksSound, Blocked
<1> QED
  BY <1>3, <1>5, <1>6, <1>7, <1>8 DEF Sound, LinksSound

(* Soundness only depends on the links, the heads and the task states.     *)
LEMMA FrameSound ==
    ASSUME NEW s, Sound(s), NEW r \in SchedState,
           r.next = s.next, r.prev = s.prev, r.state = s.state,
           r.hd_active = s.hd_active, r.hd_blocked = s.hd_blocked,
           \A i \in Levels : r.cr_active[i] \in Queue(s, i) \cup {0}
    PROVE  Sound(r)
<1>1. Ranked(r)
  BY DEF Sound, Ranked
<1>2. \A i \in Levels : Queue(r, i) = Queue(s, i)
  BY DEF Queue, Running
<1>3. Blocked(r) = Blocked(s)
  BY DEF Blocked
<1>4. ASSUME NEW x \in Task, NEW y PROVE SameQueue(r, x, y) <=> SameQueue(s, x, y)
  BY DEF SameQueue
<1>5. ASSUME NEW x \in Task PROVE HeadOf(r, x) = HeadOf(s, x)
  BY DEF HeadOf
<1>6. LinksSound(r)
  BY <1>2, <1>3, <1>4, <1>5 DEF Sound, LinksSound
<1> QED
  BY <1>1, <1>6 DEF Sound

(* What sched_awake does to the fields that are not links.                 *)
LEMMA AwakeFields ==
    ASSUME NEW s \in SchedState, NEW t \in Task
    PROVE  /\ sched_awake(s, t) \in SchedState
           /\ \A x \in Task : sched_awake(s, t).state[x] = IF x = t THEN "running" ELSE s.state[x]
           /\ sched_awake(s, t).isr_next = t
           /\ sched_awake(s, t).hd_timerq = s.hd_timerq
<1> DEFINE n == s.next[t]
           p == s.prev[t]
           a == sched_add(s, t)
<1>1. Priority[t] \in Levels /\ n \in Pid /\ p \in Pid /\ s.hd_active[Priority[t]] \in Pid
  BY PriorityAssumption DEF SchedState
<1>2. a \in SchedState /\ a.state = s.state /\ a.hd_timerq = s.hd_timerq
  BY <1>1, Zenon DEF sched_add, SchedState, Relink, Pid
<1>3. Relink(a.next, p, n) \in [Task -> Pid] /\ Relink(a.prev, n, p) \in [Task -> Pid]
  BY <1>1, <1>2 DEF SchedState, Relink, Pid
<1> HIDE DEF a
<1> DEFINE w == sched_awake(s, t)
<1>0. ASSUME NEW r \in SchedState, r.state = s.state, r.hd_timerq = s.hd_timerq,
             w = [r EXCEPT !.state[t] = "running", !.isr_next = t]
      PROVE  /\ w \in SchedState
             /\ \A x \in Task : w.state[x] = IF x = t THEN "running" ELSE s.state[x]
             /\ w.isr_next = t
             /\ w.hd_timerq = s.hd_timerq
  <2> HIDE DEF w
  <2>1. w.state = [s.state EXCEPT ![t] = "running"] /\ w.isr_next = t /\ w.hd_timerq = s.hd_timerq
    BY <1>0 DEF SchedState
  <2>2. w \in SchedState
    BY <1>0, Zenon DEF SchedState, Pid
  <2>3. s.state \in [Task -> {"none", "running", "blocked"}]
    BY DEF SchedState
  <2> QED BY <2>1, <2>2, <2>3
<1>4. CASE s.state[t] = "blocked"
  <2> DEFINE r == [a EXCEPT !.hd_blocked = Advance(@, t, n),
                            !.next = Relink(a.next, p, n),
                            !.prev = Relink(a.prev, n, p)]
  <2>1. r \in SchedState /\ r.state = s.state /\ r.hd_timerq = s.hd_timerq
    <3>1. PICK hb : hb = Advance(a.hd_blocked, t, n)
      OBVIOUS
    <3>2. PICK nx : nx = Relink(a.next, p, n)
      OBVIOUS
    <3>3. PICK pv : pv = Relink(a.prev, n, p)
      OBVIOUS
    <3>4. r = [a EXCEPT !.hd_blocked = hb, !.next = nx, !.prev = pv]
      BY <3>1, <3>2, <3>3
    <3>5. hb \in Pid
      BY <1>1, <1>2, <3>1 DEF SchedState, Advance
    <3>6. nx \in [Task -> Pid] /\ pv \in [Task -> Pid]
      BY <1>3, <3>2, <3>3
    <3> HIDE DEF r
    <3>7. r \in SchedState
      BY <1>2, <3>4, <3>5, <3>6, Zenon DEF SchedState
    <3>8. r.state = a.state /\ r.hd_timerq = a.hd_timerq
      BY <1>2, <3>4 DEF SchedState
    <3> QED BY <1>2, <3>7, <3>8
  <2>2. sched_awake(s, t) = [r EXCEPT !.state[t] = "running", !.isr_next = t]
    BY <1>4 DEF sched_awake, a
  <2> HIDE DEF r
  <2> QED BY <2>1, <2>2, <1>0, Zenon
<1>5. CASE s.state[t] # "blocked"
  <2>1. sched_awake(s, t) = [s EXCEPT !.state[t] = "running", !.isr_next = t]
    BY <1>5, SMTT(30) DEF sched_awake
  <2> QED BY <2>1, <1>0, Zenon
<1> QED
  BY <1>4, <1>5

(* What sched_awake does to the links and heads when the task was blocked. *)
LEMMA AwakeLinks ==
    ASSUME NEW s \in SchedState, NEW t \in Task, s.state[t] = "blocked"
    PROVE  /\ \A i \in Levels : sched_awake(s, t).hd_active[i] =
                IF i = Priority[t] THEN t ELSE s.hd_active[i]
           /\ sched_awake(s, t).cr_active = s.cr_active
           /\ sched_awake(s, t).hd_blocked = IF s.hd_blocked = t THEN s.next[t] ELSE s.hd_blocked
           /\ \A x \in Task : sched_awake(s, t).next[x] =
                IF x = s.prev[t] THEN s.next[t]
                ELSE IF x = t THEN s.hd_active[Priority[t]] ELSE s.next[x]
           /\ \A x \in Task : sched_awake(s, t).prev[x] =
                IF x = s.next[t] THEN s.prev[t]
                ELSE IF x = s.hd_active[Priority[t]] THEN t
                ELSE IF x = t THEN 0 ELSE s.prev[x]
<1> DEFINE n == s.next[t]
           p == s.prev[t]
           h == s.hd_active[Priority[t]]
           a == sched_add(s, t)
           w == sched_awake(s, t)
<1>1. Priority[t] \in Levels /\ n \in Pid /\ p \in Pid /\ h \in Pid
  BY PriorityAssumption DEF SchedState
<1>2. /\ a.hd_active = [s.hd_active EXCEPT ![Priority[t]] = t]
      /\ a.cr_active = s.cr_active
      /\ a.hd_blocked = s.hd_blocked
      /\ a.next = [s.next EXCEPT ![t] = h]
      /\ a.prev = Relink([s.prev EXCEPT ![t] = 0], h, t)
      /\ a.next \in [Task -> Pid] /\ a.prev \in [Task -> Pid]
      /\ a \in SchedState
  BY <1>1, Zenon DEF sched_add, SchedState, Relink, Pid
<1> HIDE DEF a
<1>3. /\ w.hd_active = a.hd_active
      /\ w.cr_active = a.cr_active
      /\ w.hd_blocked = Advance(a.hd_blocked, t, n)
      /\ w.next = Relink(a.next, p, n)
      /\ w.prev = Relink(a.prev, n, p)
  BY <1>2 DEF sched_awake, SchedState, a
<1> HIDE DEF w
<1>4. \A i \in Levels : w.hd_active[i] = IF i = Priority[t] THEN t ELSE s.hd_active[i]
  BY <1>2, <1>3 DEF SchedState
<1>5. w.hd_blocked = IF s.hd_blocked = t THEN n ELSE s.hd_blocked
  BY <1>2, <1>3 DEF Advance
<1>6. \A x \in Task : w.next[x] = IF x = p THEN n ELSE IF x = t THEN h ELSE s.next[x]
  BY <1>1, <1>2, <1>3, TaskAssumption, SMTT(30) DEF SchedState, Relink, Pid
<1>7. \A x \in Task : w.prev[x] = IF x = n THEN p ELSE IF x = h THEN t ELSE IF x = t THEN 0 ELSE s.prev[x]
  BY <1>1, <1>2, <1>3, TaskAssumption DEF SchedState, Relink, Pid
<1> QED
  BY <1>2, <1>3, <1>4, <1>5, <1>6, <1>7 DEF w

(* sched_awake keeps the queues sound, whether the task was blocked or not.*)
LEMMA AwakeSound ==
    ASSUME NEW s, NEW t \in Task, Sound(s), s.state[t] # "none"
    PROVE  Sound(sched_awake(s, t))
<1> DEFINE n == s.next[t]
           p == s.prev[t]
           h == s.hd_active[Priority[t]]
           w == sched_awake(s, t)
<1>1. /\ s \in SchedState /\ LinksSound(s) /\ Ranked(s)
      /\ n \in Pid /\ p \in Pid /\ h \in Pid
      /\ s.state \in [Task -> {"none", "running", "blocked"}]
      /\ s.next \in [Task -> Pid] /\ s.prev \in [Task -> Pid]
      /\ \A x \in Task : Priority[x] \in Levels
  BY PriorityAssumption DEF Sound, SchedState
<1>2. /\ w \in SchedState
      /\ \A x \in Task : w.state[x] = IF x = t THEN "running" ELSE s.state[x]
  BY <1>1, AwakeFields
<1>3. CASE s.state[t] = "running"
  <2>1. w = [s EXCEPT !.state[t] = "running", !.isr_next = t]
    BY <1>3 DEF sched_awake
  <2>2. /\ w.next = s.next /\ w.prev = s.prev /\ w.hd_active = s.hd_active
        /\ w.cr_active = s.cr_active /\ w.hd_blocked = s.hd_blocked
        /\ \A x \in Task : w.state[x] = s.state[x]
    BY <2>1, <1>1, <1>2, <1>3 DEF SchedState
  <2>3. w.state = s.state
    BY <1>1, <1>2, <2>2 DEF SchedState
  <2> HIDE DEF w
  <2>4. \A i \in Levels : w.cr_active[i] \in Queue(s, i) \cup {0}
    BY <1>1, <2>2, SMTT(30) DEF LinksSound
  <2> QED BY <1>2, <2>2, <2>3, <2>4, FrameSound DEF w
<1>4. CASE s.state[t] = "blocked"
  <2>1. PICK rank \in [Task -> Nat] : \A x \in Task : s.next[x] # 0 => rank[x] < rank[s.next[x]]
    BY <1>1 DEF Ranked
  <2>2. \A x \in Task : s.next[x] # x /\ (s.next[x] # 0 => s.next[s.next[x]] # x)
    BY <1>1, <2>1, TaskAssumption DEF Pid
  <2>3. /\ \A i \in Levels : w.hd_active[i] = IF i = Priority[t] THEN t ELSE s.hd_active[i]
        /\ w.cr_active = s.cr_active
        /\ w.hd_blocked = IF s.hd_blocked = t THEN n ELSE s.hd_blocked
        /\ \A x \in Task : w.next[x] = IF x = p THEN n ELSE IF x = t THEN h ELSE s.next[x]
        /\ \A x \in Task : w.prev[x] = IF x = n THEN p ELSE IF x = h THEN t ELSE IF x = t THEN 0 ELSE s.prev[x]
    BY <1>1, <1>4, AwakeLinks
  <2> HIDE DEF w
  <2>4. /\ n # t /\ p # t /\ h # t
        /\ h # 0 => h \in Task /\ s.state[h] = "running" /\ Priority[h] = Priority[t] /\ s.prev[h] = 0
        /\ n # 0 => n \in Task /\ s.state[n] = "blocked" /\ s.prev[n] = t
        /\ p # 0 => p \in Task /\ s.state[p] = "blocked" /\ s.next[p] = t
        /\ p = 0 <=> s.hd_blocked = t
    <3>1. /\ n # 0 => n \in Task /\ s.state[n] = "blocked" /\ s.prev[n] = t
          /\ p # 0 => p \in Task /\ s.state[p] = "blocked" /\ s.next[p] = t
      BY <1>1, <1>4, LinksAt
    <3>2. p = 0 <=> s.hd_blocked = t
      BY <1>1, <1>4, LinksAt DEF HeadOf
    <3>3. h # 0 => h \in Task /\ s.state[h] = "running" /\ Priority[h] = Priority[t] /\ s.prev[h] = 0
      BY <1>1, HeadsAt
    <3>4. n # t /\ p # t /\ h # t
      BY <1>4, <2>2, <3>1, <3>3, TaskAssumption
    <3> QED BY <3>1, <3>2, <3>3, <3>4
  <2>5. Ranked(w)
    <3> DEFINE rk == [x \in Task |-> IF x = t THEN 0 ELSE rank[x] + 1]
    <3>1. rk \in [Task -> Nat]
      BY <2>1
    <3>2. ASSUME NEW x \in Task, w.next[x] # 0
          PROVE  rk[x] < rk[w.next[x]]
      <4>1. CASE x = t
        BY <4>1, <3>2, <2>1, <2>3, <2>4
      <4>2. CASE x # t /\ x = p
        <5>1. w.next[x] = n /\ n # 0 /\ rank[p] < rank[t] /\ rank[t] < rank[n]
          BY <4>2, <3>2, <2>1, <2>3, <2>4, TaskAssumption
        <5> QED BY <4>2, <5>1, <2>1, <2>4
      <4>3. CASE x # t /\ x # p
        <5>1. w.next[x] = s.next[x] /\ s.next[x] # 0
          BY <4>3, <3>2, <2>3
        <5>2. s.next[x] \in Task /\ s.prev[s.next[x]] = x
          BY <1>1, <5>1, LinksAt
        <5>3. s.next[x] # t
          BY <4>3, <5>2, SMTT(30)
        <5> QED BY <4>3, <5>1, <5>2, <5>3, <2>1
      <4> QED BY <4>1, <4>2, <4>3
    <3> QED BY <3>1, <3>2, Zenon DEF Ranked
  <2>6. ASSUME NEW x \in Task
        PROVE  /\ w.state[x] = "none" => w.next[x] = 0 /\ w.prev[x] = 0
               /\ w.next[x] # 0 => w.prev[w.next[x]] = x /\ SameQueue(w, x, w.next[x])
               /\ w.prev[x] # 0 => w.next[w.prev[x]] = x
               /\ w.state[x] # "none" => (w.prev[x] = 0 <=> HeadOf(w, x) = x)
    <3>1. /\ s.next[x] \in Pid /\ s.prev[x] \in Pid
          /\ s.state[x] = "none" => s.next[x] = 0 /\ s.prev[x] = 0
          /\ s.next[x] # 0 => /\ s.next[x] \in Task /\ s.prev[s.next[x]] = x
                              /\ s.state[s.next[x]] = s.state[x]
                              /\ s.state[x] = "running" => Priority[s.next[x]] = Priority[x]
          /\ s.prev[x] # 0 => s.prev[x] \in Task /\ s.next[s.prev[x]] = x
          /\ s.state[x] # "none" => (s.prev[x] = 0 <=> HeadOf(s, x) = x)
      BY <1>1, LinksAt, SMTT(30)
    <3>2. CASE x = t
      <4>1. w.next[x] = h /\ w.prev[x] = 0 /\ w.state[x] = "running" /\ HeadOf(w, x) = x
        BY <1>1, <1>2, <2>3, <2>4, <3>2, SMTT(30) DEF HeadOf
      <4>2. h # 0 => w.prev[h] = x /\ w.state[h] = "running" /\ Priority[h] = Priority[x]
        <5>1. h # 0 => h # n
          BY <2>4
        <5> QED BY <1>2, <2>3, <2>4, <3>2, <5>1, SMTT(30)
      <4> QED BY <4>1, <4>2, SMTT(30) DEF SameQueue
    <3>3. CASE x = p
      <4>1. x # t /\ x # n /\ x # h /\ s.next[x] = t /\ s.state[x] = "blocked"
        BY <2>2, <2>4, <3>3, TaskAssumption
      <4>2. w.next[x] = n /\ w.prev[x] = s.prev[x] /\ w.state[x] = "blocked"
        BY <1>2, <2>3, <3>3, <4>1, SMTT(30)
      <4>3. n # 0 => w.prev[n] = x /\ w.state[n] = "blocked"
        BY <1>2, <2>3, <2>4, <3>3
      <4>4. s.prev[x] # 0 => w.next[s.prev[x]] = x
        <5>1. s.prev[x] # 0 => s.prev[x] # t /\ s.prev[x] # p
          BY <2>2, <3>1, <3>3, <4>1, SMTT(30)
        <5> QED BY <2>3, <3>1, <5>1
      <4>5. s.prev[x] = 0 <=> HeadOf(w, x) = x
        BY <2>3, <2>4, <3>1, <3>3, <4>1, <4>2, TaskAssumption, SMTT(30) DEF HeadOf
      <4> QED BY <4>2, <4>3, <4>4, <4>5, SMTT(30) DEF SameQueue
    <3>4. CASE x # t /\ x # p
      <4>1. w.next[x] = s.next[x] /\ w.state[x] = s.state[x]
        BY <1>2, <2>3, <3>4, SMTT(30)
      <4>2. s.next[x] # 0 => w.prev[s.next[x]] = x /\ SameQueue(w, x, s.next[x])
        <5>1. s.next[x] # 0 => s.next[x] # t /\ s.next[x] # n /\ s.next[x] # h
          BY <2>4, <3>1, <3>4, TaskAssumption, SMTT(30)
        <5> QED BY <1>2, <2>3, <3>1, <4>1, <5>1, SMTT(30) DEF SameQueue
      <4>3. CASE x = n
        <5>1. w.prev[x] = p /\ (p # 0 => w.next[p] = x) /\ s.state[x] = "blocked"
          BY <2>3, <2>4, <4>3, TaskAssumption, SMTT(30)
        <5>2. p = 0 <=> HeadOf(w, x) = x
          <6>1. s.hd_blocked # x
            BY <2>4, <3>1, <4>3, <5>1, TaskAssumption, SMTT(30) DEF HeadOf
          <6> QED BY <2>3, <2>4, <4>1, <4>3, <5>1, <6>1, SMTT(30) DEF HeadOf
        <5> QED BY <4>1, <4>2, <5>1, <5>2, SMTT(30)
      <4>4. CASE x = h /\ x # n
        <5>1. w.prev[x] = t /\ w.next[t] = x /\ s.state[x] = "running" /\ Priority[x] = Priority[t]
          BY <2>3, <2>4, <3>4, <4>4, TaskAssumption, SMTT(30)
        <5>2. HeadOf(w, x) = t
          BY <1>1, <2>3, <4>1, <5>1, SMTT(30) DEF HeadOf
        <5> QED BY <3>4, <4>1, <4>2, <5>1, <5>2, TaskAssumption, SMTT(30)
      <4>5. CASE x # h /\ x # n
        <5>1. w.prev[x] = s.prev[x] /\ (s.prev[x] # 0 => w.next[s.prev[x]] = x)
          <6>1. s.prev[x] # 0 => s.prev[x] # t /\ s.prev[x] # p
            BY <2>4, <3>1, <3>4, <4>5, SMTT(30)
          <6> QED BY <2>3, <3>1, <3>4, <4>5, <6>1, SMTT(30)
        <5>2. s.state[x] = "running" => (s.prev[x] = 0 <=> HeadOf(w, x) = x)
          BY <1>1, <2>3, <3>1, <3>4, <4>1, <4>5, SMTT(30) DEF HeadOf
        <5>3. s.state[x] = "blocked" => (s.prev[x] = 0 <=> HeadOf(w, x) = x)
          BY <2>3, <3>1, <3>4, <4>1, <4>5 DEF HeadOf
        <5>4. s.state[x] \in {"none", "running", "blocked"}
          BY <1>1
        <5> QED BY <3>1, <4>1, <4>2, <5>1, <5>2, <5>3, <5>4, SMTT(30)
      <4> QED BY <4>3, <4>4, <4>5
    <3> QED BY <3>2, <3>3, <3>4, SMTT(30)
  <2>7. ASSUME NEW i \in Levels
        PROVE  /\ w.hd_active[i] \in Queue(w, i) \cup {0}
               /\ w.cr_active[i] \in Queue(w, i) \cup {0}
    <3>1. /\ s.hd_active[i] # 0 => /\ s.hd_active[i] \in Task /\ Priority[s.hd_active[i]] = i
                                   /\ s.state[s.hd_active[i]] = "running"
          /\ s.cr_active[i] # 0 => /\ s.cr_active[i] \in Task /\ Priority[s.cr_active[i]] = i
                                   /\ s.state[s.cr_active[i]] = "running"
      BY <1>1, HeadsAt
    <3>2. w.hd_active[i] # 0 => /\ w.hd_active[i] \in Task /\ Priority[w.hd_active[i]] = i
                                /\ w.state[w.hd_active[i]] = "running"
      BY <1>2, <2>3, <3>1
    <3>3. w.cr_active[i] # 0 => /\ w.cr_active[i] \in Task /\ Priority[w.cr_active[i]] = i
                                /\ w.state[w.cr_active[i]] = "running"
      BY <1>2, <2>3, <3>1
    <3> QED BY <3>2, <3>3 DEF Queue, Running
  <2>8. w.hd_blocked \in Blocked(w) \cup {0}
    <3>1. s.hd_blocked # 0 => s.hd_blocked \in Task /\ s.state[s.hd_blocked] = "blocked"
      BY <1>1, SMTT(30) DEF LinksSound, Blocked
    <3>2. w.hd_blocked # 0 => w.hd_blocked \in Task /\ w.state[w.hd_blocked] = "blocked"
      BY <1>2, <2>3, <2>4, <3>1
    <3> QED BY <3>2 DEF Blocked
  <2> QED
    BY <1>2, <2>5, <2>6, <2>7, <2>8 DEF Sound, LinksSound, w
<1> QED
  BY <1>1, <1>3, <1>4

(* Highest picks a member of a set of levels.                              *)
LEMMA HighestIn ==
    ASSUME NEW L, L \subseteq PRI_SYS..(PRI_IDLE - 1), L # {}
    PROVE  Highest(L) \in L
<1>1. L \subseteq Nat
  BY DEF PRI_SYS, PRI_IDLE
<1>2. \E i \in L : \A j \in L : i <= j
  BY <1>1, NatMin, Zenon
<1> QED
  BY <1>2, Zenon DEF Highest

(* sched_pick returns a running task of the level it stopped at, and the   *)
(* idle task only if no task is running; rewinding moves no cursor out of  *)
(* its queue.                                                              *)
LEMMA PickCases ==
    ASSUME NEW s, Sound(s)
    PROVE  /\ PickLevel(s) \in Levels
           /\ Picked(s) # Idle => Picked(s) \in Queue(s, PickLevel(s))
           /\ Picked(s) = Idle => Running(s) = {}
           /\ \A i \in Levels : RewoundCursors(s)[i] \in Queue(s, i) \cup {0}
<1> USE DEF PRI_SYS, PRI_IDLE, Levels
<1>1. /\ s \in SchedState /\ LinksSound(s)
      /\ \A i \in Levels : s.hd_active[i] \in Queue(s, i) \cup {0} /\ s.cr_active[i] \in Queue(s, i) \cup {0}
  BY DEF Sound, LinksSound
<1>2. \A i \in Levels : RewoundCursors(s)[i] \in Queue(s, i) \cup {0}
  BY <1>1 DEF RewoundCursors
<1>3. /\ CursorLevels(s) \subseteq ReadyLevels(s)
      /\ ReadyLevels(s) \subseteq PRI_SYS..(PRI_IDLE - 1)
  BY SMTT(30) DEF CursorLevels, ReadyLevels
<1>4. CASE CursorLevels(s) # {}
  <2>1. PickLevel(s) \in CursorLevels(s)
    BY <1>3, <1>4, HighestIn DEF PickLevel
  <2>2. PickLevel(s) \in Levels /\ s.cr_active[PickLevel(s)] # 0
    BY <2>1 DEF CursorLevels, ReadyLevels
  <2>3. RewoundCursors(s)[PickLevel(s)] = s.cr_active[PickLevel(s)]
    BY <2>2, SMTT(30) DEF RewoundCursors, Rewound
  <2> QED BY <1>1, <1>2, <2>2, <2>3, TaskAssumption DEF Picked, Queue, Running, Pid
<1>5. CASE CursorLevels(s) = {} /\ ReadyLevels(s) # {}
  <2>1. PickLevel(s) \in ReadyLevels(s)
    BY <1>3, <1>5, HighestIn DEF PickLevel
  <2>2. PickLevel(s) \in Levels /\ s.hd_active[PickLevel(s)] # 0 /\ s.cr_active[PickLevel(s)] = 0
    BY <2>1, <1>5 DEF CursorLevels, ReadyLevels
  <2>3. RewoundCursors(s)[PickLevel(s)] = s.hd_active[PickLevel(s)]
    BY <2>2 DEF RewoundCursors, Rewound
  <2> QED BY <1>1, <1>2, <2>2, <2>3, TaskAssumption DEF Picked, Queue, Running, Pid
<1>6. CASE CursorLevels(s) = {} /\ ReadyLevels(s) = {}
  <2>1. PickLevel(s) = 7
    BY <1>6 DEF PickLevel
  <2>2. Picked(s) = Idle => s.hd_active[7] = 0
    <3> SUFFICES ASSUME s.hd_active[7] # 0
                 PROVE  Picked(s) # Idle
      OBVIOUS
    <3>1. RewoundCursors(s)[7] # 0
      BY <2>1 DEF RewoundCursors, Rewound
    <3> QED BY <3>1, <2>1, <1>2, TaskAssumption DEF Picked, Queue, Running, Pid
  <2>3. Picked(s) = Idle => \A i \in Levels : s.hd_active[i] = 0
    BY <1>6, <2>2 DEF ReadyLevels
  <2>4. Picked(s) = Idle => \A i \in Levels : Queue(s, i) = {}
    BY <2>3, HeadOfQueue
  <2>5. Picked(s) = Idle => Running(s) = {}
    BY <2>4, PriorityAssumption DEF Queue, Running
  <2>6. Picked(s) # Idle => Picked(s) \in Queue(s, 7)
    BY <2>1, <1>2 DEF Picked
  <2> QED BY <1>2, <2>1, <2>5, <2>6
<1> QED
  BY <1>4, <1>5, <1>6, SMTT(30)

(* Setting isr_next keeps the queues sound.                                *)
LEMMA SetNextSound ==
    ASSUME NEW s, Sound(s), NEW t \in Pid \cup {Idle}
    PROVE  /\ Sound([s EXCEPT !.isr_next = t])
           /\ [s EXCEPT !.isr_next = t].state = s.state
           /\ [s EXCEPT !.isr_next = t].isr_next = t
           /\ [s EXCEPT !.isr_next = t].hd_timerq = s.hd_timerq
<1> DEFINE r == [s EXCEPT !.isr_next = t]
<1>1. /\ r \in SchedState
      /\ r.next = s.next /\ r.prev = s.prev /\ r.state = s.state
      /\ r.hd_active = s.hd_active /\ r.hd_blocked = s.hd_blocked /\ r.cr_active = s.cr_active
      /\ r.isr_next = t /\ r.hd_timerq = s.hd_timerq
  BY DEF Sound, SchedState
<1>2. \A i \in Levels : r.cr_active[i] \in Queue(s, i) \cup {0}
  BY <1>1 DEF Sound, LinksSound
<1> HIDE DEF r
<1>3. Sound(r)
  BY <1>1, <1>2, FrameSound
<1> QED
  BY <1>1, <1>3 DEF r

(* The clock keeps the queues sound.                                       *)
LEMMA NextSecondSound ==
    ASSUME NEW s, Sound(s)
    PROVE  /\ Sound(NextSecond(s))
           /\ NextSecond(s).state = s.state
           /\ NextSecond(s).isr_next = s.isr_next
           /\ NextSecond(s).hd_timerq = s.hd_timerq
           /\ NextSecond(s).alarm = s.alarm
           /\ \A t \in Task : NextSecond(s).alarmsec[t] =
                IF s.alarmsec[t] < 0 THEN s.alarmsec[t] ELSE s.alarmsec[t] - 1
           /\ \A t \in Task : NextSecond(s).alarmns[t] =
                IF s.alarmsec[t] <= 0 THEN 0 ELSE s.alarmns[t]
<1> DEFINE r == NextSecond(s)
           f == [t \in Task |-> IF s.alarmsec[t] < 0 THEN s.alarmsec[t] ELSE s.alarmsec[t] - 1]
           g == [t \in Task |-> IF s.alarmsec[t] <= 0 THEN 0 ELSE s.alarmns[t]]
<1>1. f \in [Task -> Int] /\ g \in [Task -> Nat]
  BY DEF Sound, SchedState
<1>2. r = [s EXCEPT !.alarmsec = f, !.alarmns = g]
  BY DEF NextSecond
<1>3. /\ \A t \in Task : f[t] = IF s.alarmsec[t] < 0 THEN s.alarmsec[t] ELSE s.alarmsec[t] - 1
      /\ \A t \in Task : g[t] = IF s.alarmsec[t] <= 0 THEN 0 ELSE s.alarmns[t]
  OBVIOUS
<1> HIDE DEF r, f, g
<1>4. /\ r \in SchedState
      /\ r.next = s.next /\ r.prev = s.prev /\ r.state = s.state
      /\ r.hd_active = s.hd_active /\ r.hd_blocked = s.hd_blocked /\ r.cr_active = s.cr_active
      /\ r.isr_next = s.isr_next /\ r.hd_timerq = s.hd_timerq
      /\ r.alarm = s.alarm /\ r.alarmsec = f /\ r.alarmns = g
  BY <1>1, <1>2, Zenon DEF Sound, SchedState
<1>5. \A i \in Levels : r.cr_active[i] \in Queue(s, i) \cup {0}
  BY <1>4 DEF Sound, LinksSound
<1>6. Sound(r)
  BY <1>4, <1>5, FrameSound
<1> QED
  BY <1>4, <1>6, <1>3 DEF r

(* sched_pick keeps the queues sound and changes no task's state.          *)
LEMMA PickSound ==
    ASSUME NEW s, Sound(s), NEW curr
    PROVE  /\ Sound(sched_pick(s, curr))
           /\ sched_pick(s, curr).state = s.state
           /\ sched_pick(s, curr).hd_timerq = s.hd_timerq
           /\ sched_pick(s, curr).isr_next = IF curr = Picked(s) /\ curr # Idle THEN s.isr_next ELSE Picked(s)
<1> DEFINE i == PickLevel(s)
           t == Picked(s)
           c == [RewoundCursors(s) EXCEPT ![i] = s.next[t]]
           r == sched_pick(s, curr)
<1>1. s \in SchedState /\ LinksSound(s)
  BY DEF Sound
<1>2. CASE t = Idle
  <2>1. r = [s EXCEPT !.isr_next = Idle]
    BY <1>2 DEF sched_pick
  <2> QED BY <1>2, <2>1, SetNextSound
<1>3. CASE t # Idle
  <2>1. i \in Levels /\ t \in Queue(s, i) /\ \A j \in Levels : RewoundCursors(s)[j] \in Queue(s, j) \cup {0}
    BY <1>3, PickCases
  <2>2. t \in Task /\ s.state[t] = "running" /\ Priority[t] = i
    BY <2>1 DEF Queue, Running
  <2>3. s.next[t] \in Queue(s, i) \cup {0}
    <3>1. s.next[t] \in Pid
      BY <1>1, <2>2 DEF SchedState
    <3> QED BY <1>1, <2>2, <3>1 DEF LinksSound, SameQueue, Queue, Running, Pid
  <2>4. RewoundCursors(s) = [j \in Levels |-> RewoundCursors(s)[j]]
    BY DEF RewoundCursors
  <2>5. \A j \in Levels : c[j] \in Queue(s, j) \cup {0}
    BY <2>1, <2>3, <2>4
  <2>6. c \in [Levels -> Pid]
    BY <2>4, <2>5, Zenon DEF Queue, Running, Pid
  <2>7. r = [s EXCEPT !.cr_active = c, !.isr_next = IF curr = t THEN s.isr_next ELSE t]
    BY <1>3 DEF sched_pick
  <2> HIDE DEF c, r
  <2>8. /\ r \in SchedState
        /\ r.next = s.next /\ r.prev = s.prev /\ r.state = s.state
        /\ r.hd_active = s.hd_active /\ r.hd_blocked = s.hd_blocked /\ r.cr_active = c
        /\ r.hd_timerq = s.hd_timerq
        /\ r.isr_next = IF curr = t THEN s.isr_next ELSE t
    BY <1>1, <2>2, <2>6, <2>7, Zenon DEF SchedState, Pid
  <2>9. Sound(r)
    BY <2>5, <2>8, FrameSound
  <2> QED BY <1>3, <2>8, <2>9 DEF r
<1> QED
  BY <1>2, <1>3

(* The links of a queue or of the timer queue can be followed step by step *)
(* from any head: the function that Chain chooses exists.                  *)
LEMMA ChainSteps ==
    ASSUME NEW link \in [Task -> Pid], NEW h \in Pid
    PROVE  LET c == Chain(link, h)
               N == Cardinality(Task)
           IN  /\ N \in Nat
               /\ c \in [0..N -> Pid]
               /\ c[0] = h
               /\ \A n \in 0..N - 1 : c[n + 1] = IF c[n] = 0 THEN 0 ELSE link[c[n]]
<1> DEFINE N == Cardinality(Task)
           Follows(g, k) == /\ g \in [0..k -> Pid]
                            /\ g[0] = h
                            /\ \A n \in 0..k - 1 : g[n + 1] = IF g[n] = 0 THEN 0 ELSE link[g[n]]
           T == {k \in Nat : ~ \E g \in [0..k -> Pid] : Follows(g, k)}
<1>1. N \in Nat
  BY TaskAssumption, FS_CardinalityType
<1>2. T = {}
  <2> SUFFICES ASSUME T # {} PROVE FALSE
    OBVIOUS
  <2>1. PICK k \in T : \A y \in T : k <= y
    BY NatMin, Zenon
  <2>2. k # 0
    <3> DEFINE g == [n \in 0..0 |-> h]
    <3>1. Follows(g, 0) /\ g \in [0..0 -> Pid]
      OBVIOUS
    <3> QED BY <3>1, Zenon
  <2>3. k - 1 \in Nat /\ k - 1 \notin T
    <3>1. k \in Nat
      OBVIOUS
    <3> HIDE DEF T
    <3> QED BY <2>1, <2>2, <3>1
  <2>4. PICK g \in [0..k - 1 -> Pid] : Follows(g, k - 1)
    BY <2>3
  <2> DEFINE e == [n \in 0..k |-> IF n = k THEN IF g[k - 1] = 0 THEN 0 ELSE link[g[k - 1]] ELSE g[n]]
  <2>5. e \in [0..k -> Pid]
    <3>1. g[k - 1] \in Pid
      BY <2>3
    <3>2. g[k - 1] # 0 => link[g[k - 1]] \in Pid
      BY <3>1 DEF Pid
    <3> QED BY <3>1, <3>2, <2>3 DEF Pid
  <2>6. Follows(e, k)
    <3>1. e[0] = h
      BY <2>2, <2>4, SMTT(30)
    <3>2. ASSUME NEW n \in 0..k - 1 PROVE e[n + 1] = IF e[n] = 0 THEN 0 ELSE link[e[n]]
      <4>1. CASE n = k - 1
        BY <4>1, <2>3
      <4>2. CASE n # k - 1
        <5>1. n \in 0..(k - 1) - 1 /\ n + 1 # k /\ n # k /\ n \in 0..k /\ n + 1 \in 0..k
          BY <4>2, <2>3
        <5>2. e[n + 1] = g[n + 1] /\ e[n] = g[n]
          BY <5>1
        <5> QED BY <2>4, <5>1, <5>2
      <4> QED BY <4>1, <4>2
    <3> QED BY <2>5, <3>1, <3>2, Zenon
  <2> QED BY <2>1, <2>5, <2>6, Zenon
<1>3. PICK g \in [0..N -> Pid] : Follows(g, N)
  BY <1>1, <1>2
<1> DEFINE F(f) == [n \in 0..N |-> IF n = 0 THEN h ELSE IF f[n - 1] = 0 THEN 0 ELSE link[f[n - 1]]]
<1>4. g = F(g)
  <2>1. \A n \in 0..N : g[n] = F(g)[n]
    <3> TAKE n \in 0..N
    <3>1. CASE n = 0
      BY <1>3, <3>1
    <3>2. CASE n # 0
      <4>1. n - 1 \in 0..N - 1 /\ (n - 1) + 1 = n
        BY <1>1, <3>2
      <4> QED BY <1>3, <3>2, <4>1
    <3> QED BY <3>1, <3>2
  <2> QED BY <2>1
<1>5. Chain(link, h) = CHOOSE f : f = F(f)
  BY DEF Chain
<1>6. \E f : f = F(f)
  BY <1>4, Zenon
<1> HIDE DEF F
<1>7. Chain(link, h) = F(Chain(link, h))
  BY <1>5, <1>6
<1> DEFINE c == Chain(link, h)
           D == {n \in 0..N : c[n] # g[n]}
<1>8. c = [n \in 0..N |-> IF n = 0 THEN h ELSE IF c[n - 1] = 0 THEN 0 ELSE link[c[n - 1]]]
  BY <1>7, Zenon DEF F
<1> HIDE DEF c, N, T
<1>9. D = {}
  <2> SUFFICES ASSUME D # {} PROVE FALSE
    OBVIOUS
  <2>0. D \subseteq Nat
    BY <1>1
  <2>1. PICK n \in D : \A y \in D : n <= y
    BY <2>0, NatMin, Zenon
  <2>2. n # 0
    BY <1>1, <1>3, <1>8
  <2>3. n - 1 \in 0..N /\ n - 1 \notin D /\ n \in 0..N
    <3>1. n \in 0..N /\ n \in Nat
      BY <1>1
    <3> HIDE DEF D
    <3> QED BY <1>1, <2>1, <2>2, <3>1
  <2>4. c[n - 1] = g[n - 1]
    BY <2>3
  <2>5. g[n] = IF g[n - 1] = 0 THEN 0 ELSE link[g[n - 1]]
    <3>1. n - 1 \in 0..N - 1 /\ (n - 1) + 1 = n
      BY <1>1, <2>2, <2>3
    <3> QED BY <1>3, <3>1
  <2>6. c[n] = IF c[n - 1] = 0 THEN 0 ELSE link[c[n - 1]]
    BY <1>8, <2>2, <2>3
  <2> QED BY <2>4, <2>5, <2>6
<1>10. c = g
  BY <1>8, <1>9, SMTT(30)
<1> QED
  BY <1>1, <1>3, <1>10 DEF c, N

(* A queue is whole: when every task of S but the head h is linked from a  *)
(* task of S, the links of S stay in S and a ranking grows along them, the *)
(* chain from h ends and visits all of S.                                  *)
LEMMA ChainHolds ==
    ASSUME NEW link \in [Task -> Pid], NEW S \in SUBSET Task, NEW h \in S \cup {0},
           NEW rank \in [Task -> Nat],
           \A t \in S : link[t] \in S \cup {0},
           \A t \in S : link[t] # 0 => rank[t] < rank[link[t]],
           \A t \in S : t = h \/ \E p \in S : link[p] = t
    PROVE  Holds(link, h, S)
<1> DEFINE N == Cardinality(Task)
           c == Chain(link, h)
<1>1. /\ N \in Nat /\ c \in [0..N -> Pid] /\ c[0] = h
      /\ \A n \in 0..N - 1 : c[n + 1] = IF c[n] = 0 THEN 0 ELSE link[c[n]]
      /\ 0 \notin S
  BY ChainSteps, TaskAssumption DEF Pid
<1> HIDE DEF N, c
<1>2. \A n \in 0..N : n # 0 => /\ n - 1 \in 0..N
                               /\ c[n] = IF c[n - 1] = 0 THEN 0 ELSE link[c[n - 1]]
  <2> TAKE n \in 0..N
  <2> HAVE n # 0
  <2>1. n - 1 \in 0..N - 1 /\ (n - 1) + 1 = n /\ n - 1 \in 0..N
    BY <1>1
  <2> QED BY <1>1, <2>1
<1>3. \A n \in 0..N : c[n] \in S \cup {0}
  <2> DEFINE D == {n \in 0..N : c[n] \notin S \cup {0}}
  <2> SUFFICES ASSUME D # {} PROVE FALSE
    OBVIOUS
  <2>1. D \subseteq Nat
    BY <1>1
  <2>2. PICK n \in D : \A y \in D : n <= y
    BY <2>1, NatMin, Zenon
  <2>3. n \in 0..N /\ n \in Nat /\ n # 0 /\ c[n] \notin S \cup {0}
    BY <1>1
  <2>4. n - 1 \in 0..N /\ c[n] = IF c[n - 1] = 0 THEN 0 ELSE link[c[n - 1]]
    BY <1>2, <2>3
  <2>5. n - 1 \notin D
    <3> HIDE DEF D
    <3> QED BY <2>2, <2>3
  <2>6. c[n - 1] \in S \cup {0}
    BY <2>4, <2>5
  <2> QED BY <2>3, <2>4, <2>6
<1>4. ASSUME NEW i \in 0..N, NEW j \in 0..N, i < j, c[N] # 0
      PROVE  c[i] # 0 /\ c[j] # 0 /\ rank[c[i]] < rank[c[j]]
  <2>1. \A n \in 0..N : c[n] # 0
    <3> SUFFICES ASSUME NEW m \in 0..N, c[m] = 0 PROVE FALSE
      OBVIOUS
    <3> DEFINE D == {n \in m..N : c[n] # 0}
    <3>1. D \subseteq Nat /\ N \in D
      BY <1>1, <1>4
    <3>2. PICK n \in D : \A y \in D : n <= y
      BY <3>1, NatMin, Zenon
    <3>3. n \in m..N /\ n \in 0..N /\ n \in Nat /\ n # m /\ c[n] # 0 /\ n - 1 \in m..N
      BY <1>1
    <3>4. n - 1 \notin D
      <4> HIDE DEF D
      <4> QED BY <3>2, <3>3
    <3>5. c[n - 1] = 0
      BY <3>3, <3>4
    <3> QED BY <1>1, <1>2, <3>3, <3>5
  <2> DEFINE D == {n \in i + 1..N : ~ (rank[c[i]] < rank[c[n]])}
  <2>2. ASSUME NEW n \in 0..N, n # 0
        PROVE  n - 1 \in 0..N /\ c[n - 1] \in S /\ c[n] \in S /\ rank[c[n - 1]] < rank[c[n]]
    <3>1. n - 1 \in 0..N /\ c[n] = link[c[n - 1]]
      BY <1>2, <2>1, <2>2
    <3>2. c[n - 1] \in S /\ c[n] \in S
      BY <1>3, <2>1, <3>1
    <3> QED BY <1>1, <3>1, <3>2
  <2>3. D = {}
    <3> SUFFICES ASSUME D # {} PROVE FALSE
      OBVIOUS
    <3>1. D \subseteq Nat
      BY <1>1
    <3>2. PICK n \in D : \A y \in D : n <= y
      BY <3>1, NatMin, Zenon
    <3>3. n \in 0..N /\ n \in Nat /\ n # 0 /\ n >= i + 1 /\ ~ (rank[c[i]] < rank[c[n]])
      BY <1>1
    <3>4. n - 1 \notin D
      <4> HIDE DEF D
      <4> QED BY <3>2, <3>3
    <3>5. CASE n = i + 1
      <4>1. n - 1 = i
        BY <3>5
      <4> QED BY <2>2, <3>3, <4>1
    <3>6. CASE n # i + 1
      <4>1. n - 1 \in i + 1..N
        BY <1>1, <3>3, <3>6
      <4>2. rank[c[i]] < rank[c[n - 1]]
        BY <3>4, <4>1
      <4>3. rank[c[n - 1]] < rank[c[n]] /\ c[n - 1] \in Task /\ c[n] \in Task /\ c[i] \in Task
        BY <1>3, <2>1, <2>2, <3>3
      <4>4. rank[c[n - 1]] \in Nat /\ rank[c[n]] \in Nat /\ rank[c[i]] \in Nat
        BY <4>3
      <4> QED BY <3>3, <4>2, <4>3, <4>4
    <3> QED BY <3>5, <3>6
  <2>4. j \in i + 1..N
    BY <1>1, <1>4
  <2> QED BY <2>1, <2>3, <2>4
<1>5. c[N] = 0
  <2> SUFFICES ASSUME c[N] # 0 PROVE FALSE
    OBVIOUS
  <2>1. \A n \in 0..N : c[n] \in Task
    <3> TAKE n \in 0..N
    <3>1. n < N \/ n = N
      BY <1>1
    <3>2. N \in 0..N
      BY <1>1
    <3>3. c[n] # 0
      BY <1>4, <3>1, <3>2
    <3> QED BY <1>3, <3>3
  <2>2. c \in [0..N -> Task]
    BY <1>1, <2>1
  <2>3. IsFiniteSet(0..N) /\ Cardinality(0..N) = N + 1
    BY <1>1, FS_Interval
  <2>4. Cardinality(Task) < Cardinality(0..N)
    BY <1>1, <2>3 DEF N
  <2> DEFINE A == 0..N
  <2> HIDE DEF A
  <2>5. PICK i, j \in A : i # j /\ c[i] = c[j]
    <3>1. IsFiniteSet(A) /\ IsFiniteSet(Task) /\ Cardinality(Task) < Cardinality(A) /\ c \in [A -> Task]
      BY <2>2, <2>3, <2>4, TaskAssumption DEF A
    <3> QED BY <3>1, FS_PigeonHole
  <2>6. rank[c[i]] \in Nat /\ (i < j \/ j < i)
    BY <1>1, <2>1, <2>5 DEF A
  <2> QED BY <1>4, <2>5, <2>6 DEF A
<1>6. \A t \in S : \E n \in 0..N : c[n] = t
  <2> DEFINE U == {t \in S : \A n \in 0..N : c[n] # t}
             R == {rank[t] : t \in U}
  <2> SUFFICES ASSUME U # {} PROVE FALSE
    OBVIOUS
  <2>1. R \subseteq Nat /\ R # {}
    OBVIOUS
  <2>2. PICK m \in R : \A y \in R : m <= y
    BY <2>1, NatMin, Zenon
  <2>3. PICK t \in U : m = rank[t]
    BY <2>2
  <2>4. t # h
    BY <1>1
  <2>5. PICK p \in S : link[p] = t
    BY <2>4
  <2>6. rank[p] < rank[t] /\ rank[p] \in Nat /\ rank[t] \in Nat
    BY <1>1, <2>5
  <2>7. p \notin U
    <3>1. rank[p] \notin R
      BY <2>2, <2>3, <2>6, SMTT(30)
    <3> QED BY <3>1
  <2>8. PICK n \in 0..N : c[n] = p
    BY <2>5, <2>7
  <2>9. n \in 0..N - 1 /\ n + 1 \in 0..N
    BY <1>1, <1>5, <2>8
  <2> QED BY <1>1, <2>5, <2>8, <2>9, SMTT(30)
<1>7. DOMAIN c = 0..N
  BY <1>1
<1>8. {c[n] : n \in DOMAIN c} \ {0} = S
  BY <1>1, <1>3, <1>6, <1>7
<1> QED
  BY <1>5, <1>8 DEF Holds, N, c

(* What the links of sched.c say locally makes its queues whole.           *)
LEMMA SoundHolds ==
    ASSUME NEW s, Sound(s)
    PROVE  QueuesHold(s)
<1>1. PICK rank \in [Task -> Nat] : \A t \in Task : s.next[t] # 0 => rank[t] < rank[s.next[t]]
  BY DEF Sound, Ranked
<1>2. /\ s.next \in [Task -> Pid] /\ s.prev \in [Task -> Pid] /\ LinksSound(s)
      /\ s.state \in [Task -> {"none", "running", "blocked"}]
  BY SMTT(30) DEF Sound, SchedState
<1>3. ASSUME NEW i \in Levels
      PROVE  Holds(s.next, s.hd_active[i], Queue(s, i))
  <2> DEFINE S == Queue(s, i)
             h == s.hd_active[i]
  <2>1. S \in SUBSET Task /\ h \in S \cup {0}
    BY <1>2 DEF LinksSound, Queue, Running
  <2>2. \A t \in S : s.next[t] \in S \cup {0}
    BY <1>2 DEF LinksSound, SameQueue, Queue, Running, Pid
  <2>3. \A t \in S : t = h \/ \E p \in S : s.next[p] = t
    <3> TAKE t \in S
    <3> SUFFICES ASSUME t # h PROVE \E p \in S : s.next[p] = t
      OBVIOUS
    <3>1. t \in Task /\ s.state[t] = "running" /\ Priority[t] = i
      BY SMTT(30) DEF Queue, Running
    <3>2. s.prev[t] # 0 /\ s.prev[t] \in Task
      BY <1>2, <3>1, SMTT(30) DEF LinksSound, HeadOf, Pid
    <3>3. s.next[s.prev[t]] = t
      BY <1>2, <3>1, <3>2, SMTT(30) DEF LinksSound
    <3>4. SameQueue(s, s.prev[t], t)
      BY <1>2, <3>1, <3>2, <3>3, TaskAssumption DEF LinksSound
    <3>5. s.prev[t] \in S
      BY <3>1, <3>2, <3>4 DEF SameQueue, Queue, Running
    <3> QED BY <3>3, <3>5
  <2> QED BY <1>1, <1>2, <2>1, <2>2, <2>3, ChainHolds, SMTT(30)
<1>4. Holds(s.next, s.hd_blocked, Blocked(s))
  <2> DEFINE S == Blocked(s)
             h == s.hd_blocked
  <2>1. S \in SUBSET Task /\ h \in S \cup {0}
    BY <1>2 DEF LinksSound, Blocked
  <2>2. \A t \in S : s.next[t] \in S \cup {0}
    BY <1>2 DEF LinksSound, SameQueue, Blocked, Pid
  <2>3. \A t \in S : t = h \/ \E p \in S : s.next[p] = t
    <3> TAKE t \in S
    <3> SUFFICES ASSUME t # h PROVE \E p \in S : s.next[p] = t
      OBVIOUS
    <3>1. t \in Task /\ s.state[t] = "blocked"
      BY DEF Blocked
    <3>2. s.prev[t] # 0 /\ s.prev[t] \in Task
      BY <1>2, <3>1 DEF LinksSound, HeadOf, Pid
    <3>3. s.next[s.prev[t]] = t
      BY <1>2, <3>1, <3>2, SMTT(30) DEF LinksSound
    <3>4. SameQueue(s, s.prev[t], t)
      BY <1>2, <3>1, <3>2, <3>3, TaskAssumption DEF LinksSound
    <3>5. s.prev[t] \in S
      BY <3>1, <3>2, <3>4 DEF SameQueue, Blocked
    <3> QED BY <3>3, <3>5
  <2> QED BY <1>1, <1>2, <2>1, <2>2, <2>3, ChainHolds, Zenon
<1> QED
  BY <1>3, <1>4 DEF QueuesHold

(* The least element of a set of natural numbers, as Highest chooses it.   *)
LEMMA HighestLeast ==
    ASSUME NEW L, L \subseteq Nat, L # {}
    PROVE  Highest(L) \in L /\ \A j \in L : Highest(L) <= j
<1>1. \E i \in L : \A j \in L : i <= j
  BY NatMin, Zenon
<1> QED
  BY <1>1, Zenon DEF Highest

(* r is s but for the timer queue.                                         *)
SameButTimer(r, s) ==
    /\ r.hd_active = s.hd_active /\ r.cr_active = s.cr_active /\ r.hd_blocked = s.hd_blocked
    /\ r.prev = s.prev /\ r.next = s.next /\ r.state = s.state /\ r.isr_next = s.isr_next
    /\ r.alarmsec = s.alarmsec /\ r.alarmns = s.alarmns

(* Changes of the timer queue leave the other queues sound.                *)
LEMMA TimerFrame ==
    ASSUME NEW s, Sound(s), NEW r \in SchedState, SameButTimer(r, s)
    PROVE  Sound(r)
<1>1. \A i \in Levels : s.cr_active[i] \in Queue(s, i) \cup {0}
  BY SMTT(30) DEF Sound, LinksSound
<1> QED
  BY <1>1, FrameSound DEF SameButTimer

(* The insertion of sched_alarm changes the timer queue and nothing else:  *)
(* the task goes to the head, between the task x where the loop stops and  *)
(* the one before it, q, or after x, the last one.                         *)
LEMMA TimerqFields ==
    ASSUME NEW s \in SchedState, NEW t \in Task, NEW sec, NEW ns,
           s.hd_timerq # 0 => Before(s, sec, ns, s.hd_timerq) \/ Stops(s, sec, ns) # {}
    PROVE  LET r == TimerqInsert(s, t, sec, ns)
               n == Highest(Stops(s, sec, ns))
               x == Visit(s)[n]
               q == IF n = 0 THEN 0 ELSE Visit(s)[n-1]
               first == s.hd_timerq = 0 \/ Before(s, sec, ns, s.hd_timerq)
           IN  /\ r \in SchedState /\ SameButTimer(r, s)
               /\ first => r.hd_timerq = t /\ r.alarm = [s.alarm EXCEPT ![t] = s.hd_timerq]
               /\ ~first => /\ n \in Stops(s, sec, ns)
                            /\ \A j \in Stops(s, sec, ns) : n <= j
                            /\ x \in Task /\ q \in Pid
                            /\ r.hd_timerq = s.hd_timerq
                            /\ r.alarm = IF Before(s, sec, ns, x)
                                         THEN [Relink(s.alarm, q, t) EXCEPT ![t] = x]
                                         ELSE [s.alarm EXCEPT ![x] = t]
<1> DEFINE first == s.hd_timerq = 0 \/ Before(s, sec, ns, s.hd_timerq)
           n == Highest(Stops(s, sec, ns))
           x == Visit(s)[n]
           q == IF n = 0 THEN 0 ELSE Visit(s)[n-1]
           a1 == [Relink(s.alarm, q, t) EXCEPT ![t] = x]
           a2 == [s.alarm EXCEPT ![x] = t]
           r == TimerqInsert(s, t, sec, ns)
<1>1. s.alarm \in [Task -> Pid] /\ s.hd_timerq \in Pid /\ t \in Pid
  BY SMTT(30) DEF SchedState, Pid
<1>2. CASE first
  <2>1. r = [s EXCEPT !.alarm[t] = s.hd_timerq, !.hd_timerq = t]
    BY <1>2 DEF TimerqInsert
  <2> HIDE DEF r
  <2>2. /\ r \in SchedState /\ SameButTimer(r, s) /\ r.hd_timerq = t
        /\ r.alarm = [s.alarm EXCEPT ![t] = s.hd_timerq]
    BY <1>1, <2>1, ZenonT(30) DEF SchedState, SameButTimer
  <2> QED BY <1>2, <2>2 DEF r
<1>3. CASE ~first
  <2>1. Cardinality(Task) \in Nat /\ Visit(s) \in [0..Cardinality(Task) -> Pid]
    BY <1>1, ChainSteps DEF Visit
  <2>2. Stops(s, sec, ns) \subseteq 0..Cardinality(Task) /\ Stops(s, sec, ns) \subseteq Nat
    <3>1. Stops(s, sec, ns) \subseteq 0..Cardinality(Task)
      BY DEF Stops
    <3>2. PICK N \in Nat : N = Cardinality(Task)
      BY <2>1
    <3> QED BY <3>1, <3>2
  <2>3. n \in Stops(s, sec, ns) /\ \A j \in Stops(s, sec, ns) : n <= j
    BY <1>3, <2>2, HighestLeast
  <2>4. x \in Task /\ q \in Pid
    <3>1. n \in 0..Cardinality(Task) /\ x # 0
      BY <2>3 DEF Stops
    <3>2. n # 0 => n - 1 \in 0..Cardinality(Task)
      BY <2>1, <3>1, SMTT(30)
    <3> QED BY <2>1, <3>1, <3>2, SMTT(30) DEF Pid
  <2>5. a1 \in [Task -> Pid] /\ a2 \in [Task -> Pid]
    BY <1>1, <2>4 DEF Relink, Pid
  <2>6. r = IF Before(s, sec, ns, x) THEN [s EXCEPT !.alarm = a1] ELSE [s EXCEPT !.alarm = a2]
    BY <1>3 DEF TimerqInsert
  <2> HIDE DEF a1, a2, x, q, n, r
  <2>7. /\ r \in SchedState /\ SameButTimer(r, s) /\ r.hd_timerq = s.hd_timerq
        /\ r.alarm = IF Before(s, sec, ns, x) THEN a1 ELSE a2
    BY <2>5, <2>6, SMTT(30) DEF SchedState, SameButTimer
  <2> QED BY <1>3, <2>3, <2>4, <2>7, SMTT(30) DEF a1, a2, x, q, n, r
<1> QED
  BY <1>2, <1>3, Zenon

(* SYS_alarm blocks the task and sets its alarm.                           *)
LEMMA AlarmSetSound ==
    ASSUME NEW s, Sound(s), NEW t \in Task, s.state[t] = "running",
           NEW sec \in Int, NEW ns \in Nat
    PROVE  LET r == AlarmSet(s, t, sec, ns)
           IN  /\ Sound(r) /\ r.isr_next = s.isr_next
               /\ \A x \in Task : r.state[x] = IF x = t THEN "blocked" ELSE s.state[x]
               /\ r.alarm = s.alarm /\ r.hd_timerq = s.hd_timerq
               /\ \A x \in Task : r.alarmsec[x] = IF x = t THEN sec ELSE s.alarmsec[x]
               /\ \A x \in Task : r.alarmns[x] = IF x = t THEN ns ELSE s.alarmns[x]
<1> DEFINE b == sched_block(s, t)
           r == AlarmSet(s, t, sec, ns)
<1>0. Sound(b)
  BY BlockSound, SMTT(30)
<1>1. /\ Sound(b) /\ b \in SchedState /\ s \in SchedState
      /\ \A i \in Levels : b.cr_active[i] \in Queue(b, i) \cup {0}
  <2> HIDE DEF b
  <2> QED BY <1>0 DEF Sound, LinksSound
<1>2. /\ b.isr_next = s.isr_next /\ b.hd_timerq = s.hd_timerq
      /\ \A x \in Task : b.state[x] = IF x = t THEN "blocked" ELSE s.state[x]
  BY <1>1, BlockFields, SMTT(30)
<1>3. b.alarm = s.alarm /\ b.alarmsec = s.alarmsec /\ b.alarmns = s.alarmns
  BY <1>1, ZenonT(30) DEF sched_block, sched_remove, SchedState
<1>4. r = [b EXCEPT !.alarmsec[t] = sec, !.alarmns[t] = ns]
  BY DEF AlarmSet
<1> HIDE DEF b, r
<1>5. /\ r \in SchedState
      /\ r.next = b.next /\ r.prev = b.prev /\ r.state = b.state
      /\ r.hd_active = b.hd_active /\ r.hd_blocked = b.hd_blocked /\ r.cr_active = b.cr_active
      /\ r.isr_next = b.isr_next /\ r.alarm = b.alarm /\ r.hd_timerq = b.hd_timerq
      /\ \A x \in Task : r.alarmsec[x] = IF x = t THEN sec ELSE b.alarmsec[x]
      /\ \A x \in Task : r.alarmns[x] = IF x = t THEN ns ELSE b.alarmns[x]
  BY <1>1, <1>4, Zenon DEF SchedState
<1>6. Sound(r)
  BY <1>1, <1>5, FrameSound
<1> QED
  BY <1>2, <1>3, <1>5, <1>6 DEF r

(* r is s with the alarm time of t set, which changes neither the timer    *)
(* queue nor the alarm times of others.                                    *)
AlarmTimeSet(s, t, sec, ns, r) ==
    /\ Sound(r) /\ r.alarm = s.alarm /\ r.hd_timerq = s.hd_timerq
    /\ \A x \in Task : r.alarmsec[x] = IF x = t THEN sec ELSE s.alarmsec[x]
    /\ \A x \in Task : r.alarmns[x] = IF x = t THEN ns ELSE s.alarmns[x]

(* sched_alarm sets the alarm time before it looks for the place in the    *)
(* timer queue.                                                            *)
LEMMA AlarmSetKeeps ==
    ASSUME NEW s, Sound(s), NEW t \in Task, s.state[t] = "running",
           NEW sec \in Int, NEW ns \in Nat
    PROVE  AlarmTimeSet(s, t, sec, ns, AlarmSet(s, t, sec, ns))
  BY AlarmSetSound DEF AlarmTimeSet

(* SYS_alarm, when its loop ends, keeps the scheduler sound; the caller is *)
(* blocked or, when the time is past, stays awake.                         *)
LEMMA AlarmSound ==
    ASSUME NEW s, Sound(s), NEW t \in Task, s.state[t] = "running",
           NEW sec \in Int, NEW ns \in Nat, NEW nts \in Nat,
           AlarmReturns(s, t, sec, ns, nts)
    PROVE  LET r == sched_alarm(s, t, sec, ns, nts)
           IN  /\ Sound(r) /\ r.isr_next \in {s.isr_next, t}
               /\ \A x \in Task : x # t => r.state[x] = s.state[x]
               /\ r.state[t] \in {"running", "blocked"}
<1>1. CASE AlarmPast(sec, ns, nts)
  <2>1. sched_alarm(s, t, sec, ns, nts) = sched_awake(s, t)
    BY <1>1 DEF sched_alarm
  <2>2. s \in SchedState
    BY DEF Sound
  <2> QED BY <2>1, <2>2, AwakeSound, AwakeFields
<1>2. CASE ~AlarmPast(sec, ns, nts)
  <2> DEFINE r == AlarmSet(s, t, sec, ns)
  <2>1. /\ Sound(r) /\ r.isr_next = s.isr_next
        /\ \A x \in Task : r.state[x] = IF x = t THEN "blocked" ELSE s.state[x]
    BY AlarmSetSound, SMTT(30)
  <2>2. r.hd_timerq # 0 => Before(r, sec, ns, r.hd_timerq) \/ Stops(r, sec, ns) # {}
    BY <1>2 DEF AlarmReturns
  <2>3. sched_alarm(s, t, sec, ns, nts) = TimerqInsert(r, t, sec, ns)
    BY <1>2 DEF sched_alarm
  <2> HIDE DEF r
  <2>4. r \in SchedState
    BY <2>1, SMTT(30) DEF Sound
  <2> DEFINE q == TimerqInsert(r, t, sec, ns)
  <2>5. q \in SchedState /\ SameButTimer(q, r)
    BY <2>2, <2>4, TimerqFields, Zenon
  <2> HIDE DEF q
  <2>6. Sound(q) /\ q.state = r.state /\ q.isr_next = r.isr_next
    BY <2>1, <2>5, TimerFrame, SMTT(30) DEF SameButTimer
  <2> QED BY <2>1, <2>3, <2>6, SMTT(30) DEF q
<1> QED
  BY <1>1, <1>2, SMTT(30)

(* The timer awakes the task at the head of the timer queue.               *)
LEMMA AlarmAwakeSound ==
    ASSUME NEW s, Sound(s), s.hd_timerq # 0, s.state[s.hd_timerq] # "none"
    PROVE  LET r == AlarmAwake(s)
               t == s.hd_timerq
           IN  /\ Sound(r) /\ r.isr_next = t
               /\ \A x \in Task : r.state[x] = IF x = t THEN "running" ELSE s.state[x]
               /\ r.hd_timerq = s.alarm[t]
               /\ r.alarm = [s.alarm EXCEPT ![t] = 0]
               /\ r.alarmsec = s.alarmsec /\ r.alarmns = s.alarmns
<1> DEFINE t == s.hd_timerq
           w == sched_awake(s, t)
           a == [s.alarm EXCEPT ![t] = 0]
           r == AlarmAwake(s)
<1>1. s \in SchedState /\ t \in Task /\ a \in [Task -> Pid] /\ s.alarm[t] \in Pid
  BY DEF Sound, SchedState, Pid
<1>2. Sound(w) /\ w \in SchedState /\ w.isr_next = t
      /\ \A x \in Task : w.state[x] = IF x = t THEN "running" ELSE s.state[x]
  BY <1>1, AwakeSound, AwakeFields
<1>3. w.alarm = s.alarm /\ w.alarmsec = s.alarmsec /\ w.alarmns = s.alarmns
  BY <1>1 DEF sched_awake, sched_add, SchedState
<1>4. r = [w EXCEPT !.hd_timerq = s.alarm[t], !.alarm[t] = 0]
  BY DEF AlarmAwake
<1> HIDE DEF w, r, t
<1>5. /\ r \in SchedState /\ SameButTimer(r, w)
      /\ r.alarm = a /\ r.hd_timerq = s.alarm[t]
  BY <1>1, <1>2, <1>3, <1>4, Zenon DEF SchedState, SameButTimer
<1>6. Sound(r)
  BY <1>2, <1>5, TimerFrame
<1> QED
  BY <1>2, <1>3, <1>5, <1>6 DEF r, t, SameButTimer
=============================================================================
