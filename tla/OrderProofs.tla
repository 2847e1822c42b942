---------------------------- MODULE OrderProofs ----------------------------
(***************************************************************************)
(* The order of the time slices, for any number of tasks and levels.       *)
(*                                                                         *)
(* The argument is about places in the active queues.  A ranking of the    *)
(* tasks gives every queue its order; sched_add gives the new head a rank  *)
(* below the old one, sched_remove leaves a hole.  The cursor splits a     *)
(* queue into the tasks still to come in this round and the ones that are  *)
(* through, and a task that has a slice goes from the front of the first   *)
(* part to the end of the second.                                          *)
(***************************************************************************)
EXTENDS PickOrder, SchedProofs

(* rank orders each active queue of r the way its links do.                *)
Ordered(r, rank) ==
    \A t, u \in Running(r) : Priority[t] = Priority[u] =>
        /\ t # u => rank[t] # rank[u]
        /\ rank[t] < rank[u] => r.next[t] # 0 /\ rank[r.next[t]] <= rank[u]
        /\ r.next[t] # 0 => rank[t] < rank[r.next[t]]
        /\ r.hd_active[Priority[t]] # 0 /\ rank[r.hd_active[Priority[t]]] <= rank[u]

(* x is at or behind the cursor of its level: still to come in this round. *)
InRound(r, rank, x) ==
    /\ r.cr_active[Priority[x]] # 0
    /\ rank[r.cr_active[Priority[x]]] <= rank[x]

(* v gets its next slice before u does if nobody blocks.                   *)
Earlier(r, rank, v, u) ==
    \/ InRound(r, rank, v) /\ ~InRound(r, rank, u)
    \/ (InRound(r, rank, v) <=> InRound(r, rank, u)) /\ rank[v] < rank[u]

(* Two tasks of a level of which the first has not been passed by u.       *)
Rivals(r, pass, v, u) ==
    /\ u \in Running(r) /\ v \in Running(r) /\ u # v
    /\ Priority[u] = Priority[v]
    /\ v \notin pass[u]

InOrder(r, pass, rank) ==
    /\ Ordered(r, rank)
    /\ \A u, v \in Task : Rivals(r, pass, v, u) => Earlier(r, rank, v, u)

(* The inductive invariant.                                                *)
OrderInv ==
    /\ Sound(s)
    /\ turn \in Pid \cup {Idle}
    /\ passed \in [Task -> SUBSET Task]
    /\ \A t \in Task \ Running(s) : passed[t] = Task /\ \A u \in Task : t \in passed[u]
    /\ \E rank \in [Task -> Int] : InOrder(s, passed, rank)

(* What the order says of two tasks of a level.                            *)
LEMMA OrderedPair ==
    ASSUME NEW r, NEW rank, Ordered(r, rank), NEW t \in Running(r), NEW u \in Running(r),
           Priority[t] = Priority[u]
    PROVE  /\ t # u => rank[t] # rank[u]
           /\ rank[t] < rank[u] => r.next[t] # 0 /\ rank[r.next[t]] <= rank[u]
           /\ r.next[t] # 0 => rank[t] < rank[r.next[t]]
           /\ r.hd_active[Priority[t]] # 0 /\ rank[r.hd_active[Priority[t]]] <= rank[u]
BY DEF Ordered

(* Setting isr_next changes nothing else.                                  *)
LEMMA SetNextFields ==
    ASSUME NEW r \in SchedState, NEW t
    PROVE  LET q == [r EXCEPT !.isr_next = t]
           IN  /\ q.hd_active = r.hd_active /\ q.cr_active = r.cr_active
               /\ q.next = r.next /\ q.state = r.state
  BY DEF SchedState

(* The task sched_pick takes is first in the order, the cursor goes to the *)
(* next one, and the cursors of the other levels at most start over.       *)
LEMMA PickFields ==
    ASSUME NEW r, Sound(r), NEW curr, Picked(r) # Idle
    PROVE  LET q == sched_pick(r, curr)
               t == Picked(r)
           IN  /\ t \in Running(r)
               /\ q.hd_active = r.hd_active /\ q.next = r.next /\ q.state = r.state
               /\ t = IF r.cr_active[Priority[t]] # 0 THEN r.cr_active[Priority[t]]
                      ELSE r.hd_active[Priority[t]]
               /\ q.cr_active[Priority[t]] = r.next[t]
               /\ \A i \in Levels \ {Priority[t]} :
                    \/ q.cr_active[i] = r.cr_active[i]
                    \/ r.cr_active[i] = 0 /\ q.cr_active[i] = r.hd_active[i]
<1> DEFINE i == PickLevel(r)
           t == Picked(r)
           k == RewoundCursors(r)
           c == [k EXCEPT ![i] = r.next[t]]
           q == sched_pick(r, curr)
<1>1. r \in SchedState /\ i \in Levels /\ t \in Queue(r, i)
  BY PickCases DEF Sound
<1>2. t \in Running(r) /\ Priority[t] = i
  BY <1>1 DEF Queue
<1>3. k = [j \in Levels |-> k[j]]
      /\ \A j \in Levels : k[j] = r.cr_active[j] \/ (r.cr_active[j] = 0 /\ k[j] = r.hd_active[j])
  BY DEF RewoundCursors, Rewound
<1>4. t = k[i]
  BY <1>1, TaskAssumption DEF Picked
<1>5. t # 0
  BY <1>2, TaskAssumption DEF Running
<1>6. t = IF r.cr_active[i] # 0 THEN r.cr_active[i] ELSE r.hd_active[i]
  BY <1>1, <1>3, <1>4, <1>5
<1>7. q = [r EXCEPT !.cr_active = c, !.isr_next = IF curr = t THEN r.isr_next ELSE t]
  BY DEF sched_pick
<1>8. c[i] = r.next[t] /\ \A j \in Levels \ {i} : c[j] = k[j]
  BY <1>1, <1>3
<1> HIDE DEF c, q, k, i, t
<1>9. q.hd_active = r.hd_active /\ q.next = r.next /\ q.state = r.state /\ q.cr_active = c
  BY <1>1, <1>7 DEF SchedState
<1> QED
  BY <1>2, <1>3, <1>6, <1>8, <1>9 DEF q, t

(* The idle level is picked only if all others are empty.                  *)
LEMMA PickIdleLevel ==
    ASSUME NEW r, Sound(r), NEW t \in Running(r)
    PROVE  Picked(r) # Idle /\ (Priority[Picked(r)] = PRI_IDLE => Priority[t] = PRI_IDLE)
<1> USE DEF PRI_SYS, PRI_IDLE, Levels
<1>1. Picked(r) # Idle /\ Picked(r) \in Queue(r, PickLevel(r))
  BY PickCases
<1>2. Priority[Picked(r)] = PickLevel(r) /\ t \in Task /\ Priority[t] \in Levels
  BY <1>1, PriorityAssumption DEF Queue, Running
<1>3. r.hd_active[Priority[t]] # 0
  BY <1>2, HeadOfQueue DEF Queue
<1>4. ASSUME Priority[t] # PRI_IDLE PROVE PickLevel(r) # PRI_IDLE
  <2>1. Priority[t] \in ReadyLevels(r)
    BY <1>2, <1>3, <1>4 DEF ReadyLevels
  <2>2. /\ CursorLevels(r) \subseteq ReadyLevels(r)
        /\ ReadyLevels(r) \subseteq PRI_SYS..(PRI_IDLE - 1)
    BY DEF CursorLevels, ReadyLevels
  <2>3. PickLevel(r) \in ReadyLevels(r)
    BY <2>1, <2>2, HighestIn DEF PickLevel
  <2> QED BY <2>2, <2>3
<1> QED
  BY <1>1, <1>2, <1>4

(* The first task of a level is earlier than all others of the level.      *)
LEMMA FirstEarlier ==
    ASSUME NEW r, Sound(r), NEW rank \in [Task -> Int], Ordered(r, rank), NEW t \in Running(r),
           t = IF r.cr_active[Priority[t]] # 0 THEN r.cr_active[Priority[t]]
               ELSE r.hd_active[Priority[t]],
           NEW v \in Running(r), v # t, Priority[v] = Priority[t]
    PROVE  ~Earlier(r, rank, v, t)
<1>1. t \in Task /\ v \in Task /\ rank[t] \in Int /\ rank[v] \in Int
  BY DEF Running
<1>2. CASE r.cr_active[Priority[t]] = t
  BY <1>1, <1>2, TaskAssumption DEF Earlier, InRound
<1>3. CASE r.cr_active[Priority[t]] = 0
  <2>1. rank[t] <= rank[v]
    BY <1>3 DEF Ordered
  <2> QED BY <1>1, <1>3, <2>1 DEF Earlier, InRound
<1> QED
  BY <1>2, <1>3

(* A slice of t: round robin within its level, and the order goes on.      *)
LEMMA PickKeepsOrder ==
    ASSUME NEW r, Sound(r), NEW rank \in [Task -> Int], NEW pass \in [Task -> SUBSET Task],
           InOrder(r, pass, rank), NEW curr, Picked(r) # Idle,
           NEW q, q.hd_active = r.hd_active, q.next = r.next, q.state = r.state,
           q.cr_active = sched_pick(r, curr).cr_active,
           NEW pass2 \in [Task -> SUBSET Task],
           \A u \in Task \ {Picked(r)} : pass2[u] = pass[u] \cup {Picked(r)}
    PROVE  /\ Queue(r, Priority[Picked(r)]) \subseteq pass[Picked(r)] \cup {Picked(r)}
           /\ InOrder(q, pass2, rank)
<1> DEFINE t == Picked(r)
           i == Priority[t]
           n == r.next[t]
<1>1. /\ t \in Running(r) /\ t \in Task /\ i \in Levels
      /\ t = IF r.cr_active[i] # 0 THEN r.cr_active[i] ELSE r.hd_active[i]
      /\ q.cr_active[i] = n
      /\ \A j \in Levels \ {i} :
            \/ q.cr_active[j] = r.cr_active[j]
            \/ r.cr_active[j] = 0 /\ q.cr_active[j] = r.hd_active[j]
  BY PickFields, PriorityAssumption DEF Running
<1>2. Ordered(r, rank) /\ Ordered(q, rank) /\ Running(q) = Running(r)
  BY DEF InOrder, Ordered, Running
<1>3. r \in SchedState /\ LinksSound(r) /\ n \in Pid
  BY <1>1, SMTT(30) DEF Sound, SchedState
<1>4. n # 0 => n \in Running(r) /\ Priority[n] = i /\ rank[t] < rank[n]
  <2> SUFFICES ASSUME n # 0 PROVE n \in Running(r) /\ Priority[n] = i /\ rank[t] < rank[n]
    OBVIOUS
  <2>1. n \in Task
    BY <1>3 DEF Pid
  <2>2. n \in Running(r) /\ Priority[n] = i
    BY <1>1, <1>3, <2>1 DEF LinksSound, SameQueue, Running
  <2> QED BY <1>1, <1>2, <2>2 DEF Ordered
<1>5. Queue(r, i) \subseteq pass[t] \cup {t}
  <2> SUFFICES ASSUME NEW v \in Queue(r, i), v # t, v \notin pass[t] PROVE FALSE
    OBVIOUS
  <2>1. v \in Running(r) /\ v \in Task /\ Priority[v] = i
    BY DEF Queue, Running
  <2>2. Rivals(r, pass, v, t)
    BY <1>1, <2>1 DEF Rivals
  <2>3. Earlier(r, rank, v, t)
    BY <1>1, <2>1, <2>2 DEF InOrder
  <2>4. ~Earlier(r, rank, v, t)
    BY <1>1, <1>2, <2>1, FirstEarlier
  <2> QED BY <2>3, <2>4
<1>6. ASSUME NEW u \in Task, NEW v \in Task, Rivals(q, pass2, v, u) PROVE Earlier(q, rank, v, u)
  <2>0. /\ u \in Running(r) /\ v \in Running(r) /\ u # v /\ Priority[u] = Priority[v]
        /\ rank[u] \in Int /\ rank[v] \in Int /\ rank[u] # rank[v] /\ Priority[u] \in Levels
    BY <1>2, <1>6, PriorityAssumption DEF Rivals, Ordered
  <2> DEFINE j == Priority[u]
  <2>1. CASE u = t
    <3>1. CASE n = 0
      <4>1. rank[v] < rank[t]
        <5>1. ~ (rank[t] < rank[v])
          BY <1>1, <1>2, <2>0, <2>1, <3>1 DEF Ordered
        <5> QED BY <2>0, <2>1, <5>1, SMTT(30)
      <4>2. ~InRound(q, rank, u) /\ ~InRound(q, rank, v)
        BY <1>1, <2>0, <2>1, <3>1 DEF InRound
      <4> QED BY <2>1, <4>1, <4>2 DEF Earlier
    <3>2. CASE n # 0
      <4>1. rank[n] \in Int /\ rank[t] < rank[n] /\ (rank[t] < rank[v] => rank[n] <= rank[v])
        BY <1>1, <1>2, <1>4, <2>0, <2>1, <3>2, SMTT(30) DEF Ordered, Running
      <4>2. ~InRound(q, rank, u)
        BY <1>1, <2>0, <2>1, <4>1 DEF InRound
      <4>3. InRound(q, rank, v) <=> rank[n] <= rank[v]
        BY <1>1, <2>0, <2>1, <3>2 DEF InRound
      <4> QED BY <2>0, <2>1, <4>1, <4>2, <4>3, SMTT(30) DEF Earlier
    <3> QED BY <3>1, <3>2
  <2>2. CASE u # t
    <3>1. v # t /\ v \notin pass[u]
      BY <1>6, <2>2 DEF Rivals
    <3>2. Earlier(r, rank, v, u)
      BY <2>0, <3>1 DEF InOrder, Rivals
    <3>3. CASE j # i
      <4>1. CASE q.cr_active[j] = r.cr_active[j]
        BY <2>0, <3>2, <4>1 DEF Earlier, InRound
      <4>2. CASE r.cr_active[j] = 0 /\ q.cr_active[j] = r.hd_active[j]
        <5>1. r.hd_active[j] # 0 /\ rank[r.hd_active[j]] <= rank[u] /\ rank[r.hd_active[j]] <= rank[v]
          BY <1>2, <2>0 DEF Ordered
        <5>2. InRound(q, rank, u) /\ InRound(q, rank, v) /\ ~InRound(r, rank, u) /\ ~InRound(r, rank, v)
          BY <2>0, <4>2, <5>1 DEF InRound
        <5> QED BY <3>2, <5>2 DEF Earlier
      <4> QED BY <1>1, <2>0, <3>3, <4>1, <4>2, SMTT(30)
    <3>4. CASE j = i
      <4>1. /\ t \in Running(r) /\ Priority[t] = Priority[u] /\ Priority[t] = Priority[v]
            /\ Priority[u] = i /\ Priority[v] = i /\ rank[t] \in Int /\ t # u /\ t # v
        BY <1>1, <2>0, <2>2, <3>1, <3>4
      <4>2. /\ rank[t] # rank[u] /\ (rank[t] < rank[u] => n # 0 /\ rank[n] <= rank[u])
            /\ r.hd_active[i] # 0 /\ rank[r.hd_active[i]] <= rank[u]
        BY <1>2, <2>0, <4>1, OrderedPair
      <4>3. /\ rank[t] # rank[v] /\ (rank[t] < rank[v] => n # 0 /\ rank[n] <= rank[v])
            /\ rank[r.hd_active[i]] <= rank[v]
        BY <1>2, <2>0, <4>1, OrderedPair
      <4>4. n # 0 => rank[n] \in Int /\ rank[t] < rank[n]
        BY <1>4 DEF Running
      <4>5. (InRound(q, rank, u) <=> rank[t] < rank[u]) /\ (InRound(q, rank, v) <=> rank[t] < rank[v])
        <5>1. /\ InRound(q, rank, u) <=> n # 0 /\ rank[n] <= rank[u]
              /\ InRound(q, rank, v) <=> n # 0 /\ rank[n] <= rank[v]
          BY <1>1, <4>1 DEF InRound
        <5>2. (n # 0 /\ rank[n] <= rank[u]) <=> rank[t] < rank[u]
          BY <2>0, <4>1, <4>2, <4>4, SMTT(30)
        <5>3. (n # 0 /\ rank[n] <= rank[v]) <=> rank[t] < rank[v]
          BY <2>0, <4>1, <4>3, <4>4, SMTT(30)
        <5> QED BY <5>1, <5>2, <5>3, Zenon
      <4>6. CASE r.cr_active[i] # 0
        <5>1. t = r.cr_active[i]
          BY <1>1, <4>6
        <5>2. (InRound(r, rank, u) <=> rank[t] <= rank[u]) /\ (InRound(r, rank, v) <=> rank[t] <= rank[v])
          BY <4>1, <4>6, <5>1 DEF InRound
        <5>3. (rank[t] <= rank[u] <=> rank[t] < rank[u]) /\ (rank[t] <= rank[v] <=> rank[t] < rank[v])
          BY <2>0, <4>1, <4>2, <4>3
        <5> QED BY <3>2, <4>5, <5>2, <5>3, SMTT(30) DEF Earlier
      <4>7. CASE r.cr_active[i] = 0
        <5>1. t = r.hd_active[i]
          BY <1>1, <4>7
        <5>2. rank[t] < rank[u] /\ rank[t] < rank[v]
          BY <2>0, <4>1, <4>2, <4>3, <5>1
        <5>3. ~InRound(r, rank, u) /\ ~InRound(r, rank, v)
          BY <4>1, <4>7 DEF InRound
        <5> QED BY <3>2, <4>5, <5>2, <5>3 DEF Earlier
      <4> QED BY <4>6, <4>7
    <3> QED BY <3>3, <3>4
  <2> QED BY <2>1, <2>2
<1> QED
  BY <1>2, <1>5, <1>6 DEF InOrder

(* A task that leaves its queue does not disturb the order of the others,  *)
(* even if it is the head of the queue or its cursor stands on it.         *)
LEMMA BlockKeepsOrder ==
    ASSUME NEW r, Sound(r), NEW rank \in [Task -> Int], NEW pass \in [Task -> SUBSET Task],
           InOrder(r, pass, rank), NEW t \in Running(r),
           NEW pass2 \in [Task -> SUBSET Task],
           \A u \in Task \ {t} : pass2[u] = pass[u] \cup {t}
    PROVE  InOrder(sched_block(r, t), pass2, rank)
<1> DEFINE q == sched_block(r, t)
           n == r.next[t]
           i == Priority[t]
<1>1. /\ r \in SchedState /\ LinksSound(r) /\ t \in Task /\ t # 0 /\ i \in Levels
      /\ r.prev[t] \in Pid /\ n \in Pid
  BY TaskAssumption, PriorityAssumption DEF Sound, Running, SchedState
<1>2. /\ \A x \in Task : q.state[x] = IF x = t THEN "blocked" ELSE r.state[x]
      /\ \A j \in Levels : q.hd_active[j] = IF j = i /\ r.hd_active[j] = t THEN n ELSE r.hd_active[j]
      /\ \A j \in Levels : q.cr_active[j] = IF j = i /\ r.cr_active[j] = t THEN n ELSE r.cr_active[j]
      /\ \A x \in Task \ {t} : q.next[x] = IF x = r.prev[t] THEN n ELSE r.next[x]
  BY <1>1, BlockFields
<1> HIDE DEF q
<1>3. Running(q) = Running(r) \ {t}
  BY <1>1, <1>2 DEF Running
<1>4. Ordered(r, rank)
  BY DEF InOrder
<1>5. r.prev[t] # 0 => r.next[r.prev[t]] = t
  BY <1>1 DEF LinksSound
<1>6. n # 0 => n \in Task /\ rank[n] \in Int /\ rank[t] < rank[n]
  BY <1>1, <1>4 DEF Ordered, Pid
<1>7. \A x \in Running(q) : x \in Running(r) /\ x \in Task /\ x # t /\ rank[x] \in Int /\ Priority[x] \in Levels
  BY <1>3, PriorityAssumption DEF Running
<1>8. ASSUME NEW x \in Running(q), Priority[x] = i
      PROVE  rank[x] # rank[t] /\ rank[t] \in Int
             /\ (rank[t] < rank[x] => n # 0 /\ rank[n] <= rank[x])
  BY <1>1, <1>4, <1>7, <1>8 DEF Ordered
<1>9. Ordered(q, rank)
  <2> SUFFICES ASSUME NEW a \in Running(q), NEW b \in Running(q), Priority[a] = Priority[b]
               PROVE  /\ a # b => rank[a] # rank[b]
                      /\ rank[a] < rank[b] => q.next[a] # 0 /\ rank[q.next[a]] <= rank[b]
                      /\ q.next[a] # 0 => rank[a] < rank[q.next[a]]
                      /\ q.hd_active[Priority[a]] # 0 /\ rank[q.hd_active[Priority[a]]] <= rank[b]
    BY DEF Ordered
  <2>1. /\ a # b => rank[a] # rank[b]
        /\ rank[a] < rank[b] => r.next[a] # 0 /\ rank[r.next[a]] <= rank[b]
        /\ r.next[a] # 0 => rank[a] < rank[r.next[a]]
        /\ r.hd_active[Priority[a]] # 0 /\ rank[r.hd_active[Priority[a]]] <= rank[b]
    BY <1>4, <1>7 DEF Ordered
  <2>2. /\ rank[a] < rank[b] => q.next[a] # 0 /\ rank[q.next[a]] <= rank[b]
        /\ q.next[a] # 0 => rank[a] < rank[q.next[a]]
    <3>1. CASE a = r.prev[t]
      <4>1. r.next[a] = t /\ a # 0 /\ Priority[a] = i /\ Priority[b] = i
        BY <1>1, <1>5, <1>7, <3>1, TaskAssumption, SMTT(30) DEF LinksSound, SameQueue, Running
      <4>2. q.next[a] = n
        BY <1>2, <1>7, <3>1
      <4>3. rank[a] < rank[t]
        BY <1>1, <2>1, <4>1
      <4>4. rank[t] # rank[b] /\ rank[t] \in Int /\ (rank[t] < rank[b] => n # 0 /\ rank[n] <= rank[b])
        BY <1>8, <4>1
      <4>5. rank[a] < rank[b] => rank[t] <= rank[b]
        BY <2>1, <4>1
      <4>6. rank[a] \in Int /\ rank[b] \in Int
        BY <1>7
      <4> HIDE DEF n
      <4> QED BY <1>6, <4>2, <4>3, <4>4, <4>5, <4>6, SMTT(30)
    <3>2. CASE a # r.prev[t]
      <4>1. q.next[a] = r.next[a]
        BY <1>2, <1>7, <3>2
      <4> QED BY <2>1, <4>1
    <3> QED BY <3>1, <3>2
  <2>4. q.hd_active[Priority[a]] # 0 /\ rank[q.hd_active[Priority[a]]] <= rank[b]
    <3>1. CASE Priority[a] = i /\ r.hd_active[i] = t
      <4>1. rank[t] # rank[b] /\ rank[t] \in Int /\ (rank[t] < rank[b] => n # 0 /\ rank[n] <= rank[b])
        BY <1>8, <3>1, Zenon
      <4>2. rank[t] <= rank[b] /\ rank[b] \in Int
        BY <1>7, <2>1, <3>1
      <4>3. q.hd_active[Priority[a]] = n
        BY <1>1, <1>2, <3>1
      <4> HIDE DEF n
      <4> QED BY <4>1, <4>2, <4>3
    <3>2. CASE ~ (Priority[a] = i /\ r.hd_active[i] = t)
      <4>1. q.hd_active[Priority[a]] = r.hd_active[Priority[a]]
        BY <1>2, <1>7, <3>2
      <4> QED BY <2>1, <4>1
    <3> QED BY <3>1, <3>2
  <2> QED BY <2>1, <2>2, <2>4
<1>10. ASSUME NEW u \in Task, NEW v \in Task, Rivals(q, pass2, v, u) PROVE Earlier(q, rank, v, u)
  <2>1. /\ u \in Running(q) /\ v \in Running(q) /\ u # v /\ Priority[u] = Priority[v]
        /\ v \notin pass[u] /\ u # t /\ v # t
    BY <1>3, <1>10 DEF Rivals
  <2>2. Earlier(r, rank, v, u)
    BY <1>7, <2>1 DEF InOrder, Rivals
  <2>3. ASSUME NEW x \in {u, v}
        PROVE  InRound(q, rank, x) <=> InRound(r, rank, x)
    <3>1. x \in Running(q) /\ x # t /\ rank[x] \in Int /\ Priority[x] \in Levels
      BY <1>7, <2>1
    <3>2. CASE Priority[x] = i /\ r.cr_active[i] = t
      <4>1. InRound(r, rank, x) <=> rank[t] <= rank[x]
        BY <1>1, <3>2 DEF InRound
      <4>2. q.cr_active[i] = n
        BY <1>1, <1>2, <3>2
      <4>3. InRound(q, rank, x) <=> n # 0 /\ rank[n] <= rank[x]
        BY <3>2, <4>2 DEF InRound
      <4>4. rank[x] # rank[t] /\ rank[t] \in Int
             /\ (rank[t] < rank[x] => n # 0 /\ rank[n] <= rank[x])
        BY <1>8, <3>1, <3>2
      <4> HIDE DEF n
      <4> QED BY <1>6, <3>1, <4>1, <4>3, <4>4, SMTT(30)
    <3>3. CASE ~ (Priority[x] = i /\ r.cr_active[i] = t)
      <4>1. q.cr_active[Priority[x]] = r.cr_active[Priority[x]]
        BY <1>2, <3>1, <3>3
      <4> QED BY <4>1 DEF InRound
    <3> QED BY <3>2, <3>3
  <2> QED BY <2>2, <2>3 DEF Earlier
<1>11. InOrder(q, pass2, rank)
  BY <1>9, <1>10 DEF InOrder
<1> QED
  BY <1>11 DEF q

(* A task that enters its queue gets in front of the others and does not   *)
(* disturb their order.                                                    *)
LEMMA AddKeepsOrder ==
    ASSUME NEW r, Sound(r), NEW rank \in [Task -> Int], NEW pass \in [Task -> SUBSET Task],
           InOrder(r, pass, rank), NEW t \in Task, t \notin Running(r),
           pass[t] = Task, \A u \in Task : t \in pass[u],
           NEW q, Running(q) = Running(r) \cup {t}, q.cr_active = r.cr_active,
           \A j \in Levels : q.hd_active[j] = IF j = Priority[t] THEN t ELSE r.hd_active[j],
           \A x \in Running(r) : q.next[x] = r.next[x],
           q.next[t] = r.hd_active[Priority[t]]
    PROVE  \E rank2 \in [Task -> Int] : InOrder(q, pass, rank2)
<1> DEFINE i == Priority[t]
           h == r.hd_active[i]
           k == IF h = 0 THEN 0 ELSE rank[h] - 1
           rank2 == [rank EXCEPT ![t] = k]
<1>1. /\ r \in SchedState /\ LinksSound(r) /\ t # 0 /\ i \in Levels
      /\ h \in Queue(r, i) \cup {0}
      /\ \A j \in Levels : r.cr_active[j] \in Queue(r, j) \cup {0}
  BY TaskAssumption, PriorityAssumption DEF Sound, LinksSound
<1>2. h # 0 => h \in Running(r) /\ Priority[h] = i /\ rank[h] \in Int
  BY <1>1 DEF Queue, Running
<1>3. k \in Int /\ rank2 \in [Task -> Int] /\ rank2[t] = k /\ \A x \in Task \ {t} : rank2[x] = rank[x]
  BY <1>2
<1>4. Ordered(r, rank)
  BY DEF InOrder
<1>5. ASSUME NEW x \in Running(r) PROVE x \in Task \ {t} /\ rank2[x] = rank[x] /\ rank[x] \in Int
                                        /\ Priority[x] \in Levels
  BY <1>3, PriorityAssumption DEF Running
<1>6. ASSUME NEW x \in Running(r), Priority[x] = i PROVE h # 0 /\ rank[h] <= rank[x] /\ k < rank[x]
  <2>1. h # 0 /\ rank[h] <= rank[x]
    BY <1>4, <1>6 DEF Ordered
  <2> QED BY <1>2, <1>5, <2>1
<1>7. ASSUME NEW x \in Running(r), r.next[x] # 0
      PROVE  r.next[x] \in Running(r)
  BY <1>1, <1>7, SMTT(30) DEF LinksSound, SameQueue, Running, SchedState, Pid
<1> HIDE DEF rank2, k
<1>8. Ordered(q, rank2)
  <2> SUFFICES ASSUME NEW a \in Running(q), NEW b \in Running(q), Priority[a] = Priority[b]
               PROVE  /\ a # b => rank2[a] # rank2[b]
                      /\ rank2[a] < rank2[b] => q.next[a] # 0 /\ rank2[q.next[a]] <= rank2[b]
                      /\ q.next[a] # 0 => rank2[a] < rank2[q.next[a]]
                      /\ q.hd_active[Priority[a]] # 0 /\ rank2[q.hd_active[Priority[a]]] <= rank2[b]
    BY DEF Ordered
  <2>1. CASE a # t /\ b # t
    <3>1. a \in Running(r) /\ b \in Running(r) /\ q.next[a] = r.next[a]
      BY <2>1
    <3>2. /\ a # b => rank[a] # rank[b]
          /\ rank[a] < rank[b] => r.next[a] # 0 /\ rank[r.next[a]] <= rank[b]
          /\ r.next[a] # 0 => rank[a] < rank[r.next[a]]
          /\ r.hd_active[Priority[a]] # 0 /\ rank[r.hd_active[Priority[a]]] <= rank[b]
      BY <1>4, <3>1 DEF Ordered
    <3>3. r.next[a] # 0 => rank2[r.next[a]] = rank[r.next[a]]
      BY <1>5, <1>7, <3>1
    <3>4. q.hd_active[Priority[a]] # 0 /\ rank2[q.hd_active[Priority[a]]] <= rank2[b]
      <4>1. CASE Priority[a] = i
        <5>1. q.hd_active[Priority[a]] = t
          BY <1>1, <4>1
        <5>2. k < rank[b] /\ rank2[b] = rank[b] /\ rank[b] \in Int
          BY <1>5, <1>6, <3>1, <4>1, Zenon
        <5> QED BY <1>1, <1>3, <5>1, <5>2
      <4>2. CASE Priority[a] # i
        <5>1. q.hd_active[Priority[a]] = r.hd_active[Priority[a]]
          BY <1>5, <3>1, <4>2, SMTT(30)
        <5>2. r.hd_active[Priority[a]] \in Running(r)
          BY <1>1, <1>5, <3>1, <3>2, SMTT(30) DEF LinksSound, Queue
        <5> QED BY <1>5, <3>1, <3>2, <5>1, <5>2, SMTT(30)
      <4> QED BY <4>1, <4>2
    <3> QED BY <1>5, <3>1, <3>2, <3>3, <3>4
  <2>2. CASE a = t /\ b # t
    <3>1. b \in Running(r) /\ Priority[b] = i /\ rank2[b] = rank[b] /\ rank[b] \in Int
      BY <1>5, <2>2, SMTT(30)
    <3>2. h # 0 /\ rank[h] <= rank[b] /\ k < rank[b] /\ rank2[h] = rank[h] /\ rank[h] \in Int
      BY <1>2, <1>5, <1>6, <3>1, SMTT(30)
    <3>3. k < rank[h]
      BY <3>2, SMTT(30) DEF k
    <3> QED BY <1>1, <1>3, <2>2, <3>1, <3>2, <3>3, SMTT(30)
  <2>3. CASE a # t /\ b = t
    <3>1. a \in Running(r) /\ Priority[a] = i /\ rank2[a] = rank[a] /\ rank[a] \in Int /\ q.next[a] = r.next[a]
      BY <1>5, <2>3
    <3>2. k < rank[a]
      BY <1>6, <3>1
    <3>3. r.next[a] # 0 => rank2[r.next[a]] = rank[r.next[a]] /\ rank[a] < rank[r.next[a]]
      BY <1>4, <1>5, <1>7, <3>1, SMTT(30) DEF Ordered
    <3> QED BY <1>1, <1>3, <2>3, <3>1, <3>2, <3>3, SMTT(30)
  <2>4. CASE a = t /\ b = t
    <3>1. h # 0 => rank2[h] = rank[h] /\ k < rank[h]
      BY <1>2, <1>5 DEF k
    <3> QED BY <1>1, <1>3, <2>4, <3>1, SMTT(30)
  <2> QED BY <2>1, <2>2, <2>3, <2>4, SMTT(30)
<1>9. ASSUME NEW u \in Task, NEW v \in Task, Rivals(q, pass, v, u) PROVE Earlier(q, rank2, v, u)
  <2>1. u # t /\ v # t
    BY <1>9 DEF Rivals
  <2>2. u \in Running(r) /\ v \in Running(r) /\ Rivals(r, pass, v, u)
    BY <1>9, <2>1 DEF Rivals
  <2>3. Earlier(r, rank, v, u)
    BY <2>2 DEF InOrder
  <2>4. ASSUME NEW x \in Running(r) PROVE InRound(q, rank2, x) <=> InRound(r, rank, x)
    <3>1. r.cr_active[Priority[x]] # 0 => r.cr_active[Priority[x]] \in Running(r)
      BY <1>1, <1>5 DEF Queue
    <3> QED BY <1>5, <3>1 DEF InRound
  <2> QED BY <1>5, <2>2, <2>3, <2>4 DEF Earlier
<1>10. InOrder(q, pass, rank2)
  BY <1>8, <1>9 DEF InOrder
<1> QED
  BY <1>3, <1>10

(* The properties of a slice hold, and it keeps the invariant.             *)
LEMMA PickStep ==
    ASSUME OrderInv, Pick
    PROVE  OrderInv' /\ RoundRobin /\ IdleLevelLast
<1> DEFINE t == Picked(s)
           p == sched_pick(s, turn)
<1>1. /\ turn' = t /\ s' = [p EXCEPT !.isr_next = 0]
      /\ passed' = [u \in Task |-> IF u = t THEN Task \ Running(s) ELSE passed[u] \cup ({t} \cap Task)]
  BY DEF Pick
<1>2. PICK rank \in [Task -> Int] : InOrder(s, passed, rank)
  BY DEF OrderInv
<1>3. /\ Sound(s) /\ passed \in [Task -> SUBSET Task]
      /\ \A x \in Task \ Running(s) : passed[x] = Task /\ \A u \in Task : x \in passed[u]
  BY DEF OrderInv
<1>4. Sound(p) /\ p.state = s.state /\ p \in SchedState
  BY <1>3, PickSound DEF Sound
<1>5. /\ Sound(s') /\ s'.state = s.state
      /\ s'.hd_active = p.hd_active /\ s'.cr_active = p.cr_active /\ s'.next = p.next
  BY <1>1, <1>4, SetNextSound, SetNextFields DEF Pid
<1>6. Running(s') = Running(s)
  BY <1>5 DEF Running
<1>7. t \in Pid \cup {Idle}
  BY <1>3, PickCases DEF Queue, Running, Pid
<1>8. passed' \in [Task -> SUBSET Task]
  BY <1>1, <1>3
<1>9. \A x \in Task \ Running(s') : passed'[x] = Task /\ \A u \in Task : x \in passed'[u]
  <2>1. t \in Task => t \in Running(s)
    BY <1>3, PickCases, TaskAssumption DEF Queue, Pid
  <2> QED BY <1>1, <1>3, <1>6, <2>1
<1>10. RoundRobin /\ InOrder(s', passed', rank)
  <2>1. CASE t # Idle
    <3>1. t \in Task
      BY <1>3, <2>1, PickCases DEF Queue, Running
    <3>2. \A u \in Task \ {t} : passed'[u] = passed[u] \cup {t}
      BY <1>1, <3>1
    <3>3. p.hd_active = s.hd_active /\ p.next = s.next
      BY <1>3, <2>1, PickFields, SMTT(30)
    <3>4. Queue(s, Priority[t]) \subseteq passed[t] \cup {t} /\ InOrder(s', passed', rank)
      <4> HIDE DEF t, p
      <4> QED BY <1>2, <1>3, <1>5, <1>8, <2>1, <3>2, <3>3, PickKeepsOrder DEF t, p
    <3> QED BY <1>1, <3>4 DEF RoundRobin
  <2>2. CASE t = Idle
    <3>1. Running(s) = {}
      BY <1>3, <2>2, PickCases
    <3>2. turn' \notin Task
      BY <1>1, <2>2, TaskAssumption DEF Pid
    <3>3. InOrder(s', passed', rank)
      BY <1>6, <3>1 DEF InOrder, Ordered, Rivals
    <3> QED BY <3>2, <3>3 DEF RoundRobin
  <2> QED BY <2>1, <2>2
<1>11. IdleLevelLast
  BY <1>1, <1>3, PickIdleLevel DEF IdleLevelLast
<1>12. OrderInv'
  <2>1. \E rank2 \in [Task -> Int] : InOrder(s', passed', rank2)
    BY <1>10
  <2>2. turn' \in Pid \cup {Idle}
    BY <1>1, <1>7
  <2> QED BY <1>5, <1>8, <1>9, <2>1, <2>2 DEF OrderInv
<1> QED
  BY <1>10, <1>11, <1>12

(* A task that is created gets in front of its queue.                      *)
LEMMA LoadStep ==
    ASSUME OrderInv, NEW t \in Task, Load(t)
    PROVE  OrderInv'
<1>1. s.state[t] = "none" /\ s' = task_load(s, t) /\ UNCHANGED <<turn, passed>>
  BY DEF Load
<1>2. PICK rank \in [Task -> Int] : InOrder(s, passed, rank)
  BY DEF OrderInv
<1>3. /\ Sound(s) /\ s \in SchedState /\ passed \in [Task -> SUBSET Task]
      /\ \A x \in Task \ Running(s) : passed[x] = Task /\ \A u \in Task : x \in passed[u]
  BY DEF OrderInv, Sound
<1>4. Sound(s')
  BY <1>1, <1>3, LoadSound, SMTT(30)
<1>5. Running(s') = Running(s) \cup {t} /\ t \notin Running(s)
  BY <1>1, <1>3, LoadFields DEF Running
<1>6. \E rank2 \in [Task -> Int] : InOrder(s', passed, rank2)
  <2>1. /\ s'.cr_active = s.cr_active
        /\ \A j \in Levels : s'.hd_active[j] = IF j = Priority[t] THEN t ELSE s.hd_active[j]
        /\ \A x \in Running(s) : s'.next[x] = s.next[x]
        /\ s'.next[t] = s.hd_active[Priority[t]]
    BY <1>1, <1>3, <1>5, LoadFields DEF Running
  <2> QED BY <1>2, <1>3, <1>5, <2>1, AddKeepsOrder, SMTT(30)
<1>7. \A x \in Task \ Running(s') : passed'[x] = Task /\ \A u \in Task : x \in passed'[u]
  BY <1>1, <1>3, <1>5
<1>8. turn' \in Pid \cup {Idle} /\ passed' \in [Task -> SUBSET Task]
  BY <1>1, <1>3 DEF OrderInv
<1>9. \E rank2 \in [Task -> Int] : InOrder(s', passed', rank2)
  BY <1>1, <1>6, SMTT(30)
<1> QED
  BY <1>4, <1>7, <1>8, <1>9 DEF OrderInv

(* So does one that is awaken; its neighbours in the blocked queue are     *)
(* not in the active ones.                                                 *)
LEMMA AwakeStep ==
    ASSUME OrderInv, NEW t \in Task, Awake(t)
    PROVE  OrderInv'
<1> DEFINE a == sched_awake(s, t)
<1>1. s.state[t] = "blocked" /\ s' = [a EXCEPT !.isr_next = 0] /\ UNCHANGED <<turn, passed>>
  BY DEF Awake
<1>2. PICK rank \in [Task -> Int] : InOrder(s, passed, rank)
  BY DEF OrderInv
<1>3. /\ Sound(s) /\ s \in SchedState /\ passed \in [Task -> SUBSET Task]
      /\ \A x \in Task \ Running(s) : passed[x] = Task /\ \A u \in Task : x \in passed[u]
  BY DEF OrderInv, Sound
<1>4. Sound(a) /\ a \in SchedState
  BY <1>1, <1>3, AwakeSound DEF Sound
<1>5. /\ Sound(s') /\ s'.state = a.state
      /\ s'.hd_active = a.hd_active /\ s'.cr_active = a.cr_active /\ s'.next = a.next
  BY <1>1, <1>4, SetNextSound, SetNextFields DEF Pid
<1>6. Running(s') = Running(s) \cup {t} /\ t \notin Running(s)
  BY <1>1, <1>3, <1>5, AwakeFields, SMTT(30) DEF Running
<1>7. s.prev[t] \notin Running(s) \cup {t}
  <2>1. s.prev[t] \in Pid /\ LinksSound(s) /\ Ranked(s)
    BY <1>3 DEF Sound, SchedState
  <2>2. CASE s.prev[t] = 0
    BY <2>2, TaskAssumption DEF Running
  <2>3. CASE s.prev[t] # 0
    <3>1. s.prev[t] \in Task /\ s.next[s.prev[t]] = t /\ t # 0
      BY <2>1, <2>3, TaskAssumption, SMTT(30) DEF Pid, LinksSound
    <3>2. SameQueue(s, s.prev[t], t)
      BY <2>1, <3>1 DEF LinksSound
    <3>3. s.prev[t] # t
      BY <2>1, <3>1 DEF Ranked
    <3> QED BY <1>1, <3>2, <3>3, SMTT(30) DEF SameQueue, Running
  <2> QED BY <2>2, <2>3
<1>8. \E rank2 \in [Task -> Int] : InOrder(s', passed, rank2)
  <2>1. /\ s'.cr_active = s.cr_active
        /\ \A j \in Levels : s'.hd_active[j] = IF j = Priority[t] THEN t ELSE s.hd_active[j]
    BY <1>1, <1>3, <1>5, AwakeLinks
  <2>2. \A x \in Task : a.next[x] = IF x = s.prev[t] THEN s.next[t]
                                    ELSE IF x = t THEN s.hd_active[Priority[t]] ELSE s.next[x]
    BY <1>1, <1>3, AwakeLinks, SMTT(30)
  <2>3. /\ \A x \in Running(s) : s'.next[x] = s.next[x]
        /\ s'.next[t] = s.hd_active[Priority[t]]
    BY <1>5, <1>6, <1>7, <2>2 DEF Running
  <2> QED BY <1>2, <1>3, <1>6, <2>1, <2>3, AddKeepsOrder
<1>9. \A x \in Task \ Running(s') : passed'[x] = Task /\ \A u \in Task : x \in passed'[u]
  BY <1>1, <1>3, <1>6
<1>10. turn' \in Pid \cup {Idle} /\ passed' \in [Task -> SUBSET Task]
  BY <1>1, <1>3 DEF OrderInv
<1>11. \E rank2 \in [Task -> Int] : InOrder(s', passed', rank2)
  BY <1>1, <1>8
<1> QED
  BY <1>5, <1>9, <1>10, <1>11 DEF OrderInv

(* A task that blocks is passed by all others.                             *)
LEMMA BlockStep ==
    ASSUME OrderInv, NEW t \in Task, Block(t)
    PROVE  OrderInv'
<1>1. /\ s.state[t] = "running" /\ s' = sched_block(s, t) /\ turn' = turn
      /\ passed' = [u \in Task |-> IF u = t THEN Task ELSE passed[u] \cup {t}]
  BY DEF Block
<1>2. PICK rank \in [Task -> Int] : InOrder(s, passed, rank)
  BY DEF OrderInv
<1>3. /\ Sound(s) /\ s \in SchedState /\ passed \in [Task -> SUBSET Task]
      /\ \A x \in Task \ Running(s) : passed[x] = Task /\ \A u \in Task : x \in passed[u]
  BY DEF OrderInv, Sound
<1>4. Sound(s')
  BY <1>1, <1>3, BlockSound, SMTT(30)
<1>5. Running(s') = Running(s) \ {t} /\ t \in Running(s)
  BY <1>1, <1>3, BlockFields DEF Running
<1>6. passed' \in [Task -> SUBSET Task]
  BY <1>1, <1>3
<1>7. \A x \in Task \ Running(s') : passed'[x] = Task /\ \A u \in Task : x \in passed'[u]
  BY <1>1, <1>3, <1>5
<1>8. InOrder(s', passed', rank)
  BY <1>1, <1>2, <1>3, <1>5, <1>6, BlockKeepsOrder
<1>9. turn' \in Pid \cup {Idle} /\ \E rank2 \in [Task -> Int] : InOrder(s', passed', rank2)
  BY <1>1, <1>8, Zenon DEF OrderInv
<1> QED
  BY <1>4, <1>6, <1>7, <1>9 DEF OrderInv

(* Nobody has been passed before the first slice.                          *)
LEMMA OrderInit ==
    ASSUME Init
    PROVE  OrderInv
<1>1. s = SchedInit /\ turn = 0 /\ passed = [t \in Task |-> Task]
  BY DEF Init
<1>2. s \in SchedState /\ \A t \in Task : s.state[t] = "none" /\ s.next[t] = 0 /\ s.prev[t] = 0
  BY <1>1 DEF SchedInit, SchedState, Pid
<1>3. s.hd_blocked = 0 /\ \A i \in Levels : s.hd_active[i] = 0 /\ s.cr_active[i] = 0
  BY <1>1 DEF SchedInit
<1>4. Running(s) = {}
  BY <1>2 DEF Running
<1>5. LinksSound(s)
  BY <1>2, <1>3 DEF LinksSound
<1> DEFINE zero == [t \in Task |-> 0]
<1>6. zero \in [Task -> Nat] /\ zero \in [Task -> Int]
  OBVIOUS
<1>7. Ranked(s)
  BY <1>2, <1>6, Zenon DEF Ranked
<1>8. InOrder(s, passed, zero)
  BY <1>4 DEF InOrder, Ordered, Rivals
<1> HIDE DEF zero
<1>9. \E rank \in [Task -> Int] : InOrder(s, passed, rank)
  BY <1>6, <1>8
<1>10. passed \in [Task -> SUBSET Task] /\ \A t \in Task : passed[t] = Task
  BY <1>1
<1> QED
  BY <1>1, <1>2, <1>5, <1>7, <1>9, <1>10 DEF OrderInv, Sound, Pid

(* sched_pick is fair between the tasks of a level and leaves the idle     *)
(* level for last, in every interleaving of slices with tasks that are     *)
(* created, block (sched_block) and are awaken (sched_awake), for any      *)
(* number of tasks and any priorities.                                     *)
THEOREM SlicesAreFair == Spec => SlicesFair
<1>1. OrderInv /\ [Next]_vars => OrderInv'
  <2>1. CASE UNCHANGED vars
    BY <2>1 DEF vars, OrderInv
  <2> QED BY <2>1, PickStep, LoadStep, BlockStep, AwakeStep DEF Next
<1>2. Spec => []OrderInv
  BY <1>1, OrderInit, PTL DEF Spec
<1>3. OrderInv => [Pick => RoundRobin /\ IdleLevelLast]_vars
  BY PickStep
<1> QED
  BY <1>2, <1>3, PTL DEF SlicesFair
============================================================================
