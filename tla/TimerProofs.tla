---------------------------- MODULE TimerProofs ----------------------------
(***************************************************************************)
(* The timer queue for any number of tasks and any timer frequency: it is  *)
(* sorted and whole, sched_alarm returns, and nobody wakes much too late.  *)
(*                                                                         *)
(* The argument gives every sleeping task its place in the queue.  An      *)
(* alarm that is not due bounds the time its sleep has left; an overdue    *)
(* one waits for the tasks before it only, because a new alarm never gets  *)
(* before it and every tick takes one task from the head.                  *)
(***************************************************************************)
EXTENDS TimerQueue, SchedProofs

(* The places of the tasks S in a queue with head h.                       *)
Placed(link, h, S, pos) ==
    /\ h \in S \cup {0}
    /\ h # 0 => pos[h] = 0
    /\ \A t \in S : link[t] \in S \cup {0}
    /\ \A t \in S : link[t] # 0 => pos[link[t]] = pos[t] + 1
    /\ \A t \in S : t = h \/ \E p \in S : link[p] = t

(* c visits the tasks S in the order of their places, and ends.            *)
Visits(c, link, h, S, pos) ==
    LET N == Cardinality(Task)
    IN  /\ N \in Nat /\ c \in [0..N -> Pid] /\ c[0] = h /\ c[N] = 0
        /\ \A n \in 0..N - 1 : c[n + 1] = IF c[n] = 0 THEN 0 ELSE link[c[n]]
        /\ \A n \in 0..N : c[n] # 0 => c[n] \in S /\ pos[c[n]] = n
        /\ \A t \in S : pos[t] \in 0..N - 1 /\ c[pos[t]] = t

(* The links of the queue go through the places one by one.                *)
LEMMA PlacesInChain ==
    ASSUME NEW link \in [Task -> Pid], NEW S \in SUBSET Task, NEW h,
           NEW pos \in [Task -> Nat], Placed(link, h, S, pos)
    PROVE  Holds(link, h, S) /\ Visits(Chain(link, h), link, h, S, pos)
<1> DEFINE c == Chain(link, h)
           N == Cardinality(Task)
<1>1. h \in S \cup {0} /\ h \in Pid /\ 0 \notin S
  BY TaskAssumption DEF Placed, Pid
<1>2. /\ N \in Nat /\ c \in [0..N -> Pid] /\ c[0] = h
      /\ \A n \in 0..N - 1 : c[n + 1] = IF c[n] = 0 THEN 0 ELSE link[c[n]]
  BY <1>1, ChainSteps
<1>3. Holds(link, h, S)
  <2>1. \A t \in S : link[t] # 0 => pos[t] < pos[link[t]]
    BY DEF Placed
  <2> QED BY <1>1, <2>1, ChainHolds DEF Placed
<1>4. c[N] = 0 /\ \A t \in S : \E n \in 0..N : c[n] = t
  BY <1>1, <1>2, <1>3 DEF Holds
<1> HIDE DEF c, N
<1> DEFINE Good(n) == c[n] # 0 => c[n] \in S /\ pos[c[n]] = n
           T == {n \in Nat : n \in 0..N /\ ~Good(n)}
<1>5. T = {}
  <2> SUFFICES ASSUME T # {} PROVE FALSE
    OBVIOUS
  <2>1. T \subseteq Nat
    OBVIOUS
  <2>2. PICK m \in T : \A y \in T : m <= y
    BY <2>1, NatMin, Zenon
  <2>3. m \in Nat /\ m \in 0..N /\ ~Good(m)
    OBVIOUS
  <2>4. m # 0
    BY <1>1, <1>2, <2>3 DEF Placed
  <2>5. m - 1 \in Nat /\ m - 1 \in 0..N - 1 /\ m - 1 \in 0..N /\ m - 1 \notin T
    <3> HIDE DEF T
    <3> QED BY <1>2, <2>2, <2>3, <2>4
  <2>6. Good(m - 1)
    BY <2>5
  <2>7. c[m] = IF c[m - 1] = 0 THEN 0 ELSE link[c[m - 1]]
    <3>1. c[(m - 1) + 1] = IF c[m - 1] = 0 THEN 0 ELSE link[c[m - 1]]
      BY <1>2, <2>5
    <3> QED BY <2>3, <3>1
  <2>8. Good(m)
    <3> SUFFICES ASSUME c[m] # 0 PROVE c[m] \in S /\ pos[c[m]] = m
      OBVIOUS
    <3>1. c[m - 1] # 0 /\ c[m] = link[c[m - 1]]
      BY <2>7
    <3>2. c[m - 1] \in S /\ pos[c[m - 1]] = m - 1
      BY <2>6, <3>1
    <3>3. c[m] \in S /\ pos[c[m]] = (m - 1) + 1
      BY <3>1, <3>2 DEF Placed
    <3> QED BY <2>3, <3>3
  <2> QED BY <2>3, <2>8
<1>6. \A n \in 0..N : Good(n)
  BY <1>2, <1>5
<1>7. \A t \in S : pos[t] \in 0..N - 1 /\ c[pos[t]] = t
  <2> TAKE t \in S
  <2>1. PICK n \in 0..N : c[n] = t
    BY <1>4
  <2>2. t # 0 /\ pos[t] = n /\ n # N
    BY <1>1, <1>4, <1>6, <2>1
  <2> QED BY <1>2, <2>1, <2>2
<1> QED
  <2>1. Visits(c, link, h, S, pos)
    BY <1>2, <1>4, <1>6, <1>7 DEF N, Visits
  <2> QED BY <1>3, <2>1 DEF c

(* The tasks S are in the timer queue at their places, sorted.             *)
Queued(r, S, pos) ==
    /\ Placed(r.alarm, r.hd_timerq, S, pos)
    /\ \A t \in Task \ S : r.alarm[t] = 0
    /\ \A t, u \in S : pos[t] < pos[u] => ~Before(r, r.alarmsec[u], r.alarmns[u], t)

(* The insertion loop ends: a whole queue has a last task.                 *)
LEMMA InsertEnds ==
    ASSUME NEW r \in SchedState, NEW S \in SUBSET Task, NEW pos \in [Task -> Nat],
           Queued(r, S, pos), NEW sec, NEW ns, r.hd_timerq # 0
    PROVE  Stops(r, sec, ns) # {}
<1> DEFINE c == Visit(r)
           N == Cardinality(Task)
<1>1. /\ N \in Nat /\ c \in [0..N -> Pid] /\ c[0] = r.hd_timerq /\ c[N] = 0
      /\ \A n \in 0..N - 1 : c[n + 1] = IF c[n] = 0 THEN 0 ELSE r.alarm[c[n]]
  <2>1. r.alarm \in [Task -> Pid] /\ Placed(r.alarm, r.hd_timerq, S, pos)
    BY DEF SchedState, Queued
  <2>2. Visits(c, r.alarm, r.hd_timerq, S, pos)
    BY <2>1, PlacesInChain DEF Visit
  <2> QED BY <2>2 DEF Visits
<1> HIDE DEF c, N
<1> DEFINE T == {n \in Nat : n \in 0..N /\ c[n] = 0}
<1>2. T \subseteq Nat /\ N \in T
  BY <1>1
<1>3. PICK m \in T : \A y \in T : m <= y
  BY <1>2, NatMin, Zenon
<1>4. m \in Nat /\ m \in 0..N /\ c[m] = 0 /\ m # 0
  BY <1>1
<1>5. m - 1 \in Nat /\ m - 1 \in 0..N - 1 /\ m - 1 \in 0..N /\ m - 1 \notin T
  <2> HIDE DEF T
  <2> QED BY <1>1, <1>3, <1>4
<1>6. c[m - 1] # 0
  BY <1>5
<1>7. r.alarm[c[m - 1]] = 0
  <2>1. c[(m - 1) + 1] = r.alarm[c[m - 1]]
    BY <1>1, <1>5, <1>6
  <2> QED BY <1>4, <2>1
<1>8. m - 1 \in Stops(r, sec, ns)
  BY <1>5, <1>6, <1>7 DEF Stops, c, N
<1> QED
  BY <1>8

(* A queue with tasks has a head.                                          *)
LEMMA PlacedHead ==
    ASSUME NEW link \in [Task -> Pid], NEW S \in SUBSET Task, NEW h, NEW k \in Nat,
           NEW pos \in [Task -> Nat], Placed(link, h, S, pos), NEW y \in S, pos[y] >= k
    PROVE  (k = 0 /\ h # 0) \/ \E p \in S : k > 0 /\ pos[p] = k - 1 /\ link[p] # 0
<1> DEFINE T == {n \in Nat : n >= k /\ \E z \in S : pos[z] = n}
<1>1. T \subseteq Nat /\ pos[y] \in T
  OBVIOUS
<1>2. PICK m \in T : \A j \in T : m <= j
  BY <1>1, NatMin, Zenon
<1>3. m \in Nat /\ m >= k
  OBVIOUS
<1>4. PICK z \in S : pos[z] = m
  OBVIOUS
<1>5. CASE z = h
  BY <1>3, <1>4, <1>5, TaskAssumption DEF Placed
<1>6. CASE z # h
  <2>1. PICK p \in S : link[p] = z
    BY <1>6 DEF Placed
  <2>2. pos[p] \in Nat /\ pos[p] + 1 = m /\ link[p] # 0
    BY <1>4, <2>1, TaskAssumption DEF Placed
  <2>3. pos[p] \in T => m <= pos[p]
    <3> HIDE DEF T
    <3> QED BY <1>2
  <2>4. ~ (pos[p] >= k)
    BY <2>2, <2>3
  <2>5. k > 0 /\ pos[p] = k - 1
    BY <1>3, <2>2, <2>4
  <2> QED BY <2>2, <2>5
<1> QED
  BY <1>5, <1>6

(* The places when t gets the place k.                                     *)
Shift(pos, t, k) ==
    [y \in Task |-> IF y = t THEN k ELSE IF pos[y] >= k THEN pos[y] + 1 ELSE pos[y]]

(* t becomes the head of the queue.                                        *)
LEMMA PlaceFirst ==
    ASSUME NEW link \in [Task -> Pid], NEW S \in SUBSET Task, NEW h,
           NEW pos \in [Task -> Nat], Placed(link, h, S, pos), NEW t \in Task \ S,
           NEW link2, link2 = [link EXCEPT ![t] = h]
    PROVE  Placed(link2, t, S \cup {t}, Shift(pos, t, 0))
<1> DEFINE pos2 == Shift(pos, t, 0)
<1>1. pos2[t] = 0 /\ \A y \in S : pos2[y] = pos[y] + 1
  BY DEF Shift
<1>2. link2[t] = h /\ (\A y \in S : link2[y] = link[y]) /\ 0 \notin S /\ t # 0
  BY TaskAssumption
<1> HIDE DEF pos2
<1>3. \A y \in S \cup {t} : link2[y] \in S \cup {t} \cup {0}
  BY <1>2 DEF Placed
<1>4. \A y \in S \cup {t} : link2[y] # 0 => pos2[link2[y]] = pos2[y] + 1
  BY <1>1, <1>2 DEF Placed
<1>5. \A y \in S \cup {t} : y = t \/ \E p \in S \cup {t} : link2[p] = y
  <2> SUFFICES ASSUME NEW y \in S PROVE \E p \in S \cup {t} : link2[p] = y
    OBVIOUS
  <2> QED BY <1>2 DEF Placed
<1>6. Placed(link2, t, S \cup {t}, pos2)
  BY <1>1, <1>3, <1>4, <1>5 DEF Placed
<1> QED
  BY <1>6 DEF pos2

(* The links when t gets between p and x.                                  *)
Between(link, p, t, x) == [link EXCEPT ![p] = t, ![t] = x]

(* t gets between p and the next task x, which may be none.                *)
LEMMA PlaceAfter ==
    ASSUME NEW link \in [Task -> Pid], NEW S \in SUBSET Task, NEW h,
           NEW pos \in [Task -> Nat], Placed(link, h, S, pos), NEW t \in Task \ S,
           NEW p \in S, NEW x, x = link[p]
    PROVE  Placed(Between(link, p, t, x), h, S \cup {t}, Shift(pos, t, pos[p] + 1))
<1> DEFINE k == pos[p] + 1
           pos2 == Shift(pos, t, k)
<1>0. PICK link2 : link2 = Between(link, p, t, x)
  OBVIOUS
<1>1. k \in Nat /\ pos2[t] = k /\ \A y \in S : pos2[y] = IF pos[y] >= k THEN pos[y] + 1 ELSE pos[y]
  BY DEF Shift
<1>2. /\ link2[t] = x /\ link2[p] = t /\ \A y \in S \ {p} : link2[y] = link[y]
      /\ 0 \notin S /\ t # 0 /\ h \in S \cup {0} /\ (h # 0 => pos[h] = 0)
      /\ x \in S \cup {0} /\ (x # 0 => pos[x] = k)
  BY <1>0, TaskAssumption DEF Placed, Between
<1>3. \A y, z \in S : pos[y] = pos[z] => y = z
  <2>1. Visits(Chain(link, h), link, h, S, pos)
    BY PlacesInChain
  <2>2. \A y \in S : Chain(link, h)[pos[y]] = y
    BY <2>1 DEF Visits
  <2> QED BY <2>2
<1>4. \A y \in S : pos[y] \in Nat
  OBVIOUS
<1> HIDE DEF pos2, k
<1>5. \A y \in S \cup {t} : link2[y] \in S \cup {t} \cup {0}
  BY <1>2 DEF Placed
<1>6. ASSUME NEW y \in S \cup {t}, link2[y] # 0 PROVE pos2[link2[y]] = pos2[y] + 1
  <2>1. CASE y = t
    BY <1>1, <1>2, <1>6, <2>1
  <2>2. CASE y = p
    <3>1. pos2[p] = pos[p]
      BY <1>1, <1>4 DEF k
    <3> QED BY <1>1, <1>2, <2>2, <3>1 DEF k
  <2>3. CASE y # t /\ y # p
    <3>1. y \in S /\ link2[y] = link[y] /\ link[y] \in S /\ pos[link[y]] = pos[y] + 1
      BY <1>2, <1>6, <2>3 DEF Placed
    <3>2. pos[y] # pos[p]
      BY <1>3, <2>3, <3>1
    <3>3. pos[y] \in Nat /\ pos[p] \in Nat
      BY <1>4, <3>1
    <3>4. pos2[y] = (IF pos[y] >= k THEN pos[y] + 1 ELSE pos[y])
          /\ pos2[link[y]] = (IF pos[link[y]] >= k THEN pos[link[y]] + 1 ELSE pos[link[y]])
      BY <1>1, <3>1
    <3> QED BY <3>1, <3>2, <3>3, <3>4 DEF k
  <2> QED BY <2>1, <2>2, <2>3
<1>7. ASSUME NEW y \in S \cup {t}, y # h PROVE \E z \in S \cup {t} : link2[z] = y
  <2>1. CASE y = t
    BY <1>2, <2>1
  <2>2. CASE y = x
    BY <1>2, <2>2
  <2>3. CASE y # t /\ y # x
    <3>1. PICK z \in S : link[z] = y
      BY <1>7, <2>3 DEF Placed
    <3>2. z # p
      BY <2>3, <3>1
    <3> QED BY <1>2, <3>1, <3>2
  <2> QED BY <2>1, <2>2, <2>3
<1>8. h # 0 => pos2[h] = 0
  BY <1>1, <1>2, <1>4 DEF k
<1>9. Placed(link2, h, S \cup {t}, pos2)
  BY <1>2, <1>5, <1>6, <1>7, <1>8 DEF Placed
<1> QED
  BY <1>0, <1>9 DEF pos2, k

(* The place k splits the queue into the alarms that are not after         *)
(* (sec, ns) and the ones that are.                                        *)
Splits(r, S, pos, sec, ns, k) ==
    /\ k \in Nat
    /\ \A y \in S : pos[y] < k => ~Before(r, sec, ns, y)
    /\ \A y \in S : pos[y] >= k => Before(r, sec, ns, y)

(* q is r with t in the timer queue, at the place for the alarm (sec, ns). *)
Inserted(q, r, S, pos, t, sec, ns) ==
    /\ q \in SchedState /\ SameButTimer(q, r)
    /\ \A x \in Task \ (S \cup {t}) : q.alarm[x] = 0
    /\ \E k \in Nat : /\ Splits(r, S, pos, sec, ns, k)
                      /\ Placed(q.alarm, q.hd_timerq, S \cup {t}, Shift(pos, t, k))

(* sched_alarm puts the task at such a place.                              *)
LEMMA InsertPlace ==
    ASSUME NEW r \in SchedState, NEW S \in SUBSET Task, NEW pos \in [Task -> Nat],
           Queued(r, S, pos), NEW t \in Task \ S, NEW sec \in Int, NEW ns \in Nat
    PROVE  Inserted(TimerqInsert(r, t, sec, ns), r, S, pos, t, sec, ns)
<1> DEFINE q == TimerqInsert(r, t, sec, ns)
           n == Highest(Stops(r, sec, ns))
           c == Visit(r)
           x == c[n]
           p == IF n = 0 THEN 0 ELSE c[n-1]
           N == Cardinality(Task)
           first == r.hd_timerq = 0 \/ Before(r, sec, ns, r.hd_timerq)
<1>1. /\ r.alarm \in [Task -> Pid] /\ Placed(r.alarm, r.hd_timerq, S, pos) /\ t # 0 /\ 0 \notin S
      /\ r.alarm[t] = 0 /\ \A y \in Task : r.alarmsec[y] \in Int /\ r.alarmns[y] \in Nat
  BY TaskAssumption DEF SchedState, Queued
<1>2. Visits(c, r.alarm, r.hd_timerq, S, pos)
  BY <1>1, PlacesInChain DEF Visit
<1>3. r.hd_timerq # 0 => Stops(r, sec, ns) # {}
  BY InsertEnds
<1>4. /\ q \in SchedState /\ SameButTimer(q, r)
      /\ first => q.hd_timerq = t /\ q.alarm = [r.alarm EXCEPT ![t] = r.hd_timerq]
      /\ ~first => /\ n \in Stops(r, sec, ns)
                   /\ \A j \in Stops(r, sec, ns) : n <= j
                   /\ x \in Task /\ p \in Pid
                   /\ q.hd_timerq = r.hd_timerq
                   /\ q.alarm = IF Before(r, sec, ns, x)
                                THEN [Relink(r.alarm, p, t) EXCEPT ![t] = x]
                                ELSE [r.alarm EXCEPT ![x] = t]
  BY <1>3, TimerqFields, ZenonT(30)
<1>5. \A y, z \in S : pos[y] < pos[z] => ~Before(r, r.alarmsec[z], r.alarmns[z], y)
  BY DEF Queued
<1>6. \A y, z \in S : pos[y] = pos[z] => y = z
  BY <1>2 DEF Visits
<1>7. \A y, z \in S : Before(r, sec, ns, y) /\ pos[y] < pos[z] => Before(r, sec, ns, z)
  BY <1>1, <1>5 DEF Before
<1> HIDE DEF q, n, c, x, p, first
<1> SUFFICES Inserted(q, r, S, pos, t, sec, ns)
  BY DEF q
<1>8. CASE first
  <2>1. Placed(q.alarm, q.hd_timerq, S \cup {t}, Shift(pos, t, 0))
    BY <1>1, <1>4, <1>8, PlaceFirst
  <2>2. \A y \in S : Before(r, sec, ns, y)
    <3> SUFFICES ASSUME NEW y \in S PROVE Before(r, sec, ns, y)
      OBVIOUS
    <3>1. r.hd_timerq # 0
      BY <1>1, PlacedHead
    <3>2. r.hd_timerq \in S /\ pos[r.hd_timerq] = 0 /\ Before(r, sec, ns, r.hd_timerq)
      BY <1>1, <1>8, <3>1 DEF first, Placed
    <3>3. pos[y] \in Nat
      OBVIOUS
    <3>4. CASE pos[y] = 0
      BY <1>6, <3>2, <3>4
    <3>5. CASE pos[y] > 0
      BY <1>7, <3>2, <3>5
    <3> QED BY <3>3, <3>4, <3>5
  <2>3. Splits(r, S, pos, sec, ns, 0)
    BY <2>2 DEF Splits
  <2>4. \A y \in Task \ (S \cup {t}) : q.alarm[y] = 0
    BY <1>1, <1>4, <1>8 DEF Queued
  <2> QED BY <1>4, <2>1, <2>3, <2>4 DEF Inserted
<1>9. CASE ~first
  <2>1. /\ n \in 0..N /\ n \in Stops(r, sec, ns) /\ \A j \in Stops(r, sec, ns) : n <= j
        /\ x # 0 /\ (Before(r, sec, ns, x) \/ r.alarm[x] = 0)
    BY <1>4, <1>9 DEF Stops, x, c
  <2>2. N \in Nat /\ x \in S /\ pos[x] = n /\ n \in Nat
    BY <1>2, <2>1 DEF Visits, x
  <2>3. \A y \in S : pos[y] < n => ~Before(r, sec, ns, y)
    <3> SUFFICES ASSUME NEW y \in S, pos[y] < n, Before(r, sec, ns, y) PROVE FALSE
      OBVIOUS
    <3>1. pos[y] \in 0..N /\ c[pos[y]] = y /\ y # 0
      BY <1>1, <1>2, <2>2 DEF Visits
    <3>2. pos[y] \in Stops(r, sec, ns)
      BY <3>1 DEF Stops, c
    <3> QED BY <2>1, <2>2, <3>1, <3>2
  <2>4. CASE Before(r, sec, ns, x)
    <3>1. n # 0
      <4> SUFFICES ASSUME n = 0 PROVE FALSE
        OBVIOUS
      <4>1. x = r.hd_timerq
        BY <1>2 DEF Visits, x
      <4> QED BY <1>9, <2>4, <4>1 DEF first
    <3>2. p = c[n - 1] /\ n - 1 \in 0..N /\ n - 1 \in 0..N - 1
      BY <2>1, <2>2, <3>1 DEF p
    <3>3. p # 0 /\ x = r.alarm[p]
      <4>1. c[(n - 1) + 1] = IF c[n - 1] = 0 THEN 0 ELSE r.alarm[c[n - 1]]
        BY <1>2, <3>2 DEF Visits
      <4>2. x = c[(n - 1) + 1]
        BY <2>2 DEF x
      <4>3. x = IF p = 0 THEN 0 ELSE r.alarm[p]
        BY <3>2, <4>1, <4>2
      <4> QED BY <2>1, <4>3
    <3>4. p \in S /\ pos[p] = n - 1
      BY <1>2, <3>2, <3>3 DEF Visits
    <3>5. q.alarm = Between(r.alarm, p, t, x) /\ q.hd_timerq = r.hd_timerq
      BY <1>4, <1>9, <2>4, <3>3 DEF Relink, Between
    <3>6. Placed(q.alarm, q.hd_timerq, S \cup {t}, Shift(pos, t, pos[p] + 1))
      <4>1. /\ r.alarm \in [Task -> Pid] /\ pos \in [Task -> Nat] /\ S \in SUBSET Task
            /\ Placed(r.alarm, r.hd_timerq, S, pos) /\ t \in Task \ S
        BY <1>1
      <4>2. Placed(Between(r.alarm, p, t, x), r.hd_timerq, S \cup {t}, Shift(pos, t, pos[p] + 1))
        BY <3>3, <3>4, <4>1, PlaceAfter, Zenon
      <4> QED BY <3>5, <4>2
    <3>7. pos[p] + 1 = n
      BY <2>2, <3>4
    <3>8. \A y \in S : pos[y] >= n => Before(r, sec, ns, y)
      <4> SUFFICES ASSUME NEW y \in S, pos[y] >= n PROVE Before(r, sec, ns, y)
        OBVIOUS
      <4>1. CASE pos[y] = n
        BY <1>6, <2>2, <2>4, <4>1
      <4>2. CASE pos[y] > n
        BY <1>7, <2>2, <2>4, <4>2
      <4> QED BY <2>2, <4>1, <4>2
    <3>9. \A y \in Task \ (S \cup {t}) : q.alarm[y] = 0
      <4>1. \A y \in Task \ S : r.alarm[y] = 0
        BY DEF Queued
      <4> QED BY <1>1, <3>4, <3>5, <4>1 DEF Between
    <3> QED BY <1>4, <2>2, <2>3, <3>6, <3>7, <3>8, <3>9 DEF Splits, Inserted
  <2>5. CASE ~Before(r, sec, ns, x)
    <3>1. r.alarm[x] = 0 /\ q.alarm = [r.alarm EXCEPT ![x] = t] /\ q.hd_timerq = r.hd_timerq
      BY <1>4, <1>9, <2>1, <2>5
    <3>2. q.alarm = Between(r.alarm, x, t, 0)
      BY <1>1, <2>2, <3>1 DEF Between
    <3>3. Placed(q.alarm, q.hd_timerq, S \cup {t}, Shift(pos, t, pos[x] + 1))
      <4>1. /\ r.alarm \in [Task -> Pid] /\ pos \in [Task -> Nat] /\ S \in SUBSET Task
            /\ Placed(r.alarm, r.hd_timerq, S, pos) /\ t \in Task \ S
        BY <1>1
      <4>2. Placed(Between(r.alarm, x, t, 0), r.hd_timerq, S \cup {t}, Shift(pos, t, pos[x] + 1))
        BY <2>2, <3>1, <4>1, PlaceAfter, Zenon
      <4> QED BY <3>1, <3>2, <4>2
    <3>4. pos[x] + 1 = n + 1 /\ n + 1 \in Nat
      BY <2>2
    <3>5. ASSUME NEW y \in S, pos[y] >= n + 1 PROVE FALSE
      <4>1. PICK z \in S : pos[z] = n + 1 - 1 /\ r.alarm[z] # 0
        BY <1>1, <2>2, <3>4, <3>5, PlacedHead
      <4>2. z = x
        BY <1>6, <2>2, <4>1
      <4> QED BY <3>1, <4>1, <4>2
    <3>6. \A y \in S : pos[y] < n + 1 => ~Before(r, sec, ns, y)
      <4> SUFFICES ASSUME NEW y \in S, pos[y] < n + 1 PROVE ~Before(r, sec, ns, y)
        OBVIOUS
      <4>1. pos[y] < n \/ pos[y] = n
        BY <2>2
      <4>2. CASE pos[y] = n
        BY <1>6, <2>2, <2>5, <4>2
      <4> QED BY <2>3, <4>1, <4>2
    <3>7. \A y \in Task \ (S \cup {t}) : q.alarm[y] = 0
      BY <1>1, <2>2, <3>1 DEF Queued
    <3>8. Splits(r, S, pos, sec, ns, n + 1)
      BY <3>4, <3>5, <3>6 DEF Splits
    <3>9. Placed(q.alarm, q.hd_timerq, S \cup {t}, Shift(pos, t, n + 1))
      BY <3>3, <3>4
    <3> QED BY <1>4, <3>4, <3>7, <3>8, <3>9, SMTT(30) DEF Inserted
  <2> QED BY <2>4, <2>5
<1> QED
  BY <1>8, <1>9

(* q is r with t in the timer queue; only later alarms change places.      *)
QueuedToo(q, r, S, pos, t, sec, ns) ==
    /\ q \in SchedState /\ SameButTimer(q, r)
    /\ \E pos2 \in [Task -> Nat] :
        /\ Queued(q, S \cup {t}, pos2)
        /\ \A x \in S : pos2[x] = pos[x] \/ Before(r, sec, ns, x)

(* The queue stays sorted when t is put at that place.                     *)
LEMMA InsertQueued ==
    ASSUME NEW r \in SchedState, NEW S \in SUBSET Task, NEW pos \in [Task -> Nat],
           Queued(r, S, pos), NEW t \in Task \ S,
           NEW sec \in Int, NEW ns \in Nat, r.alarmsec[t] = sec, r.alarmns[t] = ns
    PROVE  QueuedToo(TimerqInsert(r, t, sec, ns), r, S, pos, t, sec, ns)
<1> DEFINE q == TimerqInsert(r, t, sec, ns)
<1>1. /\ q \in SchedState /\ SameButTimer(q, r)
      /\ \A x \in Task \ (S \cup {t}) : q.alarm[x] = 0
      /\ \E k \in Nat : /\ Splits(r, S, pos, sec, ns, k)
                        /\ Placed(q.alarm, q.hd_timerq, S \cup {t}, Shift(pos, t, k))
  <2>1. Inserted(q, r, S, pos, t, sec, ns)
    BY InsertPlace
  <2> QED BY <2>1 DEF Inserted
<1> HIDE DEF q
<1>2. PICK k \in Nat : /\ Splits(r, S, pos, sec, ns, k)
                       /\ Placed(q.alarm, q.hd_timerq, S \cup {t}, Shift(pos, t, k))
  BY <1>1
<1> DEFINE pos2 == Shift(pos, t, k)
<1>3. /\ pos2 \in [Task -> Nat] /\ pos2[t] = k
      /\ \A y \in S : pos2[y] = IF pos[y] >= k THEN pos[y] + 1 ELSE pos[y]
  BY DEF Shift
<1>4. q.alarmsec = r.alarmsec /\ q.alarmns = r.alarmns
      /\ \A y \in Task : r.alarmsec[y] \in Int /\ r.alarmns[y] \in Nat
  BY <1>1 DEF SameButTimer, SchedState
<1> HIDE DEF pos2
<1>5. ASSUME NEW u \in S \cup {t}, NEW v \in S \cup {t}, pos2[u] < pos2[v]
      PROVE  ~Before(q, q.alarmsec[v], q.alarmns[v], u)
  <2>1. CASE u = t /\ v = t
    BY <1>3, <1>5, <2>1
  <2>2. CASE u = t /\ v # t
    <3>1. v \in S /\ pos[v] \in Nat /\ pos[v] >= k
      BY <1>3, <1>5, <2>2
    <3>2. Before(r, sec, ns, v)
      BY <1>2, <3>1 DEF Splits
    <3> QED BY <1>4, <2>2, <3>1, <3>2 DEF Before
  <2>3. CASE u # t /\ v = t
    <3>1. u \in S /\ pos[u] \in Nat /\ pos[u] < k
      BY <1>3, <1>5, <2>3
    <3>2. ~Before(r, sec, ns, u)
      BY <1>2, <3>1 DEF Splits
    <3> QED BY <1>4, <2>3, <3>1, <3>2 DEF Before
  <2>4. CASE u # t /\ v # t
    <3>1. u \in S /\ v \in S /\ pos[u] \in Nat /\ pos[v] \in Nat
      BY <2>4
    <3>2. pos[u] < pos[v]
      BY <1>3, <1>5, <3>1
    <3>3. ~Before(r, r.alarmsec[v], r.alarmns[v], u)
      BY <3>1, <3>2, SMTT(30) DEF Queued
    <3> QED BY <1>4, <3>3 DEF Before
  <2> QED BY <2>1, <2>2, <2>3, <2>4
<1>6. Queued(q, S \cup {t}, pos2)
  BY <1>1, <1>2, <1>5, SMTT(30) DEF Queued, pos2
<1>7. \A x \in S : pos2[x] = pos[x] \/ Before(r, sec, ns, x)
  BY <1>2, <1>3 DEF Splits
<1> QED
  <2>1. QueuedToo(q, r, S, pos, t, sec, ns)
    BY <1>1, <1>3, <1>6, <1>7, SMTT(30) DEF QueuedToo
  <2> QED BY <2>1 DEF q

(* The places when the head is gone.                                       *)
Down(pos) == [y \in Task |-> IF pos[y] > 0 THEN pos[y] - 1 ELSE 0]

(* The head leaves the queue.                                              *)
LEMMA HeadLeaves ==
    ASSUME NEW link \in [Task -> Pid], NEW S \in SUBSET Task, NEW h,
           NEW pos \in [Task -> Nat], Placed(link, h, S, pos), h # 0
    PROVE  /\ h \in S /\ \A y \in S \ {h} : pos[y] > 0 /\ Down(pos)[y] = pos[y] - 1
           /\ Down(pos) \in [Task -> Nat]
           /\ Placed([link EXCEPT ![h] = 0], link[h], S \ {h}, Down(pos))
<1> DEFINE link2 == [link EXCEPT ![h] = 0]
           pos2 == Down(pos)
           R == S \ {h}
<1>1. h \in S /\ pos[h] = 0 /\ 0 \notin S /\ \A y \in S : pos[y] \in Nat
  BY TaskAssumption DEF Placed
<1>2. \A y, z \in S : pos[y] = pos[z] => y = z
  <2>1. Visits(Chain(link, h), link, h, S, pos)
    BY PlacesInChain
  <2>2. \A y \in S : Chain(link, h)[pos[y]] = y
    BY <2>1 DEF Visits
  <2> QED BY <2>2
<1>3. \A y \in R : pos[y] > 0
  BY <1>1, <1>2
<1>4. pos2 \in [Task -> Nat] /\ \A y \in R : pos2[y] = pos[y] - 1
  BY <1>1, <1>3 DEF Down
<1>5. \A y \in R : link2[y] = link[y]
  OBVIOUS
<1>6. \A y \in S : link[y] # 0 => link[y] \in R /\ pos[link[y]] = pos[y] + 1
  BY <1>1 DEF Placed
<1> HIDE DEF link2, pos2
<1>7. \A y \in R : link2[y] \in R \cup {0}
  BY <1>5, <1>6
<1>8. \A y \in R : link2[y] # 0 => pos2[link2[y]] = pos2[y] + 1
  BY <1>1, <1>3, <1>4, <1>5, <1>6
<1>9. link[h] \in R \cup {0} /\ (link[h] # 0 => pos2[link[h]] = 0)
  BY <1>1, <1>4, <1>6
<1>10. ASSUME NEW y \in R, y # link[h] PROVE \E p \in R : link2[p] = y
  <2>1. PICK p \in S : link[p] = y
    BY <1>10 DEF Placed
  <2>2. p \in R
    BY <1>10, <2>1
  <2> QED BY <1>5, <2>1, <2>2
<1>11. Placed(link2, link[h], R, pos2)
  BY <1>7, <1>8, <1>9, <1>10 DEF Placed
<1> QED
  BY <1>1, <1>3, <1>4, <1>11 DEF link2, pos2

(* The clock keeps the queue sorted.                                       *)
LEMMA SecondQueued ==
    ASSUME NEW r, Sound(r), NEW S \in SUBSET Task, NEW pos \in [Task -> Nat], Queued(r, S, pos)
    PROVE  Queued(NextSecond(r), S, pos)
<1> DEFINE q == NextSecond(r)
<1>1. /\ q.alarm = r.alarm /\ q.hd_timerq = r.hd_timerq
      /\ \A t \in Task : q.alarmsec[t] = IF r.alarmsec[t] < 0 THEN r.alarmsec[t] ELSE r.alarmsec[t] - 1
      /\ \A t \in Task : q.alarmns[t] = IF r.alarmsec[t] <= 0 THEN 0 ELSE r.alarmns[t]
      /\ \A t \in Task : r.alarmsec[t] \in Int /\ r.alarmns[t] \in Nat
  BY NextSecondSound, SMTT(30) DEF Sound, SchedState
<1> HIDE DEF q
<1>2. \A t, u \in S : pos[t] < pos[u] => ~Before(q, q.alarmsec[u], q.alarmns[u], t)
  <2> SUFFICES ASSUME NEW t \in S, NEW u \in S, pos[t] < pos[u]
               PROVE  ~Before(q, q.alarmsec[u], q.alarmns[u], t)
    OBVIOUS
  <2>1. ~Before(r, r.alarmsec[u], r.alarmns[u], t)
    BY DEF Queued
  <2> QED BY <1>1, <2>1 DEF Before
<1>3. Queued(q, S, pos)
  BY <1>1, <1>2 DEF Queued
<1> QED
  BY <1>3, SMTT(30) DEF q

(***************************************************************************)
(* The inductive invariant                                                 *)
(***************************************************************************)
(* The alarm of t is still to come n steps into the second.                *)
NotDue(r, n, t) == r.alarmsec[t] > 0 \/ (r.alarmsec[t] = 0 /\ r.alarmns[t] > n)

(* The ticks to the alarm of t.                                            *)
Until(r, n, t) == r.alarmsec[t] * tmrfreq + r.alarmns[t] - n

(* A task whose alarm is to come has at most one tick less left than until *)
(* its alarm; one that is due is late by the tasks it has waited for.      *)
OnTime(r, n, S, pos, lf) ==
    \A t \in S : IF NotDue(r, n, t) THEN lf[t] >= Until(r, n, t) - 1
                                    ELSE lf[t] >= pos[t] + 1 - Cardinality(Task)

TimerInv ==
    /\ TypeOK /\ Sound(s)
    /\ nts + seccnt = tmrfreq
    /\ \E pos \in [Task -> Nat] :
        Queued(s, Blocked(s), pos) /\ OnTime(s, nts, Blocked(s), pos, left)

(* An alarm that is to come leaves time.                                   *)
LEMMA UntilPositive ==
    ASSUME NEW r \in SchedState, NEW n \in 0..(tmrfreq - 1), NEW t \in Task, NotDue(r, n, t)
    PROVE  Until(r, n, t) \in Int /\ Until(r, n, t) >= 1
<1> DEFINE a == r.alarmsec[t]
           b == r.alarmns[t]
           f == tmrfreq
<1>1. a \in Int /\ b \in Nat /\ f \in Nat \ {0} /\ n \in Nat /\ n <= f - 1
  BY TimerAssumption DEF SchedState
<1>2. a > 0 \/ (a = 0 /\ b > n)
  BY DEF NotDue
<1> SUFFICES a * f + b - n \in Int /\ a * f + b - n >= 1
  BY DEF Until
<1> HIDE DEF a, b, f
<1>3. CASE a > 0
  <2>1. a * f \in Int /\ a * f >= f
    BY <1>1, <1>3
  <2> QED BY <1>1, <2>1
<1>4. CASE a = 0 /\ b > n
  <2>1. a * f = 0
    BY <1>1, <1>4
  <2> QED BY <1>1, <1>4, <2>1
<1> QED
  BY <1>2, <1>3, <1>4

(* The invariant bounds how late a task can be.                            *)
LEMMA LateBound ==
    ASSUME NEW r \in SchedState, NEW n \in 0..(tmrfreq - 1), NEW S \in SUBSET Task,
           NEW pos \in [Task -> Nat], NEW lf \in [Task -> Int], OnTime(r, n, S, pos, lf)
    PROVE  Cardinality(Task) \in Nat /\ \A t \in S : lf[t] > -Cardinality(Task)
<1>1. Cardinality(Task) \in Nat
  BY TaskAssumption, FS_CardinalityType
<1>2. ASSUME NEW t \in S PROVE lf[t] > -Cardinality(Task)
  <2>1. lf[t] \in Int /\ pos[t] \in Nat
    OBVIOUS
  <2>2. CASE NotDue(r, n, t)
    <3>1. Until(r, n, t) \in Int /\ Until(r, n, t) >= 1
      BY <2>2, UntilPositive
    <3>2. lf[t] >= Until(r, n, t) - 1
      BY <2>2 DEF OnTime
    <3>3. Cardinality(Task) # 0
      BY TaskAssumption, FS_EmptySet
    <3> QED BY <1>1, <2>1, <3>1, <3>2, <3>3
  <2>3. CASE ~NotDue(r, n, t)
    <3>1. lf[t] >= pos[t] + 1 - Cardinality(Task)
      BY <2>3 DEF OnTime
    <3> QED BY <1>1, <2>1, <3>1
  <2> QED BY <2>2, <2>3
<1> QED
  BY <1>1, <1>2

(* sched_add does not touch the timer queue.                               *)
LEMMA LoadTimer ==
    ASSUME NEW r \in SchedState, NEW t \in Task
    PROVE  LET q == task_load(r, t)
           IN  /\ q.alarm = r.alarm /\ q.hd_timerq = r.hd_timerq
               /\ q.alarmsec = r.alarmsec /\ q.alarmns = r.alarmns
  BY DEF task_load, sched_add, SchedState

(* Queued and OnTime are about the fields of the timer queue only.         *)
LEMMA QueuedFrame ==
    ASSUME NEW r, NEW q, NEW S \in SUBSET Task, NEW pos, NEW n, NEW lf,
           q.alarm = r.alarm, q.hd_timerq = r.hd_timerq,
           \A x \in S : q.alarmsec[x] = r.alarmsec[x] /\ q.alarmns[x] = r.alarmns[x]
    PROVE  /\ Queued(r, S, pos) => Queued(q, S, pos)
           /\ OnTime(r, n, S, pos, lf) => OnTime(q, n, S, pos, lf)
<1>1. Queued(r, S, pos) => Queued(q, S, pos)
  BY DEF Queued, Before
<1>2. OnTime(r, n, S, pos, lf) => OnTime(q, n, S, pos, lf)
  BY DEF OnTime, NotDue, Until
<1> QED
  BY <1>1, <1>2

(* The zeroed ccb has an empty queue.                                      *)
LEMMA TimerInit ==
    ASSUME Init
    PROVE  TimerInv
<1>1. s = SchedInit /\ nts = 0 /\ seccnt = tmrfreq /\ left = [t \in Task |-> 0]
  BY DEF Init
<1>2. s \in SchedState /\ \A t \in Task : s.state[t] = "none" /\ s.next[t] = 0 /\ s.prev[t] = 0 /\ s.alarm[t] = 0
  BY <1>1 DEF SchedInit, SchedState, Pid
<1>3. s.hd_blocked = 0 /\ s.hd_timerq = 0 /\ \A i \in Levels : s.hd_active[i] = 0 /\ s.cr_active[i] = 0
  BY <1>1 DEF SchedInit
<1>4. Blocked(s) = {}
  BY <1>2 DEF Blocked
<1>5. LinksSound(s)
  BY <1>2, <1>3 DEF LinksSound
<1> DEFINE zero == [t \in Task |-> 0]
<1>6. zero \in [Task -> Nat]
  OBVIOUS
<1>7. Ranked(s)
  BY <1>2, <1>6, Zenon DEF Ranked
<1>8. Queued(s, Blocked(s), zero) /\ OnTime(s, nts, Blocked(s), zero, left)
  BY <1>2, <1>3, <1>4 DEF Queued, Placed, OnTime
<1> HIDE DEF zero
<1>9. TypeOK /\ nts + seccnt = tmrfreq
  BY <1>1, <1>2, TimerAssumption DEF TypeOK
<1> QED
  BY <1>2, <1>5, <1>6, <1>7, <1>8, <1>9 DEF TimerInv, Sound

(* A task that is created is not in the timer queue.                       *)
LEMMA LoadStep ==
    ASSUME TimerInv, NEW t \in Task, Load(t)
    PROVE  TimerInv'
<1>1. s.state[t] = "none" /\ s' = task_load(s, t) /\ UNCHANGED <<nts, seccnt, left>>
  BY DEF Load
<1>2. PICK pos \in [Task -> Nat] : Queued(s, Blocked(s), pos) /\ OnTime(s, nts, Blocked(s), pos, left)
  BY DEF TimerInv
<1>3. Sound(s) /\ s \in SchedState /\ TypeOK /\ nts + seccnt = tmrfreq
  BY DEF TimerInv, Sound
<1>4. Sound(s') /\ s' \in SchedState
  BY <1>1, <1>3, LoadSound DEF Sound
<1>5. Blocked(s') = Blocked(s)
  BY <1>1, <1>3, LoadFields DEF Blocked
<1>6. /\ s'.alarm = s.alarm /\ s'.hd_timerq = s.hd_timerq
      /\ s'.alarmsec = s.alarmsec /\ s'.alarmns = s.alarmns
  BY <1>1, <1>3, LoadTimer
<1>7. Blocked(s) \in SUBSET Task
  BY DEF Blocked
<1>8. Queued(s', Blocked(s), pos) /\ OnTime(s', nts, Blocked(s), pos, left)
  BY <1>2, <1>6, <1>7, QueuedFrame
<1>9. TypeOK'
  BY <1>1, <1>3, <1>4 DEF TypeOK
<1>10. Queued(s', Blocked(s'), pos) /\ OnTime(s', nts', Blocked(s'), pos, left')
  BY <1>1, <1>5, <1>8
<1>11. nts' + seccnt' = tmrfreq
  BY <1>1, <1>3
<1> QED
  BY <1>2, <1>4, <1>9, <1>10, <1>11 DEF TimerInv

(* sched_alarm: a new alarm is to come, and gets before later ones only.   *)
LEMMA AlarmStep ==
    ASSUME TimerInv, NEW t \in Task, NEW sec \in 0..MaxSec, NEW n \in 0..(tmrfreq - 1), Alarm(t, sec, n)
    PROVE  TimerInv'
<1> DEFINE ns == nts + (IF sec = 0 /\ n = 0 THEN 1 ELSE n)
           r == AlarmSet(s, t, sec, ns)
           B == Blocked(s)
<1>0. /\ nts \in Nat /\ nts <= tmrfreq - 1 /\ tmrfreq \in Nat \ {0} /\ MaxSec \in Nat
      /\ sec \in Nat /\ n \in Nat /\ n <= tmrfreq - 1
  BY TimerAssumption DEF TimerInv, TypeOK
<1>1. /\ s.state[t] = "running" /\ s' = sched_alarm(s, t, sec, ns, nts)
      /\ left' = [left EXCEPT ![t] = sec * tmrfreq + n] /\ UNCHANGED <<nts, seccnt>>
  BY DEF Alarm
<1>2. ns \in Nat /\ ns >= nts /\ (sec = 0 => ns > nts) /\ ns - 1 <= nts + n
  BY <1>0
<1>3. s' = TimerqInsert(r, t, sec, ns)
  BY <1>0, <1>1, <1>2 DEF sched_alarm, AlarmPast
<1>4. PICK pos \in [Task -> Nat] : Queued(s, B, pos) /\ OnTime(s, nts, B, pos, left)
  BY DEF TimerInv
<1>5. Sound(s) /\ s \in SchedState /\ TypeOK /\ nts + seccnt = tmrfreq /\ left \in [Task -> Int]
  BY DEF TimerInv, Sound, TypeOK
<1>6. t \notin B /\ B \in SUBSET Task
  BY <1>1, SMTT(30) DEF Blocked
<1> HIDE DEF ns
<1>7. /\ Sound(r)
      /\ \A x \in Task : r.state[x] = IF x = t THEN "blocked" ELSE s.state[x]
      /\ r.alarm = s.alarm /\ r.hd_timerq = s.hd_timerq
      /\ \A x \in Task : r.alarmsec[x] = IF x = t THEN sec ELSE s.alarmsec[x]
      /\ \A x \in Task : r.alarmns[x] = IF x = t THEN ns ELSE s.alarmns[x]
  BY <1>0, <1>1, <1>2, <1>5, AlarmSetSound, SMTT(30)
<1> HIDE DEF r, B
<1>8. Queued(r, B, pos) /\ OnTime(r, nts, B, pos, left)
  BY <1>4, <1>6, <1>7, QueuedFrame, SMTT(30)
<1>9. r \in SchedState
  BY <1>7 DEF Sound
<1>10. /\ s' \in SchedState /\ SameButTimer(s', r)
       /\ \E pos2 \in [Task -> Nat] :
            /\ Queued(s', B \cup {t}, pos2)
            /\ \A x \in B : pos2[x] = pos[x] \/ Before(r, sec, ns, x)
  <2>1. r.alarmsec[t] = sec /\ r.alarmns[t] = ns /\ sec \in Int /\ t \in Task \ B
    BY <1>0, <1>6, <1>7, SMTT(30)
  <2>2. QueuedToo(TimerqInsert(r, t, sec, ns), r, B, pos, t, sec, ns)
    BY <1>2, <1>6, <1>8, <1>9, <2>1, InsertQueued
  <2>3. QueuedToo(s', r, B, pos, t, sec, ns)
    BY <1>3, <2>2
  <2> QED BY <2>3 DEF QueuedToo
<1>11. PICK pos2 \in [Task -> Nat] :
            /\ Queued(s', B \cup {t}, pos2)
            /\ \A x \in B : pos2[x] = pos[x] \/ Before(r, sec, ns, x)
  BY <1>10
<1>12. Sound(s')
  BY <1>7, <1>10, TimerFrame, SMTT(30)
<1>13. Blocked(s') = B \cup {t}
  BY <1>7, <1>10 DEF Blocked, B, SameButTimer
<1>14. left' \in [Task -> Int] /\ left'[t] = sec * tmrfreq + n /\ \A x \in B : left'[x] = left[x]
  <2>1. sec * tmrfreq + n \in Int
    BY <1>0
  <2> QED BY <1>1, <1>5, <1>6, <2>1
<1>15. OnTime(s', nts, B \cup {t}, pos2, left')
  <2>1. ASSUME NEW x \in B
        PROVE  IF NotDue(s', nts, x) THEN left'[x] >= Until(s', nts, x) - 1
                                     ELSE left'[x] >= pos2[x] + 1 - Cardinality(Task)
    <3>1. s'.alarmsec = r.alarmsec /\ s'.alarmns = r.alarmns
      BY <1>10 DEF SameButTimer
    <3>2. IF NotDue(r, nts, x) THEN left[x] >= Until(r, nts, x) - 1
                               ELSE left[x] >= pos[x] + 1 - Cardinality(Task)
      BY <1>8 DEF OnTime
    <3>3. Before(r, sec, ns, x) => NotDue(r, nts, x)
      <4>1. r.alarmsec[x] \in Int /\ r.alarmns[x] \in Nat
        BY <1>6, <1>9 DEF SchedState
      <4> QED BY <1>0, <1>2, <4>1, SMTT(30) DEF Before, NotDue
    <3> QED BY <1>11, <1>14, <3>1, <3>2, <3>3, SMTT(30) DEF NotDue, Until
  <2>2. NotDue(s', nts, t) /\ left'[t] >= Until(s', nts, t) - 1
    <3>1. s'.alarmsec[t] = sec /\ s'.alarmns[t] = ns
      BY <1>7, <1>10 DEF SameButTimer
    <3>2. NotDue(s', nts, t)
      BY <1>0, <1>2, <3>1 DEF NotDue
    <3>3. Until(s', nts, t) = sec * tmrfreq + ns - nts
      BY <3>1 DEF Until
    <3>4. sec * tmrfreq \in Int
      BY <1>0, SMTT(30)
    <3> QED BY <1>0, <1>2, <1>14, <3>2, <3>3, <3>4, SMTT(30)
  <2> QED BY <2>1, <2>2, SMTT(30) DEF OnTime
<1>16. TypeOK'
  BY <1>1, <1>5, <1>10, <1>14, SMTT(30) DEF TypeOK
<1>17. Queued(s', Blocked(s'), pos2) /\ OnTime(s', nts', Blocked(s'), pos2, left')
  BY <1>1, <1>11, <1>13, <1>15, SMTT(30)
<1>18. nts' + seccnt' = tmrfreq
  BY <1>1, <1>5
<1> QED
  BY <1>5, <1>12, <1>16, <1>17, <1>18, SMTT(30) DEF TimerInv

(* The clock goes on by a tick, to n, and leaves the scheduler in r.       *)
Clock(r, n) ==
    \/ seccnt = 1 /\ r = NextSecond(s) /\ n = 0
    \/ seccnt # 1 /\ r = s /\ n = nts + 1

(* A tick: an alarm that stays to come is one tick nearer, one that gets   *)
(* due is at most a tick late, and one that was due is due.                *)
LEMMA ClockTime ==
    ASSUME TimerInv, NEW r, NEW n, Clock(r, n), NEW t \in Task
    PROVE  /\ ~NotDue(s, nts, t) => ~NotDue(r, n, t)
           /\ NotDue(r, n, t) => Until(r, n, t) = Until(s, nts, t) - 1 /\ NotDue(s, nts, t)
           /\ NotDue(s, nts, t) /\ ~NotDue(r, n, t) => Until(s, nts, t) >= 1
<1>0. /\ nts \in 0..(tmrfreq - 1) /\ nts \in Nat /\ seccnt \in 1..tmrfreq /\ tmrfreq \in Nat \ {0}
      /\ nts + seccnt = tmrfreq /\ s \in SchedState /\ Sound(s)
      /\ s.alarmsec[t] \in Int /\ s.alarmns[t] \in Nat
  BY TimerAssumption DEF TimerInv, TypeOK, SchedState
<1>1. NotDue(s, nts, t) => Until(s, nts, t) >= 1
  BY <1>0, UntilPositive
<1> DEFINE a == s.alarmsec[t]
           b == s.alarmns[t]
           f == tmrfreq
<1>2. CASE seccnt = 1
  <2>1. /\ n = 0 /\ nts = f - 1
        /\ r.alarmsec[t] = (IF a < 0 THEN a ELSE a - 1) /\ r.alarmns[t] = (IF a <= 0 THEN 0 ELSE b)
    BY <1>0, <1>2, NextSecondSound DEF Clock
  <2>2. a \in Int /\ b \in Nat /\ f \in Nat \ {0}
    BY <1>0
  <2>3. NotDue(s, nts, t) <=> (a > 0 \/ (a = 0 /\ b > f - 1))
    BY <2>1 DEF NotDue
  <2>4. NotDue(r, n, t) <=> (a > 1 \/ (a = 1 /\ b > 0))
    BY <2>1, <2>2 DEF NotDue
  <2>5. a > 0 => Until(r, n, t) = (a - 1) * f + b - 0
    BY <2>1, <2>2 DEF Until
  <2>6. Until(s, nts, t) = a * f + b - (f - 1)
    BY <2>1 DEF Until
  <2> HIDE DEF a, b, f
  <2>7. (a - 1) * f = a * f - f /\ a * f \in Int
    BY <2>2, SMTT(30)
  <2> QED BY <1>1, <2>2, <2>3, <2>4, <2>5, <2>6, <2>7, SMTT(30)
<1>3. CASE seccnt # 1
  <2>1. n = nts + 1 /\ r = s
    BY <1>3 DEF Clock
  <2>2. a * f \in Int
    BY <1>0
  <2>3. Until(r, n, t) = a * f + b - (nts + 1) /\ Until(s, nts, t) = a * f + b - nts
    BY <2>1 DEF Until
  <2>4. Until(r, n, t) = Until(s, nts, t) - 1
    BY <1>0, <2>2, <2>3, SMTT(30)
  <2> QED BY <1>0, <1>1, <2>1, <2>4 DEF NotDue
<1> QED
  BY <1>2, <1>3, SMTT(30)

(* isr_timer: the clock goes on, and a head that is due leaves the queue.  *)
LEMMA TickStep ==
    ASSUME TimerInv, Tick
    PROVE  TimerInv'
<1> DEFINE r == IF seccnt = 1 THEN NextSecond(s) ELSE s
           n == IF seccnt = 1 THEN 0 ELSE nts + 1
           B == Blocked(s)
           N == Cardinality(Task)
           h == r.hd_timerq
<1>0. /\ nts \in 0..(tmrfreq - 1) /\ seccnt \in 1..tmrfreq /\ tmrfreq \in Nat \ {0}
      /\ nts + seccnt = tmrfreq /\ s \in SchedState /\ Sound(s) /\ left \in [Task -> Int]
  BY TimerAssumption DEF TimerInv, TypeOK
<1>1. /\ nts' = n /\ seccnt' = (IF seccnt = 1 THEN tmrfreq ELSE seccnt - 1)
      /\ s' = (IF AlarmDue(r, n) THEN AlarmAwake(r) ELSE r)
      /\ left' = [t \in Task |-> IF s'.state[t] = "blocked" THEN Less(left[t]) ELSE 0]
  BY DEF Tick
<1>2. n \in 0..(tmrfreq - 1) /\ seccnt' \in 1..tmrfreq /\ n + seccnt' = tmrfreq
  BY <1>0, <1>1
<1>3. PICK pos \in [Task -> Nat] : Queued(s, B, pos) /\ OnTime(s, nts, B, pos, left)
  BY DEF TimerInv
<1>4. B \in SUBSET Task
  BY DEF Blocked
<1>5. N \in Nat /\ \A t \in B : left[t] > -N
  BY <1>0, <1>3, <1>4, LateBound
<1>6. Clock(r, n)
  BY DEF Clock
<1>7. Sound(r) /\ r \in SchedState /\ r.state = s.state /\ Queued(r, B, pos)
  <2>1. CASE seccnt = 1
    BY <1>0, <1>3, <1>4, <2>1, NextSecondSound, SecondQueued, SMTT(30) DEF Sound
  <2>2. CASE seccnt # 1
    BY <1>0, <1>3, <2>2, SMTT(30)
  <2> QED BY <2>1, <2>2, SMTT(30)
<1>8. left' \in [Task -> Int]
      /\ \A t \in B : s'.state[t] = "blocked" => left'[t] = left[t] - 1
  <2>1. \A t \in Task : Less(left[t]) \in Int
    BY <1>0, <1>5 DEF Less
  <2>2. \A t \in B : Less(left[t]) = left[t] - 1
    BY <1>0, <1>4, <1>5, SMTT(30) DEF Less
  <2> QED BY <1>1, <1>4, <2>1, <2>2
<1>9. \A t \in B : pos[t] <= N - 1 /\ pos[t] \in Nat
  <2>1. r.alarm \in [Task -> Pid] /\ Placed(r.alarm, h, B, pos)
    BY <1>7, SMTT(30) DEF SchedState, Queued
  <2>2. Visits(Chain(r.alarm, h), r.alarm, h, B, pos)
    BY <1>4, <2>1, PlacesInChain
  <2> QED BY <1>4, <2>2 DEF Visits
<1>10. ASSUME NEW t \in B
       PROVE  /\ NotDue(r, n, t) => left[t] - 1 >= Until(r, n, t) - 1
              /\ ~NotDue(r, n, t) => left[t] - 1 >= pos[t] - N
  <2>0. t \in Task /\ left[t] \in Int /\ pos[t] \in Nat /\ pos[t] <= N - 1
    BY <1>0, <1>4, <1>9
  <2>1. IF NotDue(s, nts, t) THEN left[t] >= Until(s, nts, t) - 1 ELSE left[t] >= pos[t] + 1 - N
    BY <1>3 DEF OnTime
  <2>2. /\ ~NotDue(s, nts, t) => ~NotDue(r, n, t)
        /\ NotDue(r, n, t) => Until(r, n, t) = Until(s, nts, t) - 1 /\ NotDue(s, nts, t)
        /\ NotDue(s, nts, t) /\ ~NotDue(r, n, t) => Until(s, nts, t) >= 1
    BY <1>6, <2>0, ClockTime
  <2>3. NotDue(s, nts, t) => Until(s, nts, t) \in Int
    BY <1>0, <2>0, UntilPositive, SMTT(30)
  <2> HIDE DEF r, n, N
  <2> QED BY <1>5, <2>0, <2>1, <2>2, <2>3
<1>11. AlarmDue(r, n) <=> h # 0 /\ ~NotDue(r, n, h)
  <2>1. h # 0 => r.alarmsec[h] \in Int /\ r.alarmns[h] \in Nat
    BY <1>7 DEF SchedState, Pid
  <2>2. n \in Nat
    BY <1>2
  <2> QED BY <2>1, <2>2 DEF AlarmDue, NotDue
<1> HIDE DEF r, n, B, N
<1>12. CASE ~AlarmDue(r, n)
  <2>1. s' = r /\ Blocked(s') = B
    BY <1>1, <1>7, <1>12 DEF Blocked, B
  <2>2. ASSUME NEW t \in B PROVE NotDue(r, n, t)
    <3>1. r.alarm \in [Task -> Pid] /\ Placed(r.alarm, h, B, pos)
      BY <1>7 DEF SchedState, Queued
    <3>2. h # 0
      BY <1>4, <1>9, <3>1, PlacedHead, SMTT(30)
    <3>3. h \in B /\ pos[h] = 0 /\ NotDue(r, n, h)
      BY <1>11, <1>12, <3>1, <3>2 DEF Placed
    <3>4. \A y, z \in B : pos[y] = pos[z] => y = z
      <4>1. Visits(Chain(r.alarm, h), r.alarm, h, B, pos)
        BY <1>4, <3>1, PlacesInChain, SMTT(30)
      <4>2. \A y \in B : Chain(r.alarm, h)[pos[y]] = y
        BY <4>1 DEF Visits
      <4> QED BY <4>2
    <3>5. CASE pos[t] = 0
      BY <3>3, <3>4, <3>5
    <3>6. CASE pos[t] > 0
      <4>1. ~Before(r, r.alarmsec[t], r.alarmns[t], h)
        BY <1>7, <3>3, <3>6, SMTT(30) DEF Queued
      <4>2. r.alarmsec[h] \in Int /\ r.alarmns[h] \in Nat /\ r.alarmsec[t] \in Int /\ r.alarmns[t] \in Nat
        BY <1>4, <1>7, <3>3 DEF SchedState
      <4> QED BY <1>2, <3>3, <4>1, <4>2, SMTT(30) DEF Before, NotDue
    <3> QED BY <1>9, <3>5, <3>6, SMTT(30)
  <2>3. OnTime(s', n, B, pos, left')
    <3> SUFFICES ASSUME NEW t \in B PROVE left'[t] >= Until(s', n, t) - 1
      BY <2>1, <2>2 DEF OnTime
    <3>1. s'.state[t] = "blocked"
      BY <2>1, SMTT(30) DEF Blocked
    <3> QED BY <1>8, <1>10, <2>1, <2>2, <3>1
  <2>4. Queued(s', Blocked(s'), pos) /\ OnTime(s', nts', Blocked(s'), pos, left')
    BY <1>1, <1>7, <2>1, <2>3, SMTT(30)
  <2>5. TypeOK' /\ Sound(s') /\ nts' + seccnt' = tmrfreq
    BY <1>1, <1>2, <1>7, <1>8, <2>1, SMTT(30) DEF TypeOK
  <2> QED BY <2>4, <2>5 DEF TimerInv
<1>13. CASE AlarmDue(r, n)
  <2>0. h # 0 /\ r.alarm \in [Task -> Pid] /\ Placed(r.alarm, h, B, pos)
    BY <1>7, <1>11, <1>13, SMTT(30) DEF SchedState, Queued
  <2>1. /\ h \in B /\ \A y \in B \ {h} : pos[y] > 0 /\ Down(pos)[y] = pos[y] - 1
        /\ Down(pos) \in [Task -> Nat]
        /\ Placed([r.alarm EXCEPT ![h] = 0], r.alarm[h], B \ {h}, Down(pos))
    BY <1>4, <2>0, HeadLeaves, Zenon
  <2>2. /\ Sound(s')
        /\ \A x \in Task : s'.state[x] = IF x = h THEN "running" ELSE r.state[x]
        /\ s'.hd_timerq = r.alarm[h]
        /\ s'.alarm = [r.alarm EXCEPT ![h] = 0]
        /\ s'.alarmsec = r.alarmsec /\ s'.alarmns = r.alarmns
    <3>1. h # 0 /\ r.state[h] # "none"
      BY <1>7, <2>0, <2>1 DEF B, Blocked
    <3>2. s' = AlarmAwake(r)
      BY <1>1, <1>13, SMTT(30)
    <3> QED BY <1>7, <3>1, <3>2, AlarmAwakeSound, SMTT(30)
  <2>3. Blocked(s') = B \ {h}
    BY <1>7, <2>2, SMTT(30) DEF Blocked, B
  <2>4. Queued(s', B \ {h}, Down(pos))
    <3>1. \A x \in Task \ (B \ {h}) : s'.alarm[x] = 0
      BY <1>7, <2>0, <2>2, SMTT(30) DEF Queued
    <3>2. ASSUME NEW x \in B \ {h}, NEW y \in B \ {h}, Down(pos)[x] < Down(pos)[y]
          PROVE  ~Before(s', s'.alarmsec[y], s'.alarmns[y], x)
      <4>1. pos[x] < pos[y]
        BY <1>9, <2>1, <3>2, SMTT(30)
      <4>2. ~Before(r, r.alarmsec[y], r.alarmns[y], x)
        BY <1>7, <4>1, SMTT(30) DEF Queued
      <4> QED BY <2>2, <4>2, SMTT(30) DEF Before
    <3> QED BY <2>1, <2>2, <3>1, <3>2, SMTT(30) DEF Queued
  <2>5. OnTime(s', n, B \ {h}, Down(pos), left')
    <3> SUFFICES ASSUME NEW t \in B \ {h}
                 PROVE  IF NotDue(s', n, t) THEN left'[t] >= Until(s', n, t) - 1
                                            ELSE left'[t] >= Down(pos)[t] + 1 - N
      BY DEF OnTime, N
    <3>1. s'.state[t] = "blocked"
      BY <2>3 DEF Blocked
    <3>2. left'[t] = left[t] - 1 /\ Down(pos)[t] = pos[t] - 1 /\ pos[t] \in Nat
      BY <1>8, <1>9, <2>1, <3>1, SMTT(30)
    <3>3. (NotDue(s', n, t) <=> NotDue(r, n, t)) /\ Until(s', n, t) = Until(r, n, t)
      BY <2>2, SMTT(30) DEF NotDue, Until
    <3> QED BY <1>5, <1>10, <3>2, <3>3, SMTT(30)
  <2>6. Queued(s', Blocked(s'), Down(pos)) /\ OnTime(s', nts', Blocked(s'), Down(pos), left')
    BY <1>1, <2>3, <2>4, <2>5, SMTT(30)
  <2>7. TypeOK' /\ nts' + seccnt' = tmrfreq
    BY <1>1, <1>2, <1>8, <2>2 DEF TypeOK, Sound
  <2> QED BY <2>1, <2>2, <2>6, <2>7, SMTT(30) DEF TimerInv
<1> QED
  BY <1>12, <1>13

(* The invariant says what the run checks.                                 *)
LEMMA InvSound ==
    ASSUME TimerInv
    PROVE  AlarmsSound
<1>1. PICK pos \in [Task -> Nat] : Queued(s, Blocked(s), pos) /\ OnTime(s, nts, Blocked(s), pos, left)
  BY DEF TimerInv
<1>2. /\ TypeOK /\ Sound(s) /\ s \in SchedState /\ s.alarm \in [Task -> Pid] /\ Blocked(s) \in SUBSET Task
      /\ nts \in 0..(tmrfreq - 1) /\ left \in [Task -> Int] /\ tmrfreq \in Nat \ {0} /\ MaxSec \in Nat
  BY TimerAssumption DEF TimerInv, TypeOK, SchedState, Blocked
<1>3. TimerqSound
  <2>1. Placed(s.alarm, s.hd_timerq, Blocked(s), pos)
    BY <1>1 DEF Queued
  <2>2. Holds(s.alarm, s.hd_timerq, Blocked(s))
    BY <1>2, <2>1, PlacesInChain, SMTT(30)
  <2>3. ASSUME NEW t \in Task, s.alarm[t] # 0
        PROVE  /\ t \in Blocked(s)
               /\ ~Before(s, s.alarmsec[s.alarm[t]], s.alarmns[s.alarm[t]], t)
    <3>1. t \in Blocked(s)
      BY <1>1, <2>3 DEF Queued
    <3>2. s.alarm[t] \in Blocked(s) /\ pos[s.alarm[t]] = pos[t] + 1 /\ pos[t] \in Nat
      BY <2>1, <2>3, <3>1 DEF Placed
    <3>3. pos[t] < pos[s.alarm[t]]
      BY <3>2
    <3> QED BY <1>1, <3>1, <3>2, <3>3, SMTT(30) DEF Queued
  <2> QED BY <2>2, <2>3 DEF TimerqSound
<1>4. AlarmEnds
  <2> SUFFICES ASSUME NEW t \in Running(s), NEW sec \in 0..MaxSec, NEW n \in 1..tmrfreq
               PROVE  AlarmReturns(s, t, sec, nts + n, nts)
    BY DEF AlarmEnds
  <2> DEFINE ns == nts + n
             r == AlarmSet(s, t, sec, ns)
             B == Blocked(s)
  <2>1. t \in Task /\ s.state[t] = "running" /\ sec \in Int /\ ns \in Nat /\ t \notin B
    <3>1. t \in Task /\ s.state[t] = "running" /\ t \notin B
      BY DEF Running, Blocked
    <3>2. sec \in Int
      BY <1>2
    <3>3. ns \in Nat
      BY <1>2
    <3> QED BY <3>1, <3>2, <3>3
  <2> HIDE DEF ns
  <2>2. /\ r \in SchedState /\ r.alarm = s.alarm /\ r.hd_timerq = s.hd_timerq
        /\ \A x \in B : r.alarmsec[x] = s.alarmsec[x] /\ r.alarmns[x] = s.alarmns[x]
    <3>1. /\ Sound(r) /\ r.alarm = s.alarm /\ r.hd_timerq = s.hd_timerq
          /\ \A x \in Task : r.alarmsec[x] = IF x = t THEN sec ELSE s.alarmsec[x]
          /\ \A x \in Task : r.alarmns[x] = IF x = t THEN ns ELSE s.alarmns[x]
      <4>1. Sound(s)
        BY <1>2, SMTT(30)
      <4>2. AlarmTimeSet(s, t, sec, ns, r)
        BY <2>1, <4>1, AlarmSetKeeps, SMTT(30)
      <4> HIDE DEF r
      <4> QED BY <4>2, SMTT(30) DEF AlarmTimeSet
    <3>2. B \subseteq Task
      BY SMTT(30) DEF Blocked
    <3> HIDE DEF r, B
    <3>3. r \in SchedState
      BY <3>1, SMTT(30) DEF Sound
    <3> QED BY <2>1, <3>1, <3>2, <3>3, SMTT(30)
  <2> HIDE DEF r, B
  <2>3. B \in SUBSET Task /\ Queued(s, B, pos)
    BY <1>1, <1>2, SMTT(30) DEF B
  <2>4. Queued(r, B, pos)
    BY <2>2, <2>3, QueuedFrame, SMTT(30)
  <2>5. r.hd_timerq # 0 => Stops(r, sec, ns) # {}
    BY <2>2, <2>3, <2>4, InsertEnds, SMTT(30)
  <2> QED BY <2>5 DEF AlarmReturns, r, ns
<1>5. BoundedLateness
  BY <1>1, <1>2, LateBound DEF BoundedLateness
<1> QED
  BY <1>2, <1>3, <1>4, <1>5 DEF AlarmsSound

(* The timer queue is sound for any number of tasks and any timer          *)
(* frequency: it is sorted and holds exactly the sleeping tasks, the       *)
(* insertion loop of sched_alarm ends, and no task sleeps on for as many   *)
(* ticks as there are tasks, although isr_timer awakes one per tick.       *)
THEOREM AlarmsStaySound == Spec => []AlarmsSound
<1>1. TimerInv /\ [Next]_vars => TimerInv'
  <2>1. CASE UNCHANGED vars
    BY <2>1 DEF vars, TimerInv, TypeOK
  <2> QED BY <2>1, LoadStep, AlarmStep, TickStep, SMTT(30) DEF Next
<1> QED
  BY <1>1, TimerInit, InvSound, PTL DEF Spec
============================================================================
