----------------------------- MODULE LibcProofs -----------------------------
(***************************************************************************)
(* Proofs about the log of the core (Syslog.tla), for a log of any size    *)
(* and messages of any length that keep to its reserve, and about qsort of *)
(* the C library (Qsort.tla), for arrays of any length and any keys.       *)
(***************************************************************************)
EXTENDS Syslog, Qsort, TLAPS, SequenceTheorems, NaturalsInduction, WellFoundedInduction

(* A set of natural numbers has a least one.                               *)
LEMMA NatMin ==
    ASSUME NEW T, T \subseteq Nat, T # {}
    PROVE  \E x \in T : \A y \in T : x <= y
<1> DEFINE R == OpToRel(<, Nat)
<1>1. \A x, y \in Nat : <<x, y>> \in R <=> x < y
  BY DEF OpToRel
<1>2. IsWellFoundedOn(R, Nat)
  BY NatLessThanWellFounded
<1> HIDE DEF R
<1>3. PICK x \in T : \A y \in T : ~(<<y, x>> \in R)
  BY <1>2, WFMin, Zenon
<1>4. \A y \in T : ~(y < x)
  BY <1>1, <1>3, Zenon
<1> QED BY <1>4

-----------------------------------------------------------------------------
(***************************************************************************)
(* The log                                                                 *)
(***************************************************************************)
(* The buffer holds characters, and reads as the lines that were kept.     *)
LogInv ==
    /\ log = [buf |-> log.buf, ptr |-> log.ptr, kept |-> log.kept]
    /\ log.buf \in [1..LogSize -> Nat]
    /\ LogWhole

(* The text ends where the pointer is.                                     *)
LEMMA EndIsPtr ==
    ASSUME NEW buf, NEW p \in 1..LogSize, buf[p] = 0
    PROVE  AtEnd(buf, p) = p
<1> DEFINE E(e) == buf[e] = 0 /\ \A i \in p..e - 1 : buf[i] # 0
<1>1. p \in p..LogSize /\ E(p)
  BY LogAssumption
<1>2. \A e \in p..LogSize : E(e) => e = p
  BY LogAssumption
<1>3. AtEnd(buf, p) = CHOOSE e \in p..LogSize : E(e)
  BY DEF AtEnd
<1> HIDE DEF E
<1> QED BY <1>1, <1>2, <1>3

(* A line has no 0 in it, and fits what is kept free for it.               *)
LEMMA LineFits ==
    ASSUME NEW m \in Messages
    PROVE  Line(m) \in Seq(Nat \ {0}) /\ Len(Line(m)) \in 2..Reserve
<1>1. m \in Seq(Nat \ {0}) /\ Len(m) \in Nat /\ Len(m) + 2 <= Reserve
  BY LogAssumption
<1> DEFINE L(n) == (n > 0 => m[n] # NL) /\ (\A i \in n + 1..Len(m) : m[i] = NL)
           last == CHOOSE n \in 0..Len(m) : L(n)
           T == {n \in 0..Len(m) : \A i \in n + 1..Len(m) : m[i] = NL}
<1>2. Len(m) \in T /\ T \subseteq Nat
  BY <1>1
<1>3. PICK x \in T : \A y \in T : x <= y
  <2> HIDE DEF T
  <2> QED BY <1>2, NatMin, Zenon
<1>4. x \in 0..Len(m) /\ \A i \in x + 1..Len(m) : m[i] = NL
  BY <1>3
<1>5. x > 0 => m[x] # NL
  <2> SUFFICES ASSUME x > 0, m[x] = NL PROVE FALSE
    OBVIOUS
  <2>1. x - 1 \in T
    BY <1>1, <1>4
  <2> HIDE DEF T
  <2> QED BY <1>1, <1>3, <1>4, <2>1
<1>6. last \in 0..Len(m)
  <2>1. L(x)
    BY <1>4, <1>5
  <2> HIDE DEF L
  <2> QED BY <1>4, <2>1
<1>7. Line(m) = <<Prefix>> \o SubSeq(m, 1, last) \o <<NL>>
  BY DEF Line
<1> HIDE DEF last
<1>8. SubSeq(m, 1, last) \in Seq(Nat \ {0}) /\ Len(SubSeq(m, 1, last)) = last
  BY <1>1, <1>6
<1> DEFINE text == SubSeq(m, 1, last)
<1> HIDE DEF text
<1>9. text \in Seq(Nat \ {0}) /\ Len(text) = last
  BY <1>8 DEF text
<1>10. Line(m) = (<<32>> \o text) \o <<10>>
  BY <1>7 DEF text, Prefix, NL
<1>11. <<32>> \o text \in Seq(Nat \ {0}) /\ Len(<<32>> \o text) = last + 1
  BY <1>6, <1>9
<1>12. <<10>> \in Seq(Nat \ {0}) /\ Len(<<10>>) = 1
  OBVIOUS
<1>13. Line(m) \in Seq(Nat \ {0}) /\ Len(Line(m)) = last + 1 + 1
  <2> DEFINE front == <<32>> \o text
  <2>1. front \in Seq(Nat \ {0}) /\ Len(front) = last + 1 /\ Line(m) = front \o <<10>>
    BY <1>10, <1>11
  <2> HIDE DEF front
  <2> QED BY <1>12, <2>1, ConcatProperties
<1> QED BY <1>1, <1>6, <1>13, LogAssumption

(* The buffer after a line is written, with its 0.                         *)
Put(buf, p, line) == Written(buf, p, Append(line, 0))

(* new is buf with a line behind p - 1 characters that stay, and a 0.      *)
LineAt(buf, p, line, new) ==
    /\ new \in [1..LogSize -> Nat] /\ new[p + Len(line)] = 0
    /\ \A i \in 1..p - 1 : new[i] = buf[i]
    /\ \A i \in p..p + Len(line) - 1 : new[i] = line[i - p + 1] /\ new[i] # 0

(* Which is how Written leaves it.                                         *)
LEMMA WrittenText ==
    ASSUME NEW buf \in [1..LogSize -> Nat], NEW p \in 1..LogSize,
           NEW line \in Seq(Nat \ {0}), p + Len(line) <= LogSize
    PROVE  LineAt(buf, p, line, Put(buf, p, line))
<1> DEFINE n == Len(line)
           str == Append(line, 0)
           new == Written(buf, p, str)
<1>1. LogSize \in Nat /\ n \in Nat
  BY LogAssumption
<1>2. Len(str) = n + 1 /\ str[n + 1] = 0 /\ \A i \in 1..n : str[i] = line[i]
  OBVIOUS
<1>3. \A i \in 1..n : line[i] \in Nat \ {0}
  BY <1>1
<1>4. new = [i \in 1..LogSize |-> IF i \in p..p + Len(str) - 1 THEN str[i - p + 1] ELSE buf[i]]
  BY DEF Written
<1> HIDE DEF n, str, new
<1>5. \A i \in 1..n + 1 : str[i] \in Nat
  <2> TAKE i \in 1..n + 1
  <2>1. i \in 1..n \/ i = n + 1
    BY <1>1
  <2> QED BY <1>2, <1>3, <2>1
<1>6. new = [i \in 1..LogSize |-> IF i \in p..p + n THEN str[i - p + 1] ELSE buf[i]]
  <2>1. p + Len(str) - 1 = p + n
    BY <1>1, <1>2
  <2> QED BY <1>4, <2>1
<1>7. \A i \in p..p + n : i - p + 1 \in 1..n + 1
  BY <1>1
<1>8. new \in [1..LogSize -> Nat]
  BY <1>5, <1>6, <1>7
<1>9. new[p + n] = 0
  <2>1. p + n \in 1..LogSize /\ p + n \in p..p + n /\ p + n - p + 1 = n + 1
    BY <1>1 DEF n
  <2>2. new[p + n] = str[p + n - p + 1]
    BY <1>1, <1>6, <2>1
  <2> QED BY <1>2, <2>1, <2>2
<1>10. \A i \in 1..p - 1 : new[i] = buf[i]
  BY <1>1, <1>6
<1>11. \A i \in p..p + n - 1 : new[i] = line[i - p + 1] /\ new[i] # 0
  <2> TAKE i \in p..p + n - 1
  <2>1. i \in 1..LogSize /\ i \in p..p + n /\ i - p + 1 \in 1..n
    BY <1>1 DEF n
  <2> QED BY <1>2, <1>3, <1>6, <2>1
<1>12. LineAt(buf, p, line, new)
  BY <1>8, <1>9, <1>10, <1>11 DEF LineAt, n
<1> QED BY <1>12 DEF new, str, Put

(* What is read before the new end is the old text and the line.           *)
LEMMA ReadText ==
    ASSUME NEW new \in [1..LogSize -> Nat], NEW p \in 1..LogSize, NEW old \in Seq(Nat),
           NEW line \in Seq(Nat \ {0}), p + Len(line) <= LogSize, Len(old) = p - 1,
           \A i \in 1..p - 1 : new[i] = old[i],
           \A i \in p..p + Len(line) - 1 : new[i] = line[i - p + 1]
    PROVE  SubSeq(new, 1, p + Len(line) - 1) = old \o line
<1> DEFINE n == Len(line)
           both == old \o line
           text == SubSeq(new, 1, p + n - 1)
<1>1. LogSize \in Nat /\ n \in Nat
  BY LogAssumption
<1>2. new \in Seq(Nat) /\ Len(new) = LogSize
  BY <1>1, SMTT(30)
<1>3. text \in Seq(Nat) /\ Len(text) = p + n - 1 /\ \A i \in 1..p + n - 1 : text[i] = new[i]
  BY <1>1, <1>2, SMTT(30)
<1>4. /\ both \in Seq(Nat) /\ Len(both) = p + n - 1
      /\ \A i \in 1..p - 1 : both[i] = old[i]
      /\ \A i \in p..p + n - 1 : both[i] = line[i - p + 1]
  <2>1. line \in Seq(Nat)
    OBVIOUS
  <2>2. /\ both \in Seq(Nat) /\ Len(both) = Len(old) + n
        /\ \A i \in 1..Len(old) + n : both[i] = IF i <= Len(old) THEN old[i] ELSE line[i - Len(old)]
    BY <2>1, ConcatProperties, Zenon
  <2> HIDE DEF both, n
  <2>3. Len(both) = p + n - 1
    BY <1>1, <2>2
  <2>4. \A i \in p..p + n - 1 : i - Len(old) = i - p + 1
    BY <1>1
  <2>5. \A i \in p..p + n - 1 : i \in 1..Len(old) + n /\ ~(i <= Len(old))
    BY <1>1
  <2>6. \A i \in 1..p - 1 : i \in 1..Len(old) + n /\ i <= Len(old)
    BY <1>1
  <2> QED BY <2>2, <2>3, <2>4, <2>5, <2>6, SMTT(30)
<1> HIDE DEF n, both, text
<1>5. \A i \in 1..p + n - 1 : text[i] = both[i]
  <2> TAKE i \in 1..p + n - 1
  <2>1. i \in 1..p - 1 \/ i \in p..p + n - 1
    BY <1>1
  <2> QED BY <1>3, <1>4, <2>1, Zenon DEF n
<1>6. text = both
  BY <1>1, <1>3, <1>4, <1>5, SMTT(30)
<1> QED BY <1>6, SMTT(30) DEF text, both, n

(* syslog_early: the line is written behind the ones kept, and what was in *)
(* the buffer behind it is not read.                                       *)
LEMMA LogStep ==
    ASSUME LogInv, NEW m \in Messages, syslog_early(m)
    PROVE  LogInv'
<1> DEFINE p == LogStart(log.buf, log.ptr)
           line == Line(m)
           old == IF p = 1 THEN <<>> ELSE log.kept
           new == Put(log.buf, p, line)
<1>1. log' = [buf |-> new, ptr |-> p + Len(line), kept |-> old \o line]
  BY DEF syslog_early, Put
<1>2. LogSize \in Nat /\ Reserve \in Nat /\ Reserve < LogSize
  BY LogAssumption
<1>3. /\ log.ptr \in 1..LogSize /\ log.buf[log.ptr] = 0
      /\ \A i \in 1..log.ptr - 1 : log.buf[i] # 0
      /\ SubSeq(log.buf, 1, log.ptr - 1) = log.kept
      /\ log.buf \in [1..LogSize -> Nat]
  BY DEF LogInv, LogWhole
<1>4. AtEnd(log.buf, log.ptr) = log.ptr
  BY <1>3, EndIsPtr
<1>5. p \in 1..LogSize /\ p + Reserve <= LogSize /\ (p = 1 \/ p = log.ptr)
  BY <1>2, <1>3, <1>4 DEF LogStart
<1>6. line \in Seq(Nat \ {0}) /\ Len(line) \in 2..Reserve
  BY LineFits
<1> HIDE DEF p, line
<1>7. p + Len(line) \in 1..LogSize
  BY <1>2, <1>5, <1>6
<1>8. /\ new \in [1..LogSize -> Nat] /\ new[p + Len(line)] = 0
      /\ \A i \in 1..p - 1 : new[i] = log.buf[i]
      /\ \A i \in p..p + Len(line) - 1 : new[i] = line[i - p + 1] /\ new[i] # 0
  <2>1. LineAt(log.buf, p, line, new)
    <3>1. p \in 1..LogSize
      BY <1>5
    <3>2. log.buf \in [1..LogSize -> Nat]
      BY <1>3
    <3>3. line \in Seq(Nat \ {0})
      BY <1>6
    <3>4. p + Len(line) <= LogSize
      BY <1>2, <1>5, <1>6
    <3>5. LineAt(log.buf, p, line, Put(log.buf, p, line))
      BY <3>1, <3>2, <3>3, <3>4, WrittenText, Zenon
    <3> QED BY <3>5
  <2> HIDE DEF new
  <2> QED BY <2>1 DEF LineAt
<1>9. old \in Seq(Nat) /\ Len(old) = p - 1 /\ \A i \in 1..p - 1 : old[i] = log.buf[i]
  <2>1. CASE p = 1
    BY <2>1
  <2>2. CASE p # 1
    <3> DEFINE buf == log.buf
    <3>1. p = log.ptr /\ old = SubSeq(buf, 1, p - 1)
      BY <1>3, <1>5, <2>2
    <3>2. buf \in [1..LogSize -> Nat] /\ LogSize \in Nat /\ p - 1 \in 0..LogSize
      BY <1>2, <1>3, <1>5
    <3>3. buf \in Seq(Nat) /\ Len(buf) = LogSize
      BY <3>2
    <3> HIDE DEF buf, old
    <3>4. Len(old) = p - 1 /\ old \in Seq(Nat) /\ \A i \in 1..p - 1 : old[i] = buf[i]
      BY <3>1, <3>2, <3>3
    <3> QED BY <3>4 DEF buf
  <2> QED BY <2>1, <2>2
<1> HIDE DEF old, new
<1>10. \A i \in 1..p + Len(line) - 1 : new[i] # 0
  <2> TAKE i \in 1..p + Len(line) - 1
  <2>1. (i \in 1..p - 1 /\ i \in 1..log.ptr - 1) \/ i \in p..p + Len(line) - 1
    <3>1. PICK L \in Nat : L = Len(line)
      BY <1>6
    <3>2. PICK q \in Nat : q = log.ptr
      BY <1>3
    <3>3. p \in Nat /\ (p = 1 \/ p = q)
      BY <1>5, <3>2
    <3>4. (i \in 1..p - 1 /\ i \in 1..q - 1) \/ i \in p..p + L - 1
      BY <3>1, <3>3
    <3> QED BY <3>1, <3>2, <3>4
  <2> QED BY <1>3, <1>8, <2>1, Zenon
<1>11. SubSeq(new, 1, p + Len(line) - 1) = old \o line
  <2>1. p + Len(line) <= LogSize
    BY <1>2, <1>7
  <2>2. \A i \in 1..p - 1 : new[i] = old[i]
    <3> TAKE i \in 1..p - 1
    <3>1. new[i] = log.buf[i]
      BY <1>8
    <3>2. old[i] = log.buf[i]
      BY <1>9
    <3> QED BY <3>1, <3>2
  <2>3. \A i \in p..p + Len(line) - 1 : new[i] = line[i - p + 1]
    BY <1>8
  <2>4. p \in 1..LogSize
    BY <1>5
  <2>5. line \in Seq(Nat \ {0})
    BY <1>6
  <2>6. new \in [1..LogSize -> Nat]
    BY <1>8
  <2>7. old \in Seq(Nat) /\ Len(old) = p - 1
    BY <1>9
  <2> QED BY <2>1, <2>2, <2>3, <2>4, <2>5, <2>6, <2>7, ReadText, Zenon
<1>12. /\ log'.buf = new /\ log'.ptr = p + Len(line) /\ log'.kept = old \o line
       /\ log' = [buf |-> log'.buf, ptr |-> log'.ptr, kept |-> log'.kept]
  BY <1>1
<1>13. /\ log'.buf \in [1..LogSize -> Nat]
       /\ log'.ptr \in 1..LogSize /\ log'.buf[log'.ptr] = 0
  BY <1>7, <1>8, <1>12
<1>14. \A i \in 1..log'.ptr - 1 : log'.buf[i] # 0
  BY <1>2, <1>5, <1>6, <1>7, <1>10, <1>12
<1>15. SubSeq(log'.buf, 1, log'.ptr - 1) = log'.kept
  <2>1. log'.ptr - 1 = p + Len(line) - 1 /\ log'.buf = new
    BY <1>2, <1>5, <1>6, <1>12
  <2>2. SubSeq(log'.buf, 1, log'.ptr - 1) = SubSeq(new, 1, p + Len(line) - 1)
    BY <2>1, Zenon
  <2> QED BY <1>11, <1>12, <2>2, Zenon
<1> QED BY <1>12, <1>13, <1>14, <1>15, Zenon DEF LogInv, LogWhole

(* LogWhole for every log and all messages that keep to the reserve: the   *)
(* lines since the buffer was begun can be read, and nothing else          *)
(* (syslog_early).                                                         *)
THEOREM LogStaysWhole == LogInit /\ [][SyslogNext]_log => []LogWhole
<1>1. LogInit => LogInv
  <2> SUFFICES ASSUME LogInit PROVE LogInv
    OBVIOUS
  <2>1. LogSize \in Nat /\ LogSize >= 1
    BY LogAssumption
  <2>2. log.ptr = 1 /\ log.kept = <<>> /\ log.buf = [i \in 1..LogSize |-> 0]
    BY DEF LogInit, NoLog
  <2>3. SubSeq(log.buf, 1, 0) = <<>>
    BY <2>1, <2>2
  <2>4. log = [buf |-> log.buf, ptr |-> log.ptr, kept |-> log.kept]
    BY DEF LogInit, NoLog
  <2> QED BY <2>1, <2>2, <2>3, <2>4 DEF LogInv, LogWhole
<1>2. LogInv /\ [SyslogNext]_log => LogInv'
  <2>1. LogInv /\ SyslogNext => LogInv'
    BY LogStep DEF SyslogNext
  <2>2. LogInv /\ UNCHANGED log => LogInv'
    BY DEF LogInv, LogWhole
  <2> QED BY <2>1, <2>2
<1>3. LogInv => LogWhole
  BY DEF LogInv
<1> QED BY <1>1, <1>2, <1>3, PTL

-----------------------------------------------------------------------------
(***************************************************************************)
(* qsort                                                                   *)
(***************************************************************************)
(* Two places lie in one part.                                             *)
Same(s, i, j) == \E k \in DOMAIN s : In(s[k], i) /\ In(s[k], j)

(* The parts lie in an array of n elements, one behind the other.          *)
Parts(s, n) ==
    /\ s \in Seq(Int \X Int)
    /\ \A k \in DOMAIN s : 1 <= s[k][1] /\ 0 <= s[k][2] /\ s[k][1] + s[k][2] <= n + 1
    /\ \A j, k \in DOMAIN s : j < k => s[j][1] + s[j][2] <= s[k][1]

(* Elements that are not in one part are in order.                         *)
Apart(A, s) == \A i, j \in DOMAIN A : i < j /\ ~Same(s, i, j) => A[i][1] <= A[j][1]

(* The elements from lo up to hi are in order.                             *)
Ordered(A, lo, hi) == \A i, j \in lo..hi - 1 : i < j => A[i][1] <= A[j][1]

(* The scans have compared with the pivot all but the elements from b to c.*)
Scanned(A, lo, hi, a, b, c, d) ==
    /\ lo + 1 <= a /\ a <= b /\ b <= c + 1 /\ c <= d /\ d <= hi - 1
    /\ \A i \in lo..a - 1 : A[i][1] = A[lo][1]
    /\ \A i \in a..b - 1 : A[i][1] < A[lo][1]
    /\ \A i \in c + 1..d : A[i][1] > A[lo][1]
    /\ \A i \in d + 1..hi - 1 : A[i][1] = A[lo][1]

(* An array of n elements, each its key and its place in the original      *)
(* array.                                                                  *)
Elements(n) == [1..n -> Int \X Int]

(* No element is lost or doubled.                                          *)
Whole(A, n) == {A[i][2] : i \in 1..n} = 1..n

(* The elements from lo up to hi have changed places.                      *)
Moved(A, B, n, lo, hi) ==
    /\ B \in Elements(n)
    /\ \A i \in 1..n : (i < lo \/ hi <= i) => B[i] = A[i]
    /\ \A i \in lo..hi - 1 : \E m \in lo..hi - 1 : B[i] = A[m]
    /\ \A m \in lo..hi - 1 : \E i \in lo..hi - 1 : A[m] = B[i]

(* What changes places twice between two bounds has changed places between *)
(* them (the swaps of qsort one after the other).                          *)
LEMMA MovedTwice ==
    ASSUME NEW n \in Nat, NEW A, NEW B, NEW C, NEW lo \in Int, NEW hi \in Int,
           Moved(A, B, n, lo, hi), Moved(B, C, n, lo, hi)
    PROVE  Moved(A, C, n, lo, hi)
<1>1. \A i \in 1..n : (i < lo \/ hi <= i) => C[i] = A[i]
  BY DEF Moved
<1>2. \A i \in lo..hi - 1 : \E m \in lo..hi - 1 : C[i] = A[m]
  <2> TAKE i \in lo..hi - 1
  <2>1. PICK j \in lo..hi - 1 : C[i] = B[j]
    BY DEF Moved
  <2>2. PICK m \in lo..hi - 1 : B[j] = A[m]
    BY DEF Moved
  <2> QED BY <2>1, <2>2
<1>3. \A m \in lo..hi - 1 : \E i \in lo..hi - 1 : A[m] = C[i]
  <2> TAKE m \in lo..hi - 1
  <2>1. PICK j \in lo..hi - 1 : A[m] = B[j]
    BY DEF Moved
  <2>2. PICK i \in lo..hi - 1 : B[j] = C[i]
    BY DEF Moved
  <2> QED BY <2>1, <2>2
<1> QED BY <1>1, <1>2, <1>3, Zenon DEF Moved

(* Changing places loses and doubles no element (swap, vecswap).           *)
LEMMA MovedKeepsWhole ==
    ASSUME NEW n \in Nat, NEW A, NEW B, NEW lo \in Int, NEW hi \in Int, 1 <= lo, hi <= n + 1,
           Moved(A, B, n, lo, hi), Whole(A, n)
    PROVE  Whole(B, n)
<1>1. \A i \in 1..n : \E m \in 1..n : B[i] = A[m]
  <2> TAKE i \in 1..n
  <2>1. CASE i < lo \/ hi <= i
    BY <2>1 DEF Moved
  <2>2. CASE i \in lo..hi - 1
    <3>1. PICK m \in lo..hi - 1 : B[i] = A[m]
      BY <2>2 DEF Moved
    <3> QED BY <3>1
  <2> QED BY <2>1, <2>2
<1>2. \A m \in 1..n : \E i \in 1..n : A[m] = B[i]
  <2> TAKE m \in 1..n
  <2>1. CASE m < lo \/ hi <= m
    BY <2>1 DEF Moved
  <2>2. CASE m \in lo..hi - 1
    <3>1. PICK i \in lo..hi - 1 : A[m] = B[i]
      BY <2>2 DEF Moved
    <3> QED BY <3>1
  <2> QED BY <2>1, <2>2
<1>3. {B[i][2] : i \in 1..n} = {A[i][2] : i \in 1..n}
  <2>1. ASSUME NEW i \in 1..n PROVE B[i][2] \in {A[m][2] : m \in 1..n}
    BY <1>1
  <2>2. ASSUME NEW m \in 1..n PROVE A[m][2] \in {B[i][2] : i \in 1..n}
    BY <1>2
  <2> QED BY <2>1, <2>2
<1> QED BY <1>3 DEF Whole

(* The first part is from lo up to hi.                                     *)
First(s, lo, hi) == lo = s[1][1] /\ hi = s[1][1] + s[1][2]

(* A part lies in the array (the recursive calls of qsort).                *)
LEMMA PartFacts ==
    ASSUME NEW n \in Nat, NEW s, Parts(s, n), NEW k \in DOMAIN s
    PROVE  /\ s[k][1] \in Int /\ s[k][2] \in Int
           /\ 1 <= s[k][1] /\ 0 <= s[k][2] /\ s[k][1] + s[k][2] <= n + 1
<1>1. s \in Seq(Int \X Int) /\ 1 <= s[k][1] /\ 0 <= s[k][2] /\ s[k][1] + s[k][2] <= n + 1
  BY Zenon DEF Parts
<1>2. s[k] \in Int \X Int
  BY <1>1
<1> QED BY <1>1, <1>2

(* Where parts are left there is a current one, the first.                 *)
LEMMA FirstPart ==
    ASSUME NEW n \in Nat, NEW s, Parts(s, n), s # <<>>
    PROVE  1 \in DOMAIN s
<1>1. s \in Seq(Int \X Int)
  BY DEF Parts
<1> QED BY <1>1

(* The current part lies before the other ones and holds the elements from *)
(* its begin to its end.                                                   *)
LEMMA FirstFacts ==
    ASSUME NEW n \in Nat, NEW s, Parts(s, n), s # <<>>, NEW lo \in Int, NEW hi \in Int, First(s, lo, hi)
    PROVE  /\ 1 \in DOMAIN s /\ 1 <= lo /\ lo <= hi /\ hi <= n + 1
           /\ \A i \in Int : In(s[1], i) <=> i \in lo..hi - 1
           /\ \A k \in DOMAIN s : k # 1 => hi <= s[k][1]
<1>1. 1 \in DOMAIN s
  BY FirstPart
<1>2. /\ s[1][1] \in Int /\ s[1][2] \in Int
      /\ 1 <= s[1][1] /\ 0 <= s[1][2] /\ s[1][1] + s[1][2] <= n + 1
  BY <1>1, PartFacts
<1>3. 1 <= lo /\ lo <= hi /\ hi <= n + 1
  BY <1>2 DEF First
<1>4. \A i \in Int : In(s[1], i) <=> i \in lo..hi - 1
  BY <1>2, SMTT(30) DEF First, In
<1>5. ASSUME NEW k \in DOMAIN s, k # 1 PROVE hi <= s[k][1]
  <2>1. s \in Seq(Int \X Int)
    BY DEF Parts
  <2>2. 1 < k
    BY <1>5, <2>1
  <2>3. s[1][1] + s[1][2] <= s[k][1]
    BY <1>1, <2>2, Zenon DEF Parts
  <2> QED BY <2>3 DEF First
<1> QED BY <1>1, <1>3, <1>4, <1>5

(* Changing places within the current part leaves every pair that is not   *)
(* in one part in order.                                                   *)
LEMMA MovedKeepsApart ==
    ASSUME NEW n \in Nat, NEW A \in Elements(n), NEW B, NEW s, Parts(s, n), s # <<>>,
           NEW lo \in Int, NEW hi \in Int, First(s, lo, hi),
           Moved(A, B, n, lo, hi), Apart(A, s)
    PROVE  Apart(B, s)
<1>1. /\ 1 \in DOMAIN s /\ 1 <= lo /\ lo <= hi /\ hi <= n + 1
      /\ \A i \in Int : In(s[1], i) <=> i \in lo..hi - 1
      /\ \A k \in DOMAIN s : k # 1 => hi <= s[k][1]
  BY FirstFacts
<1>2. \A i \in Int : In(s[1], i) <=> i \in lo..hi - 1
  BY <1>1
<1>3. \A k \in DOMAIN s : k # 1 => hi <= s[k][1]
  BY <1>1
<1>4. \A i, j \in Int : i \in lo..hi - 1 /\ j \notin lo..hi - 1 => ~Same(s, i, j) /\ ~Same(s, j, i)
  <2> SUFFICES ASSUME NEW i \in lo..hi - 1, NEW j \in Int, j \notin lo..hi - 1
               PROVE  \A k \in DOMAIN s : ~(In(s[k], i) /\ In(s[k], j))
    BY Zenon DEF Same
  <2> TAKE k \in DOMAIN s
  <2>1. CASE k = 1
    BY <2>1, <1>2
  <2>2. CASE k # 1
    <3>1. hi <= s[k][1]
      BY <2>2, <1>3
    <3>2. s[k][1] \in Int
      BY PartFacts
    <3> QED BY <3>1, <3>2 DEF In
  <2> QED BY <2>1, <2>2
<1>5. DOMAIN A = 1..n /\ DOMAIN B = 1..n
  BY DEF Elements, Moved
<1>6. \A i, j \in 1..n : i < j /\ ~Same(s, i, j) => A[i][1] <= A[j][1]
  BY <1>5 DEF Apart
<1>7. \A i, j \in lo..hi - 1 : Same(s, i, j)
  <2> TAKE i, j \in lo..hi - 1
  <2>1. In(s[1], i) /\ In(s[1], j)
    BY <1>2
  <2> QED BY <1>1, <2>1, Zenon DEF Same
<1> SUFFICES ASSUME NEW i \in 1..n, NEW j \in 1..n, i < j, ~Same(s, i, j)
             PROVE  B[i][1] <= B[j][1]
  BY <1>5 DEF Apart
<1>a. \A x \in 1..n : (x < lo \/ hi <= x) => B[x] = A[x]
  BY DEF Moved
<1>b. \A x \in 1..n : x \notin lo..hi - 1 => B[x] = A[x]
  BY <1>a
<1>8. CASE i \notin lo..hi - 1 /\ j \notin lo..hi - 1
  BY <1>6, <1>8, <1>b
<1>9. CASE i \in lo..hi - 1 /\ j \notin lo..hi - 1
  <2>1. PICK m \in lo..hi - 1 : B[i] = A[m]
    BY <1>9 DEF Moved
  <2>2. B[j] = A[j]
    BY <1>9, <1>b
  <2>3. m \in 1..n /\ m < j /\ ~Same(s, m, j)
    <3>1. m \in 1..n /\ m < j
      BY <1>1, <1>9
    <3> QED BY <1>4, <1>9, <3>1
  <2> QED BY <1>6, <2>1, <2>2, <2>3
<1>10. CASE i \notin lo..hi - 1 /\ j \in lo..hi - 1
  <2>1. PICK m \in lo..hi - 1 : B[j] = A[m]
    BY <1>10 DEF Moved
  <2>2. B[i] = A[i]
    BY <1>10, <1>b
  <2>3. m \in 1..n /\ i < m /\ ~Same(s, i, m)
    <3>1. m \in 1..n /\ i < m
      BY <1>1, <1>10
    <3> QED BY <1>4, <1>10, <3>1
  <2> QED BY <1>6, <2>1, <2>2, <2>3
<1> QED BY <1>7, <1>8, <1>9, <1>10

(* B is A with the elements at x and at y exchanged.                       *)
Swapped(A, B, n, lo, hi, x, y) ==
    /\ Moved(A, B, n, lo, hi)
    /\ \A i \in lo..hi - 1 : /\ i = x => B[i] = A[y]
                             /\ i = y => B[i] = A[x]
                             /\ i # x /\ i # y => B[i] = A[i]

(* swap exchanges two elements and moves nothing else.                     *)
LEMMA SwapMoves ==
    ASSUME NEW n \in Nat, NEW A \in Elements(n), NEW lo \in Int, NEW hi \in Int, 1 <= lo, hi <= n + 1,
           NEW x \in lo..hi - 1, NEW y \in lo..hi - 1
    PROVE  Swapped(A, swap(A, x, y), n, lo, hi, x, y)
<1> DEFINE B == swap(A, x, y)
<1>1. x \in 1..n /\ y \in 1..n
  OBVIOUS
<1>2. B \in Elements(n) /\ \A i \in 1..n : B[i] = IF i = x THEN A[y] ELSE IF i = y THEN A[x] ELSE A[i]
  BY <1>1, Zenon DEF swap, Elements
<1> HIDE DEF B
<1>3. \A i \in 1..n : (i < lo \/ hi <= i) => B[i] = A[i]
  BY <1>2
<1>4. \A i \in lo..hi - 1 : i \in 1..n
  OBVIOUS
<1>5. \A i \in lo..hi - 1 : \E m \in lo..hi - 1 : B[i] = A[m]
  BY <1>2, <1>4, Zenon
<1>6. \A m \in lo..hi - 1 : \E i \in lo..hi - 1 : A[m] = B[i]
  <2> TAKE m \in lo..hi - 1
  <2>1. CASE m = x
    BY <2>1, <1>1, <1>2, Zenon
  <2>2. CASE m = y
    BY <2>2, <1>1, <1>2, Zenon
  <2>3. CASE m # x /\ m # y
    BY <2>3, <1>2, <1>4, Zenon
  <2> QED BY <2>1, <2>2, <2>3
<1>7. Moved(A, B, n, lo, hi)
  BY <1>2, <1>3, <1>5, <1>6 DEF Moved
<1>8. \A i \in lo..hi - 1 : /\ i = x => B[i] = A[y]
                            /\ i = y => B[i] = A[x]
                            /\ i # x /\ i # y => B[i] = A[i]
  BY <1>2, <1>4
<1> QED BY <1>7, <1>8 DEF B, Swapped

(* The inner loop of the insertion sort moves the next element down to its *)
(* place, and the elements up to it are in order.                          *)
LEMMA SiftMoves ==
    ASSUME NEW n \in Nat, NEW A \in Elements(n), Lo \in Int, NEW hi \in Int, 1 <= Lo, hi <= n + 1,
           NEW pl \in Lo..hi - 1, Ordered(A, Lo, pl)
    PROVE  Moved(A, Sift(A, pl), n, Lo, hi) /\ Ordered(Sift(A, pl), Lo, pl + 1)
<1> DEFINE E(x) == /\ \A y \in x..pl - 1 : cmp(A, y, pl) > 0
                   /\ x > Lo => cmp(A, x - 1, pl) <= 0
           T == {x \in Lo..pl : \A y \in x..pl - 1 : cmp(A, y, pl) > 0}
           k == CHOOSE x \in Lo..pl : E(x)
           B == Sift(A, pl)
<1>1. T \subseteq Nat /\ pl \in T
  OBVIOUS
<1>2. PICK x \in T : \A y \in T : x <= y
  <2> HIDE DEF T
  <2> QED BY <1>1, NatMin, Zenon
<1>t. \A i \in 1..n : A[i][1] \in Int
  BY DEF Elements
<1>3. x > Lo => cmp(A, x - 1, pl) <= 0
  <2> SUFFICES ASSUME x > Lo, ~(cmp(A, x - 1, pl) <= 0) PROVE FALSE
    OBVIOUS
  <2>1. x \in Lo..pl /\ \A y \in x..pl - 1 : cmp(A, y, pl) > 0
    OBVIOUS
  <2>2. x - 1 \in 1..n /\ pl \in 1..n
    BY <2>1
  <2>3. cmp(A, x - 1, pl) > 0
    BY <1>t, <2>2 DEF cmp
  <2>4. \A y \in x - 1..pl - 1 : y = x - 1 \/ y \in x..pl - 1
    BY <2>1
  <2>5. \A y \in x - 1..pl - 1 : cmp(A, y, pl) > 0
    BY <2>1, <2>3, <2>4
  <2>6. x - 1 \in T
    BY <2>1, <2>5
  <2> QED BY <1>2, <2>6, <2>1
<1>4. k \in Lo..pl /\ E(k)
  <2>1. x \in Lo..pl /\ E(x)
    BY <1>3
  <2> HIDE DEF E
  <2> QED BY <2>1
<1>5. B = [i \in DOMAIN A |-> IF i = k THEN A[pl] ELSE IF i \in k + 1..pl THEN A[i - 1] ELSE A[i]]
  BY DEF Sift
<1>6. PICK kk : kk = k
  OBVIOUS
<1> HIDE DEF k
<1>7. kk \in Int /\ Lo <= kk /\ kk <= pl /\ pl \in Int
  BY <1>4, <1>6
<1>8. \A y \in kk..pl - 1 : A[y][1] > A[pl][1]
  <2> TAKE y \in kk..pl - 1
  <2>1. y \in 1..n /\ pl \in 1..n
    BY <1>7
  <2>2. cmp(A, y, pl) > 0
    BY <1>4, <1>6
  <2> QED BY <1>t, <2>1, <2>2 DEF cmp
<1>9. kk > Lo => A[kk - 1][1] <= A[pl][1]
  <2> HAVE kk > Lo
  <2>1. kk - 1 \in 1..n /\ pl \in 1..n
    BY <1>7
  <2>2. cmp(A, kk - 1, pl) <= 0
    BY <1>4, <1>6
  <2> QED BY <1>t, <2>1, <2>2 DEF cmp
<1> HIDE DEF E, T, B
<1>10. /\ B \in Elements(n)
       /\ \A i \in 1..n : B[i] = IF i = kk THEN A[pl] ELSE IF i \in kk + 1..pl THEN A[i - 1] ELSE A[i]
  <2>1. DOMAIN A = 1..n
    BY DEF Elements
  <2>2. \A i \in 1..n : B[i] = IF i = kk THEN A[pl] ELSE IF i \in kk + 1..pl THEN A[i - 1] ELSE A[i]
    BY <1>5, <1>6, <2>1
  <2>3. \A i \in 1..n : (IF i = kk THEN A[pl] ELSE IF i \in kk + 1..pl THEN A[i - 1] ELSE A[i]) \in Int \X Int
    BY <1>7, SMTT(30) DEF Elements
  <2> QED BY <1>5, <1>6, <2>1, <2>3, Zenon DEF Elements
<1>11. \A i \in 1..n : /\ i = kk => B[i] = A[pl]
                       /\ kk + 1 <= i /\ i <= pl => B[i] = A[i - 1]
                       /\ i < kk \/ i > pl => B[i] = A[i]
  BY <1>7, <1>10
<1>12. Moved(A, B, n, Lo, hi)
  <2>1. \A i \in 1..n : (i < Lo \/ hi <= i) => B[i] = A[i]
    BY <1>7, <1>11
  <2>2. \A i \in Lo..hi - 1 : \E m \in Lo..hi - 1 : B[i] = A[m]
    <3> TAKE i \in Lo..hi - 1
    <3>0. i \in 1..n
      OBVIOUS
    <3>1. CASE i = kk
      BY <3>0, <3>1, <1>11
    <3>2. CASE kk + 1 <= i /\ i <= pl
      <4>1. B[i] = A[i - 1] /\ i - 1 \in Lo..hi - 1
        BY <3>0, <3>2, <1>11, <1>7
      <4> QED BY <4>1
    <3>3. CASE i < kk \/ i > pl
      BY <3>0, <3>3, <1>11
    <3> QED BY <1>7, <3>1, <3>2, <3>3
  <2>3. \A m \in Lo..hi - 1 : \E i \in Lo..hi - 1 : A[m] = B[i]
    <3> TAKE m \in Lo..hi - 1
    <3>0. m \in 1..n
      OBVIOUS
    <3>1. CASE m = pl
      <4>1. kk \in 1..n /\ kk \in Lo..hi - 1
        BY <1>7
      <4>2. B[kk] = A[pl]
        BY <4>1, <1>11
      <4> QED BY <4>1, <4>2, <3>1
    <3>2. CASE kk <= m /\ m < pl
      <4>1. m + 1 \in 1..n /\ m + 1 \in Lo..hi - 1 /\ kk + 1 <= m + 1 /\ m + 1 <= pl
        BY <3>2, <1>7
      <4>2. B[m + 1] = A[m + 1 - 1] /\ m + 1 - 1 = m
        BY <4>1, <1>11
      <4> QED BY <4>1, <4>2
    <3>3. CASE m < kk \/ m > pl
      BY <3>0, <3>3, <1>11
    <3> QED BY <1>7, <3>1, <3>2, <3>3
  <2> QED BY <1>10, <2>1, <2>2, <2>3 DEF Moved
<1>13. Ordered(B, Lo, pl + 1)
  <2> SUFFICES ASSUME NEW i \in Lo..pl, NEW j \in Lo..pl, i < j PROVE B[i][1] <= B[j][1]
    BY <1>7 DEF Ordered
  <2>1. i \in 1..n /\ j \in 1..n
    BY <1>7
  <2>2. \A u, v \in Lo..pl - 1 : u < v => A[u][1] <= A[v][1]
    BY DEF Ordered
  <2>3. CASE j < kk
    BY <2>1, <2>2, <2>3, <1>7, <1>11
  <2>4. CASE j = kk
    <3>1. B[i] = A[i] /\ B[j] = A[pl] /\ A[kk - 1][1] <= A[pl][1]
      BY <2>1, <2>4, <1>7, <1>9, <1>11
    <3>2. A[i][1] <= A[kk - 1][1]
      <4>1. i \in Lo..pl - 1 /\ kk - 1 \in Lo..pl - 1 /\ (i = kk - 1 \/ i < kk - 1)
        BY <2>4, <1>7
      <4> QED BY <4>1, <2>1, <2>2, <1>t
    <3>3. A[i][1] \in Int /\ A[kk - 1][1] \in Int /\ A[pl][1] \in Int
      <4>1. kk - 1 \in 1..n /\ pl \in 1..n
        BY <1>7, <2>4
      <4> QED BY <4>1, <2>1, <1>t
    <3> QED BY <3>1, <3>2, <3>3
  <2>5. CASE j > kk /\ i = kk
    <3>1. B[j] = A[j - 1] /\ B[i] = A[pl] /\ A[j - 1][1] > A[pl][1]
      BY <2>1, <2>5, <1>7, <1>8, <1>11
    <3>2. j - 1 \in 1..n /\ pl \in 1..n
      BY <1>7, <2>5
    <3>3. A[j - 1][1] \in Int /\ A[pl][1] \in Int
      BY <3>2, <1>t
    <3> QED BY <3>1, <3>3
  <2>6. CASE j > kk /\ i < kk
    <3>1. B[j] = A[j - 1] /\ B[i] = A[i]
      BY <2>1, <2>6, <1>7, <1>11
    <3>2. i \in Lo..pl - 1 /\ j - 1 \in Lo..pl - 1 /\ i < j - 1
      BY <1>7, <2>6
    <3> QED BY <3>1, <3>2, <2>2
  <2>7. CASE i > kk
    <3>1. B[j] = A[j - 1] /\ B[i] = A[i - 1]
      BY <2>1, <2>7, <1>7, <1>11
    <3>2. i - 1 \in Lo..pl - 1 /\ j - 1 \in Lo..pl - 1 /\ i - 1 < j - 1
      BY <1>7, <2>7
    <3> QED BY <3>1, <3>2, <2>2
  <2> QED BY <1>7, <2>3, <2>4, <2>5, <2>6, <2>7
<1> QED BY <1>12, <1>13 DEF B

(* B is A with the r elements at i and at j exchanged.                     *)
Exchanged(A, B, n, lo, hi, i, j, r) ==
    /\ Moved(A, B, n, lo, hi)
    /\ \A x \in 1..n : /\ i <= x /\ x < i + r => B[x] = A[x - i + j]
                       /\ j <= x /\ x < j + r => B[x] = A[x - j + i]
                       /\ x < i \/ (i + r <= x /\ x < j) \/ j + r <= x => B[x] = A[x]

(* B is A with the elements from a up to e before those from f up to a.    *)
Turned(A, B, n, lo, hi, f, a, e) ==
    /\ Moved(A, B, n, lo, hi)
    /\ \A x \in 1..n : x < f \/ e <= x => B[x] = A[x]
    /\ \A x \in f..f + (e - a) - 1 : \E m \in a..e - 1 : B[x] = A[m]
    /\ \A x \in f + (e - a)..e - 1 : \E m \in f..a - 1 : B[x] = A[m]

(* vecswap exchanges two ranges of elements that do not overlap.           *)
LEMMA VecMoves ==
    ASSUME NEW n \in Nat, NEW A \in Elements(n), NEW lo \in Int, NEW hi \in Int, 1 <= lo, hi <= n + 1,
           NEW i \in Int, NEW j \in Int, NEW r \in Nat, lo <= i, i + r <= j, j + r <= hi
    PROVE  Exchanged(A, vecswap(A, i, j, r), n, lo, hi, i, j, r)
<1> DEFINE B == vecswap(A, i, j, r)
           V(x) == IF x \in i..i + r - 1 THEN A[x - i + j]
                   ELSE IF x \in j..j + r - 1 THEN A[x - j + i] ELSE A[x]
<1>1. DOMAIN A = 1..n
  BY DEF Elements
<1>2. \A x \in 1..n : V(x) \in Int \X Int
  BY DEF Elements
<1>3. B = [x \in 1..n |-> V(x)]
  BY <1>1 DEF vecswap
<1>4. B \in Elements(n)
  <2> HIDE DEF B, V
  <2> QED BY <1>2, <1>3 DEF Elements
<1>5. \A x \in 1..n : B[x] = V(x)
  <2> HIDE DEF B, V
  <2> QED BY <1>3
<1>6. \A x \in 1..n : /\ i <= x /\ x < i + r => V(x) = A[x - i + j]
                      /\ j <= x /\ x < j + r => V(x) = A[x - j + i]
                      /\ x < i \/ (i + r <= x /\ x < j) \/ j + r <= x => V(x) = A[x]
  OBVIOUS
<1> HIDE DEF B, V
<1>7. \A x \in 1..n : /\ i <= x /\ x < i + r => B[x] = A[x - i + j]
                      /\ j <= x /\ x < j + r => B[x] = A[x - j + i]
                      /\ x < i \/ (i + r <= x /\ x < j) \/ j + r <= x => B[x] = A[x]
  BY <1>5, <1>6
<1>8. \A x \in 1..n : (x < lo \/ hi <= x) => B[x] = A[x]
  BY <1>7
<1>9. \A x \in lo..hi - 1 : \E m \in lo..hi - 1 : B[x] = A[m]
  <2> TAKE x \in lo..hi - 1
  <2>0. x \in 1..n
    OBVIOUS
  <2>1. CASE i <= x /\ x < i + r
    <3>1. B[x] = A[x - i + j] /\ x - i + j \in lo..hi - 1
      BY <2>0, <2>1, <1>7
    <3> QED BY <3>1
  <2>2. CASE j <= x /\ x < j + r
    <3>1. B[x] = A[x - j + i] /\ x - j + i \in lo..hi - 1
      BY <2>0, <2>2, <1>7
    <3> QED BY <3>1
  <2>3. CASE x < i \/ (i + r <= x /\ x < j) \/ j + r <= x
    BY <2>0, <2>3, <1>7
  <2> QED BY <2>1, <2>2, <2>3
<1>10. \A m \in lo..hi - 1 : \E x \in lo..hi - 1 : A[m] = B[x]
  <2> TAKE m \in lo..hi - 1
  <2>0. m \in 1..n
    OBVIOUS
  <2>1. CASE i <= m /\ m < i + r
    <3>0. PICK x \in Int : x = m - i + j
      OBVIOUS
    <3>1. x \in 1..n /\ x \in lo..hi - 1 /\ j <= x /\ x < j + r /\ x - j + i = m
      BY <3>0, <2>1
    <3>2. B[x] = A[x - j + i]
      BY <3>1, <1>7
    <3> QED BY <3>1, <3>2
  <2>2. CASE j <= m /\ m < j + r
    <3>0. PICK x \in Int : x = m - j + i
      OBVIOUS
    <3>1. x \in 1..n /\ x \in lo..hi - 1 /\ i <= x /\ x < i + r /\ x - i + j = m
      BY <3>0, <2>2
    <3>2. B[x] = A[x - i + j]
      BY <3>1, <1>7
    <3> QED BY <3>1, <3>2
  <2>3. CASE m < i \/ (i + r <= m /\ m < j) \/ j + r <= m
    BY <2>0, <2>3, <1>7
  <2> QED BY <2>1, <2>2, <2>3
<1>11. Moved(A, B, n, lo, hi)
  BY <1>4, <1>8, <1>9, <1>10, SMTT(30) DEF Moved
<1> QED BY <1>7, <1>11 DEF B, Exchanged

(* Exchanging the shorter of two neighbouring ranges with the far end of   *)
(* the other puts all of the second one first (min and vecswap after the   *)
(* scans).                                                                 *)
LEMMA HalvesTurn ==
    ASSUME NEW n \in Nat, NEW A \in Elements(n), NEW lo \in Int, NEW hi \in Int, 1 <= lo, hi <= n + 1,
           NEW f \in Int, NEW a \in Int, NEW e \in Int, lo <= f, f <= a, a <= e, e <= hi,
           NEW l, l = IF a - f < e - a THEN a - f ELSE e - a, NEW j, j = e - l
    PROVE  Turned(A, vecswap(A, f, j, l), n, lo, hi, f, a, e)
<1> DEFINE B == vecswap(A, f, j, l)
<1>1. l \in Nat /\ l <= a - f /\ l <= e - a /\ (l = a - f \/ l = e - a)
  OBVIOUS
<1>2. j \in Int /\ j = e - l
  BY <1>1
<1>3. f + l <= j /\ j + l <= hi /\ j + l = e
  BY <1>1, <1>2
<1>4. /\ Moved(A, B, n, lo, hi)
      /\ \A x \in 1..n : /\ f <= x /\ x < f + l => B[x] = A[x - f + j]
                         /\ j <= x /\ x < j + l => B[x] = A[x - j + f]
                         /\ x < f \/ (f + l <= x /\ x < j) \/ j + l <= x => B[x] = A[x]
  <2>2. Exchanged(A, vecswap(A, f, j, l), n, lo, hi, f, j, l)
    BY <1>1, <1>2, <1>3, VecMoves
  <2> QED BY <2>2, SMTT(30) DEF Exchanged
<1> HIDE DEF B
<1>5. \A x \in 1..n : x < f \/ e <= x => B[x] = A[x]
  BY <1>1, <1>3, <1>4
<1>6. ASSUME NEW x \in f..f + (e - a) - 1 PROVE \E m \in a..e - 1 : B[x] = A[m]
  <2>1. x \in 1..n /\ x \in Int
    OBVIOUS
  <2>2. CASE x < f + l
    <3>1. B[x] = A[x - f + j]
      BY <1>4, <2>1, <2>2
    <3>2. x - f + j \in a..e - 1
      BY <1>1, <1>2, <2>2
    <3> QED BY <3>1, <3>2
  <2>3. CASE x >= f + l
    <3>1. l = a - f /\ x < j /\ x \in a..e - 1
      BY <1>1, <1>2, <2>3
    <3>2. B[x] = A[x]
      BY <1>1, <1>4, <2>1, <2>3, <3>1, Zenon
    <3> QED BY <3>1, <3>2
  <2> QED BY <1>1, <2>1, <2>2, <2>3
<1>7. ASSUME NEW x \in f + (e - a)..e - 1 PROVE \E m \in f..a - 1 : B[x] = A[m]
  <2>1. x \in 1..n /\ x \in Int
    OBVIOUS
  <2>2. CASE x >= j
    <3>1. B[x] = A[x - j + f]
      BY <1>1, <1>3, <1>4, <2>1, <2>2
    <3>2. x - j + f \in f..a - 1
      BY <1>1, <1>2, <2>2
    <3> QED BY <3>1, <3>2
  <2>3. CASE x < j
    <3>1. l = e - a /\ x >= f + l /\ x \in f..a - 1
      BY <1>1, <1>2, <2>3
    <3>2. B[x] = A[x]
      BY <1>1, <1>4, <2>1, <2>3, <3>1
    <3> QED BY <3>1, <3>2
  <2> QED BY <1>1, <1>2, <2>1, <2>2, <2>3
<1>8. (\A x \in f..f + (e - a) - 1 : \E m \in a..e - 1 : B[x] = A[m])
      /\ (\A x \in f + (e - a)..e - 1 : \E m \in f..a - 1 : B[x] = A[m])
  BY <1>6, <1>7, SMTT(30)
<1> QED BY <1>4, <1>5, <1>8 DEF B, Turned

(* C is A with the keys equal to the pivot between the smaller and the      *)
(* greater ones.                                                            *)
Gathered(A, C, n, lo, hi, a, b, c, d) ==
    /\ Moved(A, C, n, lo, hi)
    /\ \A x \in lo..lo + (b - a) - 1 : C[x][1] < A[lo][1]
    /\ \A x \in lo + (b - a)..hi - (d - c) - 1 : C[x][1] = A[lo][1]
    /\ \A x \in hi - (d - c)..hi - 1 : C[x][1] > A[lo][1]

(* After the two vecswaps the keys equal to the pivot lie between the      *)
(* smaller and the greater ones.                                           *)
LEMMA GatherMoves ==
    ASSUME NEW n \in Nat, NEW A \in Elements(n), NEW lo \in Int, NEW hi \in Int, 1 <= lo, hi <= n + 1,
           NEW a \in Int, NEW b \in Int, NEW c \in Int, NEW d \in Int,
           Scanned(A, lo, hi, a, b, c, d), b > c,
           NEW l, l = IF a - lo < b - a THEN a - lo ELSE b - a,
           NEW r, r = IF d - c < hi - d - 1 THEN d - c ELSE hi - d - 1,
           NEW C, C = vecswap(vecswap(A, lo, b - l, l), b, hi - r, r)
    PROVE  Gathered(A, C, n, lo, hi, a, b, c, d)
<1> DEFINE B == vecswap(A, lo, b - l, l)
<1>1. b = c + 1 /\ lo + 1 <= a /\ a <= b /\ b <= d + 1 /\ d + 1 <= hi
  BY DEF Scanned
<1>2. /\ Moved(A, B, n, lo, hi)
      /\ \A x \in 1..n : x < lo \/ b <= x => B[x] = A[x]
      /\ \A x \in lo..lo + (b - a) - 1 : \E m \in a..b - 1 : B[x] = A[m]
      /\ \A x \in lo + (b - a)..b - 1 : \E m \in lo..a - 1 : B[x] = A[m]
  <2>1. lo <= a /\ b <= hi
    BY <1>1
  <2> HIDE DEF B
  <2>2. B = vecswap(A, lo, b - l, l)
    BY DEF B
  <2>3. Turned(A, vecswap(A, lo, b - l, l), n, lo, hi, lo, a, b)
    BY <1>1, <2>1, HalvesTurn, SMTT(30)
  <2> QED BY <2>2, <2>3 DEF Turned
<1> HIDE DEF B
<1>3. PICK g \in Int : g = d + 1
  OBVIOUS
<1>4. /\ Moved(B, C, n, lo, hi)
      /\ \A x \in 1..n : x < b \/ hi <= x => C[x] = B[x]
      /\ \A x \in b..b + (hi - g) - 1 : \E m \in g..hi - 1 : C[x] = B[m]
      /\ \A x \in b + (hi - g)..hi - 1 : \E m \in b..g - 1 : C[x] = B[m]
  <2>1. B \in Elements(n)
    BY <1>2 DEF Moved
  <2>2. r = IF g - b < hi - g THEN g - b ELSE hi - g
    BY <1>1, <1>3
  <2>3. lo <= b /\ b <= g /\ g <= hi
    BY <1>1, <1>3
  <2>4. C = vecswap(B, b, hi - r, r)
    BY DEF B
  <2>5. Turned(B, vecswap(B, b, hi - r, r), n, lo, hi, b, g, hi)
    <3>1. PICK k : k = r
      OBVIOUS
    <3>2. PICK j : j = hi - k
      OBVIOUS
    <3>3. k = IF g - b < hi - g THEN g - b ELSE hi - g
      BY <2>2, <3>1
    <3>4. hi <= hi
      OBVIOUS
    <3>5. Turned(B, vecswap(B, b, j, k), n, lo, hi, b, g, hi)
      BY <2>1, <2>3, <3>2, <3>3, <3>4, HalvesTurn, Zenon
    <3> QED BY <3>1, <3>2, <3>5
  <2> QED BY <2>4, <2>5 DEF Turned
<1>5. Moved(A, C, n, lo, hi)
  BY <1>2, <1>4, MovedTwice, SMTT(30)
<1>6. ASSUME NEW x \in lo..lo + (b - a) - 1 PROVE C[x][1] < A[lo][1]
  <2>1. x \in 1..n /\ x < b
    BY <1>1
  <2>2. PICK m \in a..b - 1 : B[x] = A[m]
    BY <1>2, SMTT(30)
  <2> QED BY <1>4, <2>1, <2>2 DEF Scanned
<1>7. ASSUME NEW x \in lo + (b - a)..hi - (d - c) - 1 PROVE C[x][1] = A[lo][1]
  <2>1. CASE x < b
    <3>1. x \in 1..n /\ x \in lo + (b - a)..b - 1
      BY <1>1, <2>1
    <3>2. PICK m \in lo..a - 1 : B[x] = A[m]
      BY <1>2, <3>1, SMTT(30)
    <3> QED BY <1>4, <2>1, <3>1, <3>2, SMTT(30) DEF Scanned
  <2>2. CASE x >= b
    <3>1. x \in b..b + (hi - g) - 1
      BY <1>1, <1>3, <2>2, SMTT(30)
    <3>2. PICK m \in g..hi - 1 : C[x] = B[m]
      BY <1>4, <3>1
    <3>3. m \in 1..n /\ b <= m /\ m \in d + 1..hi - 1
      BY <1>1, <1>3
    <3>4. B[m] = A[m]
      BY <1>2, <3>3, SMTT(30)
    <3> QED BY <3>2, <3>3, <3>4 DEF Scanned
  <2> QED BY <2>1, <2>2, SMTT(30)
<1>8. ASSUME NEW x \in hi - (d - c)..hi - 1 PROVE C[x][1] > A[lo][1]
  <2>1. x \in b + (hi - g)..hi - 1
    BY <1>1, <1>3, SMTT(30)
  <2>2. PICK m \in b..g - 1 : C[x] = B[m]
    BY <1>4, <2>1
  <2>3. m \in 1..n /\ b <= m /\ m \in c + 1..d
    BY <1>1, <1>3, SMTT(30)
  <2>4. B[m] = A[m]
    BY <1>2, <2>3, SMTT(30)
  <2> QED BY <2>2, <2>3, <2>4 DEF Scanned
<1> QED BY <1>5, <1>6, <1>7, <1>8 DEF Gathered

(* The parts end before m, or begin at m or later.                         *)
Until(s, m) == \A k \in DOMAIN s : s[k][1] + s[k][2] <= m
From(s, m) == \A k \in DOMAIN s : m <= s[k][1]

(* When the current part is done, two places share a part as before,       *)
(* unless both were in the current one.                                    *)
LEMMA RestParts ==
    ASSUME NEW n \in Nat, NEW s, Parts(s, n), s # <<>>
    PROVE  /\ Parts(Tail(s), n) /\ From(Tail(s), s[1][1] + s[1][2])
           /\ \A i, j : Same(s, i, j) => Same(Tail(s), i, j) \/ (In(s[1], i) /\ In(s[1], j))
<1> DEFINE t == Tail(s)
<1>1. s \in Seq(Int \X Int) /\ Len(s) \in Nat /\ DOMAIN s = 1..Len(s) /\ Len(s) >= 1
  BY DEF Parts
<1>2. /\ t \in Seq(Int \X Int) /\ DOMAIN t = 1..Len(s) - 1
      /\ \A k \in 1..Len(s) - 1 : t[k] = s[k + 1]
  BY <1>1
<1> HIDE DEF t
<1>3. \A k \in DOMAIN s : 1 <= s[k][1] /\ 0 <= s[k][2] /\ s[k][1] + s[k][2] <= n + 1
  BY DEF Parts
<1>4. \A j, k \in DOMAIN s : j < k => s[j][1] + s[j][2] <= s[k][1]
  BY DEF Parts
<1>5. \A k \in DOMAIN t : k + 1 \in DOMAIN s /\ 1 < k + 1 /\ t[k] = s[k + 1]
  <2> TAKE k \in DOMAIN t
  <2>1. k \in 1..Len(s) - 1
    BY <1>2
  <2>2. k + 1 \in 1..Len(s) /\ 1 < k + 1
    <3>1. PICK L \in Nat : L = Len(s)
      BY <1>1, Zenon
    <3>2. k \in 1..L - 1
      BY <2>1, <3>1
    <3>3. k + 1 \in 1..L /\ 1 < k + 1
      BY <3>2
    <3> QED BY <3>1, <3>3
  <2>3. t[k] = s[k + 1]
    BY <1>2, <2>1, Zenon
  <2> QED BY <1>1, <2>2, <2>3
<1>6. \A k \in DOMAIN t : 1 <= t[k][1] /\ 0 <= t[k][2] /\ t[k][1] + t[k][2] <= n + 1
  BY <1>3, <1>5
<1>7. \A j, k \in DOMAIN t : j < k => t[j][1] + t[j][2] <= t[k][1]
  <2> TAKE j, k \in DOMAIN t
  <2> HAVE j < k
  <2>1. j + 1 < k + 1
    BY <1>2
  <2>2. s[j + 1][1] + s[j + 1][2] <= s[k + 1][1]
    BY <1>4, <1>5, <2>1, SMTT(30)
  <2> QED BY <1>5, <2>2
<1>8. Parts(t, n)
  BY <1>2, <1>6, <1>7 DEF Parts
<1>9. From(t, s[1][1] + s[1][2])
  <2>1. 1 \in DOMAIN s
    BY <1>1
  <2> QED BY <1>4, <1>5, <2>1 DEF From
<1>10. ASSUME NEW i, NEW j, Same(s, i, j), ~(In(s[1], i) /\ In(s[1], j))
       PROVE  Same(t, i, j)
  <2>1. PICK k \in DOMAIN s : In(s[k], i) /\ In(s[k], j)
    BY <1>10 DEF Same
  <2>2. k # 1
    BY <1>10, <2>1
  <2>3. k - 1 \in DOMAIN t /\ k - 1 + 1 = k
    <3>1. k \in 1..Len(s)
      BY <1>1
    <3>2. k - 1 \in 1..Len(s) - 1 /\ k - 1 + 1 = k
      BY <1>1, <2>2, <3>1, SMTT(30)
    <3> QED BY <1>2, <3>2
  <2>4. t[k - 1] = s[k]
    BY <1>5, <2>3
  <2> QED BY <2>1, <2>3, <2>4 DEF Same
<1> QED BY <1>8, <1>9, <1>10 DEF t

(* Parts of two neighbouring ranges are parts of the array, and places     *)
(* share a part as before.                                                 *)
LEMMA JoinParts ==
    ASSUME NEW n \in Nat, NEW u, NEW v, Parts(u, n), Parts(v, n), NEW m \in Int, Until(u, m), From(v, m)
    PROVE  /\ Parts(u \o v, n)
           /\ \A x : Until(u, x) /\ Until(v, x) => Until(u \o v, x)
           /\ \A i, j : Same(u, i, j) \/ Same(v, i, j) => Same(u \o v, i, j)
<1> DEFINE w == u \o v
<1>1. /\ u \in Seq(Int \X Int) /\ DOMAIN u = 1..Len(u) /\ Len(u) \in Nat
      /\ v \in Seq(Int \X Int) /\ DOMAIN v = 1..Len(v) /\ Len(v) \in Nat
  BY DEF Parts
<1>2. w \in Seq(Int \X Int) /\ Len(w) = Len(u) + Len(v) /\ DOMAIN w = 1..Len(u) + Len(v)
  BY <1>1
<1>a. \A i \in 1..Len(u) + Len(v) : w[i] = IF i <= Len(u) THEN u[i] ELSE v[i - Len(u)]
  BY <1>1, ConcatProperties
<1>b. PICK L \in Nat, M \in Nat : L = Len(u) /\ M = Len(v)
  BY <1>1, Zenon
<1> HIDE DEF w
<1>c. /\ DOMAIN u = 1..L /\ DOMAIN v = 1..M /\ DOMAIN w = 1..L + M
      /\ \A i \in 1..L + M : w[i] = IF i <= L THEN u[i] ELSE v[i - L]
  BY <1>1, <1>2, <1>a, <1>b
<1>3. /\ \A k \in DOMAIN u : k \in DOMAIN w /\ w[k] = u[k]
      /\ \A k \in DOMAIN v : k + L \in DOMAIN w /\ w[k + L] = v[k]
  <2>1. ASSUME NEW k \in 1..L PROVE k \in 1..L + M /\ w[k] = u[k]
    BY <1>c
  <2>2. ASSUME NEW k \in 1..M PROVE k + L \in 1..L + M /\ w[k + L] = v[k]
    <3>1. k + L \in 1..L + M /\ ~(k + L <= L) /\ k + L - L = k
      OBVIOUS
    <3> QED BY <1>c, <3>1
  <2> QED BY <1>c, <2>1, <2>2
<1>4. ASSUME NEW k \in DOMAIN w, k \notin DOMAIN u
      PROVE  k - L \in DOMAIN v /\ w[k] = v[k - L]
  <2>1. k \in 1..L + M /\ k \notin 1..L
    BY <1>c, <1>4
  <2>2. ~(k <= L) /\ k - L \in 1..M
    BY <2>1
  <2> QED BY <1>c, <2>1, <2>2
<1>5. \A k \in DOMAIN w : (\E x \in DOMAIN u : w[k] = u[x]) \/ (\E x \in DOMAIN v : w[k] = v[x])
  BY <1>3, <1>4, Zenon
<1>6. \A k \in DOMAIN w : 1 <= w[k][1] /\ 0 <= w[k][2] /\ w[k][1] + w[k][2] <= n + 1
  <2> TAKE k \in DOMAIN w
  <2>1. ASSUME NEW x \in DOMAIN u, w[k] = u[x]
        PROVE  1 <= w[k][1] /\ 0 <= w[k][2] /\ w[k][1] + w[k][2] <= n + 1
    BY <2>1 DEF Parts
  <2>2. ASSUME NEW x \in DOMAIN v, w[k] = v[x]
        PROVE  1 <= w[k][1] /\ 0 <= w[k][2] /\ w[k][1] + w[k][2] <= n + 1
    BY <2>2 DEF Parts
  <2> QED BY <1>5, <2>1, <2>2
<1>7. ASSUME NEW j \in DOMAIN w, NEW k \in DOMAIN w, j < k
      PROVE  w[j][1] + w[j][2] <= w[k][1]
  <2>1. CASE k \in DOMAIN u
    <3>1. j \in DOMAIN u
      BY <1>c, <1>7, <2>1
    <3> QED BY <1>3, <1>7, <2>1, <3>1, SMTT(30) DEF Parts
  <2>2. CASE j \in DOMAIN u /\ k \notin DOMAIN u
    <3>1. k - L \in DOMAIN v /\ w[k] = v[k - L]
      BY <1>4, <2>2
    <3>2. m <= w[k][1]
      BY <3>1 DEF From
    <3>3. w[j][1] + w[j][2] <= m
      BY <1>3, <2>2 DEF Until
    <3>4. w[j][1] \in Int /\ w[j][2] \in Int /\ w[k][1] \in Int
      <4>1. w[j] \in Int \X Int /\ w[k] \in Int \X Int
        BY <1>2, <1>7, ElementOfSeq
      <4> QED BY <4>1
    <3> QED BY <3>2, <3>3, <3>4
  <2>3. CASE j \notin DOMAIN u /\ k \notin DOMAIN u
    <3>1. k - L \in DOMAIN v /\ w[k] = v[k - L]
      BY <1>4, <2>3
    <3>2. j - L \in DOMAIN v /\ w[j] = v[j - L]
      BY <1>4, <2>3
    <3>3. j - L < k - L
      BY <1>c, <1>7
    <3> QED BY <3>1, <3>2, <3>3 DEF Parts
  <2> QED BY <2>1, <2>2, <2>3
<1>8. Parts(w, n)
  BY <1>2, <1>6, <1>7 DEF Parts
<1>9. \A x : Until(u, x) /\ Until(v, x) => Until(w, x)
  BY <1>5, Zenon DEF Until
<1>10. ASSUME NEW i, NEW j, Same(u, i, j) \/ Same(v, i, j) PROVE Same(w, i, j)
  BY <1>3, <1>10, Zenon DEF Same
<1> QED BY <1>8, <1>9, <1>10 DEF w

(* p are the parts that are left of the elements from f up to e.           *)
Alone(p, n, f, e) ==
    /\ Parts(p, n) /\ Until(p, e) /\ From(p, f)
    /\ \A i, j \in f..e - 1 : i # j => Same(p, i, j)

(* A range becomes a part, or has one element at most (r > es of qsort).   *)
LEMMA PartAlone ==
    ASSUME NEW n \in Nat, NEW f \in Int, NEW len \in Int, NEW e \in Int, e = f + len, 1 <= f, e <= n + 1
    PROVE  Alone(part(f, len), n, f, e)
<1>1. CASE len > 1
  <2> DEFINE p == part(f, len)
  <2>1. p = <<<<f, len>>>>
    BY <1>1 DEF part
  <2>2. p \in Seq(Int \X Int) /\ DOMAIN p = {1} /\ p[1] = <<f, len>>
    BY <2>1
  <2>3. p[1][1] = f /\ p[1][2] = len
    BY <2>2
  <2> HIDE DEF p
  <2>4. Parts(p, n)
    BY <1>1, <2>2, <2>3 DEF Parts
  <2>5. Until(p, e) /\ From(p, f)
    BY <2>2, <2>3 DEF Until, From
  <2>6. \A i \in f..e - 1 : In(p[1], i)
    BY <2>3 DEF In
  <2>7. \A i, j \in f..e - 1 : Same(p, i, j)
    BY <2>2, <2>6 DEF Same
  <2> QED BY <2>4, <2>5, <2>7 DEF p, Alone
<1>2. CASE ~(len > 1)
  <2>1. part(f, len) = <<>>
    BY <1>2 DEF part
  <2>2. Parts(<<>>, n) /\ Until(<<>>, e) /\ From(<<>>, f)
    BY DEF Parts, Until, From
  <2>3. \A i, j \in f..e - 1 : i = j
    BY <1>2
  <2> QED BY <2>1, <2>2, <2>3, Zenon DEF Alone
<1> QED BY <1>1, <1>2

(* A current part in order can be left: every pair that is not in one of   *)
(* the other parts is in order.                                            *)
LEMMA RestApart ==
    ASSUME NEW n \in Nat, NEW A \in Elements(n), NEW s, Parts(s, n), s # <<>>, Apart(A, s),
           NEW lo \in Int, NEW hi \in Int, First(s, lo, hi), NEW m \in Int, hi <= m, Ordered(A, lo, m)
    PROVE  Parts(Tail(s), n) /\ Apart(A, Tail(s))
<1>1. /\ Parts(Tail(s), n)
      /\ \A i, j : Same(s, i, j) => Same(Tail(s), i, j) \/ (In(s[1], i) /\ In(s[1], j))
  BY RestParts
<1>2. DOMAIN A = 1..n
  BY DEF Elements
<1>3. \A i \in Int : In(s[1], i) <=> i \in lo..hi - 1
  BY FirstFacts
<1>4. ASSUME NEW i \in 1..n, NEW j \in 1..n, i < j, ~Same(Tail(s), i, j)
      PROVE  A[i][1] <= A[j][1]
  <2>1. CASE Same(s, i, j)
    <3>1. In(s[1], i) /\ In(s[1], j)
      BY <1>1, <1>4, <2>1
    <3>2. i \in lo..hi - 1 /\ j \in lo..hi - 1
      BY <1>3, <3>1
    <3>3. i \in lo..m - 1 /\ j \in lo..m - 1
      BY <3>2
    <3> QED BY <1>4, <3>3 DEF Ordered
  <2>2. CASE ~Same(s, i, j)
    BY <1>2, <1>4, <2>2, SMTT(30) DEF Apart
  <2> QED BY <2>1, <2>2
<1> QED BY <1>1, <1>2, <1>4 DEF Apart

(* The keys up to e are smaller than v, those up to g equal to v, and the  *)
(* others greater.                                                         *)
Zoned(A, lo, e, g, hi, v) ==
    /\ \A x \in lo..e - 1 : A[x][1] < v
    /\ \A x \in e..g - 1 : A[x][1] = v
    /\ \A x \in g..hi - 1 : A[x][1] > v

(* A divided part can be replaced by its smaller and its greater keys:     *)
(* every pair that is not in one part is in order (the recursion of        *)
(* qsort).                                                                 *)
LEMMA SplitApart ==
    ASSUME NEW n \in Nat, NEW A \in Elements(n), NEW s, Parts(s, n), s # <<>>, Apart(A, s),
           NEW lo \in Int, NEW hi \in Int, First(s, lo, hi),
           NEW e \in Int, NEW g \in Int, lo <= e, e <= g, g <= hi, NEW v \in Int,
           Zoned(A, lo, e, g, hi, v),
           NEW t, t = part(lo, e - lo) \o part(g, hi - g) \o Tail(s)
    PROVE  Parts(t, n) /\ Apart(A, t)
<1> DEFINE p == part(lo, e - lo)
           q == part(g, hi - g)
           u == p \o q
<1>1. /\ 1 \in DOMAIN s /\ 1 <= lo /\ lo <= hi /\ hi <= n + 1
      /\ \A i \in Int : In(s[1], i) <=> i \in lo..hi - 1
  BY FirstFacts
<1>0. 1 <= lo /\ lo <= hi /\ hi <= n + 1
  BY <1>1
<1>2. /\ Parts(p, n) /\ Until(p, e)
      /\ \A i, j \in lo..e - 1 : i # j => Same(p, i, j)
  <2>1. PICK len \in Int : len = e - lo
    OBVIOUS
  <2>2. e <= n + 1 /\ e = lo + len
    BY <1>0, <2>1
  <2>3. Alone(part(lo, len), n, lo, e)
    BY <1>0, <2>2, PartAlone
  <2>4. p = part(lo, len)
    BY <2>1
  <2> HIDE DEF p
  <2> QED BY <2>3, <2>4 DEF Alone
<1>3. /\ Parts(q, n) /\ Until(q, hi) /\ From(q, g)
      /\ \A i, j \in g..hi - 1 : i # j => Same(q, i, j)
  <2>1. PICK len \in Int : len = hi - g
    OBVIOUS
  <2>2. hi = g + len /\ 1 <= g
    BY <1>0, <2>1
  <2>3. Alone(part(g, len), n, g, hi)
    BY <1>0, <2>2, PartAlone
  <2>4. q = part(g, len)
    BY <2>1
  <2> HIDE DEF q
  <2> QED BY <2>3, <2>4 DEF Alone
<1>4. /\ Parts(Tail(s), n) /\ From(Tail(s), hi)
      /\ \A i, j : Same(s, i, j) => Same(Tail(s), i, j) \/ (In(s[1], i) /\ In(s[1], j))
  <2>1. hi = s[1][1] + s[1][2]
    BY DEF First
  <2> QED BY <2>1, RestParts, Zenon
<1> HIDE DEF p, q
<1>5. From(q, e)
  <2>1. \A k \in DOMAIN q : q[k][1] \in Int
    BY <1>3, PartFacts
  <2> QED BY <1>3, <2>1 DEF From
<1>6. Until(p, hi)
  <2>1. \A k \in DOMAIN p : p[k][1] \in Int /\ p[k][2] \in Int
    BY <1>2, PartFacts
  <2> QED BY <1>2, <2>1 DEF Until
<1>7. /\ Parts(u, n) /\ Until(u, hi)
      /\ \A i, j : Same(p, i, j) \/ Same(q, i, j) => Same(u, i, j)
  BY <1>2, <1>3, <1>5, <1>6, JoinParts
<1> HIDE DEF u
<1>8. /\ Parts(t, n)
      /\ \A i, j : Same(u, i, j) \/ Same(Tail(s), i, j) => Same(t, i, j)
  <2>1. t = u \o Tail(s)
    BY DEF u, p, q
  <2> QED BY <2>1, <1>4, <1>7, JoinParts, Zenon
<1>9. DOMAIN A = 1..n /\ \A i \in 1..n : A[i][1] \in Int
  BY SMTT(30) DEF Elements
<1>10. ASSUME NEW i \in 1..n, NEW j \in 1..n, i < j, ~Same(t, i, j)
       PROVE  A[i][1] <= A[j][1]
  <2>1. ~Same(Tail(s), i, j) /\ ~Same(p, i, j) /\ ~Same(q, i, j)
    BY <1>7, <1>8, <1>10
  <2>2. CASE ~Same(s, i, j)
    BY <1>9, <1>10, <2>2, Zenon DEF Apart
  <2>3. CASE Same(s, i, j)
    <3>1. lo <= i /\ i < hi /\ lo <= j /\ j < hi
      <4>1. In(s[1], i) /\ In(s[1], j)
        BY <1>4, <2>1, <2>3
      <4> QED BY <1>1, <4>1
    <3>2. ~(i < e /\ j < e)
      <4>1. i < e /\ j < e => i \in lo..e - 1 /\ j \in lo..e - 1
        BY <3>1
      <4> QED BY <1>2, <1>10, <2>1, <4>1
    <3>3. ~(i >= g /\ j >= g)
      <4>1. i >= g /\ j >= g => i \in g..hi - 1 /\ j \in g..hi - 1
        BY <3>1
      <4> QED BY <1>3, <1>10, <2>1, <4>1
    <3>4. /\ i < e => A[i][1] < v
          /\ e <= i => A[i][1] = v
      <4>1. /\ i < e => i \in lo..e - 1
            /\ e <= i => i \in e..g - 1
        BY <1>10, <3>1, <3>3
      <4> QED BY <4>1 DEF Zoned
    <3>5. /\ j >= g => A[j][1] > v
          /\ j < g => A[j][1] = v
      <4>1. /\ j >= g => j \in g..hi - 1
            /\ j < g => j \in e..g - 1
        BY <1>10, <3>1, <3>2
      <4> QED BY <4>1 DEF Zoned
    <3> QED BY <1>9, <3>4, <3>5, SMTT(30)
  <2> QED BY <2>2, <2>3
<1> QED BY <1>8, <1>9, <1>10 DEF Apart

(* The element chosen as pivot lies in the current part (med3, pseudo-     *)
(* median of nine).                                                        *)
LEMMA PivotInside ==
    ASSUME NEW A, Lo \in Int, Size \in Int, Size >= 7
    PROVE  Pivot(A) \in Lo..Lo + Size - 1
<1>1. \A x, y, z : med3(A, x, y, z) = x \/ med3(A, x, y, z) = y \/ med3(A, x, y, z) = z
  BY DEF med3
<1> DEFINE mid == Lo + Size \div 2
           pn == Lo + Size - 1
           d == Size \div 8
           R == Lo..Lo + Size - 1
<1>2. /\ Lo \in R /\ Lo + d \in R /\ Lo + 2 * d \in R
      /\ mid - d \in R /\ mid \in R /\ mid + d \in R
      /\ pn - 2 * d \in R /\ pn - d \in R /\ pn \in R
  OBVIOUS
<1>3. Pivot(A) = IF Size <= 7 THEN mid
                 ELSE IF Size <= 40 THEN med3(A, Lo, mid, pn)
                 ELSE med3(A, med3(A, Lo, Lo + d, Lo + 2 * d), med3(A, mid - d, mid, mid + d),
                              med3(A, pn - 2 * d, pn - d, pn))
  BY DEF Pivot
<1> HIDE DEF mid, pn, d, R
<1>4. \A x, y, z \in R : med3(A, x, y, z) \in R
  <2> TAKE x, y, z \in R
  <2>1. med3(A, x, y, z) = x \/ med3(A, x, y, z) = y \/ med3(A, x, y, z) = z
    BY <1>1
  <2> QED BY <2>1
<1>5. Pivot(A) \in R
  <2>1. med3(A, Lo, mid, pn) \in R
    BY <1>2, <1>4
  <2>2. /\ med3(A, Lo, Lo + d, Lo + 2 * d) \in R /\ med3(A, mid - d, mid, mid + d) \in R
        /\ med3(A, pn - 2 * d, pn - d, pn) \in R
    BY <1>2, <1>4, Zenon
  <2>3. med3(A, med3(A, Lo, Lo + d, Lo + 2 * d), med3(A, mid - d, mid, mid + d),
                med3(A, pn - 2 * d, pn - d, pn)) \in R
    BY <1>4, <2>2
  <2> QED BY <1>2, <1>3, <2>1, <2>3
<1> QED BY <1>5 DEF R

(* The scan up leaves a smaller key where it is.                           *)
LEMMA ScanSmaller ==
    ASSUME NEW A, NEW lo \in Int, NEW hi \in Int,
           NEW a \in Int, NEW b \in Int, NEW c \in Int, NEW d \in Int,
           Scanned(A, lo, hi, a, b, c, d), b <= c, A[b][1] < A[lo][1]
    PROVE  Scanned(A, lo, hi, a, b + 1, c, d)
<1>1. lo + 1 <= a /\ a <= b /\ b <= c /\ c <= d /\ d <= hi - 1
  BY DEF Scanned
<1>2. /\ \A i \in lo..a - 1 : A[i][1] = A[lo][1]
      /\ \A i \in a..b - 1 : A[i][1] < A[lo][1]
      /\ \A i \in c + 1..d : A[i][1] > A[lo][1]
      /\ \A i \in d + 1..hi - 1 : A[i][1] = A[lo][1]
  BY Zenon DEF Scanned
<1>3. \A i \in a..(b + 1) - 1 : A[i][1] < A[lo][1]
  <2> TAKE i \in a..(b + 1) - 1
  <2>1. i = b \/ i \in a..b - 1
    OBVIOUS
  <2> QED BY <1>2, <2>1, Zenon
<1>4. lo + 1 <= a /\ a <= b + 1 /\ b + 1 <= c + 1 /\ c <= d /\ d <= hi - 1
  BY <1>1
<1> QED BY <1>2, <1>3, <1>4, Zenon DEF Scanned

(* The scan down leaves a greater key where it is.                         *)
LEMMA ScanGreater ==
    ASSUME NEW A, NEW lo \in Int, NEW hi \in Int,
           NEW a \in Int, NEW b \in Int, NEW c \in Int, NEW d \in Int,
           Scanned(A, lo, hi, a, b, c, d), b <= c, A[c][1] > A[lo][1]
    PROVE  Scanned(A, lo, hi, a, b, c - 1, d)
<1>1. lo + 1 <= a /\ a <= b /\ b <= c /\ c <= d /\ d <= hi - 1
  BY DEF Scanned
<1>2. /\ \A i \in lo..a - 1 : A[i][1] = A[lo][1]
      /\ \A i \in a..b - 1 : A[i][1] < A[lo][1]
      /\ \A i \in c + 1..d : A[i][1] > A[lo][1]
      /\ \A i \in d + 1..hi - 1 : A[i][1] = A[lo][1]
  BY Zenon DEF Scanned
<1>3. \A i \in c - 1 + 1..d : A[i][1] > A[lo][1]
  <2> TAKE i \in c - 1 + 1..d
  <2>1. i = c \/ i \in c + 1..d
    OBVIOUS
  <2> QED BY <1>2, <2>1, Zenon
<1>4. lo + 1 <= a /\ a <= b /\ b <= c - 1 + 1 /\ c - 1 <= d /\ d <= hi - 1
  BY <1>1
<1> QED BY <1>2, <1>3, <1>4, Zenon DEF Scanned

(* The scan up moves a key equal to the pivot to the front.                *)
LEMMA ScanEqualUp ==
    ASSUME NEW n \in Nat, NEW A \in Elements(n), NEW lo \in Int, NEW hi \in Int, 1 <= lo, hi <= n + 1,
           NEW a \in Int, NEW b \in Int, NEW c \in Int, NEW d \in Int,
           Scanned(A, lo, hi, a, b, c, d), b <= c, A[b][1] = A[lo][1]
    PROVE  /\ Moved(A, swap(A, a, b), n, lo, hi)
           /\ Scanned(swap(A, a, b), lo, hi, a + 1, b + 1, c, d)
<1> DEFINE B == swap(A, a, b)
<1>1. lo + 1 <= a /\ a <= b /\ b <= c /\ c <= d /\ d <= hi - 1
  BY DEF Scanned
<1>2. a \in lo..hi - 1 /\ b \in lo..hi - 1
  BY <1>1, SMTT(30)
<1>3. Swapped(A, B, n, lo, hi, a, b)
  BY <1>2, SwapMoves, SMTT(30)
<1> HIDE DEF B
<1>4. /\ Moved(A, B, n, lo, hi)
      /\ \A i \in lo..hi - 1 : /\ i = a => B[i] = A[b]
                               /\ i = b => B[i] = A[a]
                               /\ i # a /\ i # b => B[i] = A[i]
  BY <1>3 DEF Swapped
<1>5. /\ \A i \in lo..a - 1 : A[i][1] = A[lo][1]
      /\ \A i \in a..b - 1 : A[i][1] < A[lo][1]
      /\ \A i \in c + 1..d : A[i][1] > A[lo][1]
      /\ \A i \in d + 1..hi - 1 : A[i][1] = A[lo][1]
  BY Zenon DEF Scanned
<1>6. B[lo] = A[lo]
  BY <1>1, <1>4
<1>7. \A i \in lo..(a + 1) - 1 : B[i][1] = B[lo][1]
  <2> TAKE i \in lo..(a + 1) - 1
  <2>1. i \in lo..hi - 1
    BY <1>1
  <2>2. CASE i = a
    BY <1>1, <1>4, <1>5, <1>6, <2>1, <2>2, SMTT(30)
  <2>3. CASE i # a
    BY <1>1, <1>4, <1>5, <1>6, <2>1, <2>3, SMTT(30)
  <2> QED BY <2>2, <2>3
<1>8. \A i \in a + 1..(b + 1) - 1 : B[i][1] < B[lo][1]
  <2> TAKE i \in a + 1..(b + 1) - 1
  <2>1. i \in lo..hi - 1
    BY <1>1
  <2>2. CASE i = b
    BY <1>1, <1>4, <1>5, <1>6, <2>1, <2>2, SMTT(30)
  <2>3. CASE i # b
    BY <1>1, <1>4, <1>5, <1>6, <2>1, <2>3, SMTT(30)
  <2> QED BY <2>2, <2>3
<1>9. \A i \in c + 1..d : B[i][1] > B[lo][1]
  <2> TAKE i \in c + 1..d
  <2>1. i \in lo..hi - 1
    BY <1>1, SMTT(30)
  <2> QED BY <1>1, <1>4, <1>5, <1>6, <2>1, SMTT(30)
<1>10. \A i \in d + 1..hi - 1 : B[i][1] = B[lo][1]
  <2> TAKE i \in d + 1..hi - 1
  <2>1. i \in lo..hi - 1
    BY <1>1
  <2> QED BY <1>1, <1>4, <1>5, <1>6, <2>1, SMTT(30)
<1>b. lo + 1 <= a + 1 /\ a + 1 <= b + 1 /\ b + 1 <= c + 1 /\ c <= d /\ d <= hi - 1
  BY <1>1
<1>c. Scanned(B, lo, hi, a + 1, b + 1, c, d)
  BY <1>b, <1>7, <1>8, <1>9, <1>10, Zenon DEF Scanned
<1> QED BY <1>4, <1>c DEF B

(* The scan down moves a key equal to the pivot to the end, and the        *)
(* greater key at which the scan up has stopped stays.                     *)
LEMMA ScanEqualDown ==
    ASSUME NEW n \in Nat, NEW A \in Elements(n), NEW lo \in Int, NEW hi \in Int, 1 <= lo, hi <= n + 1,
           NEW a \in Int, NEW b \in Int, NEW c \in Int, NEW d \in Int,
           Scanned(A, lo, hi, a, b, c, d), b <= c, A[c][1] = A[lo][1], A[b][1] > A[lo][1]
    PROVE  /\ Moved(A, swap(A, c, d), n, lo, hi)
           /\ Scanned(swap(A, c, d), lo, hi, a, b, c - 1, d - 1)
           /\ swap(A, c, d)[b][1] > swap(A, c, d)[lo][1]
<1> DEFINE B == swap(A, c, d)
<1>1. lo + 1 <= a /\ a <= b /\ b <= c /\ c <= d /\ d <= hi - 1
  BY DEF Scanned
<1>2. c \in lo..hi - 1 /\ d \in lo..hi - 1
  BY <1>1
<1>3. Swapped(A, B, n, lo, hi, c, d)
  BY <1>2, SwapMoves
<1> HIDE DEF B
<1>4. /\ Moved(A, B, n, lo, hi)
      /\ \A i \in lo..hi - 1 : /\ i = c => B[i] = A[d]
                               /\ i = d => B[i] = A[c]
                               /\ i # c /\ i # d => B[i] = A[i]
  BY <1>3 DEF Swapped
<1>5. /\ \A i \in lo..a - 1 : A[i][1] = A[lo][1]
      /\ \A i \in a..b - 1 : A[i][1] < A[lo][1]
      /\ \A i \in c + 1..d : A[i][1] > A[lo][1]
      /\ \A i \in d + 1..hi - 1 : A[i][1] = A[lo][1]
  BY Zenon DEF Scanned
<1>6. B[lo] = A[lo]
  BY <1>1, <1>4
<1>t. b < c
  <2>1. lo \in 1..n
    BY <1>1
  <2>2. A[lo][1] \in Int
    BY <2>1 DEF Elements
  <2>3. b # c
    BY <2>2, SMTT(30)
  <2> QED BY <2>3
<1>7. \A i \in lo..a - 1 : B[i][1] = B[lo][1]
  <2> TAKE i \in lo..a - 1
  <2>1. i \in lo..hi - 1
    BY <1>1, <1>t, SMTT(30)
  <2> QED BY <1>1, <1>4, <1>5, <1>6, <2>1, <1>t
<1>8. \A i \in a..b - 1 : B[i][1] < B[lo][1]
  <2> TAKE i \in a..b - 1
  <2>1. i \in lo..hi - 1
    BY <1>1, <1>t
  <2> QED BY <1>1, <1>4, <1>5, <1>6, <2>1, <1>t, SMTT(30)
<1>9. \A i \in c - 1 + 1..d - 1 : B[i][1] > B[lo][1]
  <2> TAKE i \in c - 1 + 1..d - 1
  <2>1. i \in lo..hi - 1
    BY <1>1, <1>t, SMTT(30)
  <2>2. CASE i = c
    BY <1>1, <1>4, <1>5, <1>6, <2>1, <2>2, <1>t, SMTT(30)
  <2>3. CASE i # c
    BY <1>1, <1>4, <1>5, <1>6, <2>1, <2>3, <1>t, SMTT(30)
  <2> QED BY <2>2, <2>3
<1>10. \A i \in d - 1 + 1..hi - 1 : B[i][1] = B[lo][1]
  <2> TAKE i \in d - 1 + 1..hi - 1
  <2>1. i \in lo..hi - 1
    BY <1>1, <1>t, SMTT(30)
  <2>2. CASE i = d
    BY <1>1, <1>4, <1>5, <1>6, <2>1, <2>2, <1>t, SMTT(30)
  <2>3. CASE i # d
    BY <1>1, <1>4, <1>5, <1>6, <2>1, <2>3, <1>t, SMTT(30)
  <2> QED BY <2>2, <2>3
<1>b. lo + 1 <= a /\ a <= b /\ b <= c - 1 + 1 /\ c - 1 <= d - 1 /\ d - 1 <= hi - 1
  BY <1>1, <1>t
<1>c. Scanned(B, lo, hi, a, b, c - 1, d - 1)
  BY <1>b, <1>7, <1>8, <1>9, <1>10, Zenon DEF Scanned
<1>d. B[b] = A[b]
  <2>1. b \in lo..hi - 1 /\ b # c /\ b # d
    BY <1>1, <1>t, SMTT(30)
  <2> QED BY <1>4, <2>1, Zenon
<1> QED BY <1>4, <1>6, <1>c, <1>d, SMTT(30) DEF B

(* A greater key below and a smaller one above change places.              *)
LEMMA ScanCross ==
    ASSUME NEW n \in Nat, NEW A \in Elements(n), NEW lo \in Int, NEW hi \in Int, 1 <= lo, hi <= n + 1,
           NEW a \in Int, NEW b \in Int, NEW c \in Int, NEW d \in Int,
           Scanned(A, lo, hi, a, b, c, d), b <= c, A[c][1] < A[lo][1], A[b][1] > A[lo][1]
    PROVE  /\ Moved(A, swap(A, b, c), n, lo, hi)
           /\ Scanned(swap(A, b, c), lo, hi, a, b + 1, c - 1, d)
<1> DEFINE B == swap(A, b, c)
<1>1. lo + 1 <= a /\ a <= b /\ b <= c /\ c <= d /\ d <= hi - 1
  BY DEF Scanned
<1>2. b \in lo..hi - 1 /\ c \in lo..hi - 1
  BY <1>1
<1>3. Swapped(A, B, n, lo, hi, b, c)
  BY <1>2, SwapMoves, SMTT(30)
<1> HIDE DEF B
<1>4. /\ Moved(A, B, n, lo, hi)
      /\ \A i \in lo..hi - 1 : /\ i = b => B[i] = A[c]
                               /\ i = c => B[i] = A[b]
                               /\ i # b /\ i # c => B[i] = A[i]
  BY <1>3 DEF Swapped
<1>5. /\ \A i \in lo..a - 1 : A[i][1] = A[lo][1]
      /\ \A i \in a..b - 1 : A[i][1] < A[lo][1]
      /\ \A i \in c + 1..d : A[i][1] > A[lo][1]
      /\ \A i \in d + 1..hi - 1 : A[i][1] = A[lo][1]
  BY Zenon DEF Scanned
<1>6. B[lo] = A[lo]
  BY <1>1, <1>4
<1>t. b < c
  <2>1. lo \in 1..n
    BY <1>1
  <2>2. A[lo][1] \in Int
    BY <2>1 DEF Elements
  <2>3. c \in 1..n
    BY <1>1
  <2>4. A[c][1] \in Int
    BY <2>3 DEF Elements
  <2>5. b # c
    BY <2>2, <2>4, SMTT(30)
  <2> QED BY <2>5
<1>7. \A i \in lo..a - 1 : B[i][1] = B[lo][1]
  <2> TAKE i \in lo..a - 1
  <2>1. i \in lo..hi - 1
    BY <1>1, <1>t
  <2> QED BY <1>1, <1>4, <1>5, <1>6, <2>1, <1>t, SMTT(30)
<1>8. \A i \in a..(b + 1) - 1 : B[i][1] < B[lo][1]
  <2> TAKE i \in a..(b + 1) - 1
  <2>1. i \in lo..hi - 1
    BY <1>1, <1>t
  <2>2. CASE i = b
    BY <1>1, <1>4, <1>5, <1>6, <2>1, <2>2, <1>t, SMTT(30)
  <2>3. CASE i # b
    BY <1>1, <1>4, <1>5, <1>6, <2>1, <2>3, <1>t, SMTT(30)
  <2> QED BY <2>2, <2>3
<1>9. \A i \in c - 1 + 1..d : B[i][1] > B[lo][1]
  <2> TAKE i \in c - 1 + 1..d
  <2>1. i \in lo..hi - 1
    BY <1>1, <1>t
  <2>2. CASE i = c
    BY <1>1, <1>4, <1>5, <1>6, <2>1, <2>2, <1>t, SMTT(30)
  <2>3. CASE i # c
    BY <1>1, <1>4, <1>5, <1>6, <2>1, <2>3, <1>t, SMTT(30)
  <2> QED BY <2>2, <2>3
<1>10. \A i \in d + 1..hi - 1 : B[i][1] = B[lo][1]
  <2> TAKE i \in d + 1..hi - 1
  <2>1. i \in lo..hi - 1
    BY <1>1, <1>t
  <2> QED BY <1>1, <1>4, <1>5, <1>6, <2>1, <1>t, SMTT(30)
<1>b. lo + 1 <= a /\ a <= b + 1 /\ b + 1 <= c - 1 + 1 /\ c - 1 <= d /\ d <= hi - 1
  BY <1>1, <1>t
<1>c. Scanned(B, lo, hi, a, b + 1, c - 1, d)
  BY <1>b, <1>7, <1>8, <1>9, <1>10, Zenon DEF Scanned
<1> QED BY <1>4, <1>c DEF B

-----------------------------------------------------------------------------
(* The elements before pm are in order.                                    *)
Inserting ==
    /\ Lo + 1 <= pm /\ (pm <= Lo + Size \/ pm = Lo + 1)
    /\ Ordered(arr, Lo, pm)

(* The current part is scanned; above it the scan up has stopped at a      *)
(* greater key, or the two have met.                                       *)
Dividing ==
    /\ Scanned(arr, Lo, Lo + Size, pa, pb, pc, pd)
    /\ at = "down" => pb > pc \/ arr[pb][1] > arr[Lo][1]
    /\ at = "gather" => pb > pc

(* The bounds of the scans are integers.                                   *)
Pointers == pa \in Int /\ pb \in Int /\ pc \in Int /\ pd \in Int /\ pm \in Int

(* The array and its parts between two steps, n elements long.             *)
Array(n, A, s) == A \in Elements(n) /\ Whole(A, n) /\ Parts(s, n) /\ Apart(A, s)

(* What holds between two steps of qsort on an array of n elements.        *)
Sorting(n) ==
    /\ Array(n, arr, todo) /\ Pointers
    /\ \/ at = "loop"
       \/ at = "insert" /\ todo # <<>> /\ Inserting
       \/ at \in {"up", "down", "gather"} /\ todo # <<>> /\ Dividing
SortInv == \E n \in Nat : Sorting(n)

(* a and n of the C code: the bounds of the current part.                  *)
LEMMA CurrentPart ==
    ASSUME NEW n \in Nat, Array(n, arr, todo), todo # <<>>
    PROVE  /\ Lo \in Int /\ Size \in Int /\ Lo + Size \in Int /\ First(todo, Lo, Lo + Size)
           /\ 1 <= Lo /\ 0 <= Size /\ Lo + Size <= n + 1
<1>0. Parts(todo, n)
  BY DEF Array
<1>1. 1 \in DOMAIN todo /\ todo \in Seq(Int \X Int)
  BY <1>0, FirstPart DEF Parts
<1>2. /\ todo[1][1] \in Int /\ todo[1][2] \in Int
      /\ 1 <= todo[1][1] /\ 0 <= todo[1][2] /\ todo[1][1] + todo[1][2] <= n + 1
  BY <1>0, <1>1, PartFacts
<1>3. Lo = todo[1][1] /\ Size = todo[1][2]
  BY <1>1 DEF Lo, Size
<1> QED BY <1>2, <1>3 DEF First

(* Changing places within the current part keeps the array and its parts.  *)
LEMMA SortedInside ==
    ASSUME NEW n \in Nat, Array(n, arr, todo), todo # <<>>, NEW hi \in Int, hi = Lo + Size,
           NEW B, Moved(arr, B, n, Lo, hi)
    PROVE  Array(n, B, todo)
<1>1. arr \in Elements(n) /\ Whole(arr, n) /\ Parts(todo, n) /\ Apart(arr, todo)
  BY DEF Array
<1>2. Lo \in Int /\ First(todo, Lo, hi) /\ 1 <= Lo /\ hi <= n + 1
  BY CurrentPart
<1>3. Apart(B, todo)
  BY <1>1, <1>2, MovedKeepsApart
<1>4. Whole(B, n)
  BY <1>1, <1>2, MovedKeepsWhole
<1>5. B \in Elements(n)
  BY DEF Moved
<1> QED BY <1>1, <1>3, <1>4, <1>5 DEF Array

(* The insertion sort begins with one element in order.                    *)
LEMMA InsertionSortOK ==
    ASSUME NEW n \in Nat, Sorting(n), todo # <<>>, InsertionSort
    PROVE  Sorting(n)'
<1>1. Array(n, arr, todo) /\ Pointers
  BY DEF Sorting
<1>2. Lo \in Int
  BY <1>1, CurrentPart
<1>3. /\ arr' = arr /\ todo' = todo /\ pa' = pa /\ pb' = pb /\ pc' = pc /\ pd' = pd
      /\ at' = "insert" /\ pm' = Lo + 1
  BY DEF InsertionSort, ptrs
<1>4. Lo' = Lo /\ Size' = Size
  BY <1>3 DEF Lo, Size
<1>5. Ordered(arr, Lo, Lo + 1) /\ Lo + 1 <= Lo + 1
  BY <1>2 DEF Ordered
<1>6. Inserting'
  BY <1>3, <1>4, <1>5 DEF Inserting
<1>7. Pointers'
  BY <1>1, <1>2, <1>3 DEF Pointers
<1>8. Array(n, arr', todo')
  BY <1>1, <1>3
<1> QED BY <1>3, <1>6, <1>7, <1>8 DEF Sorting

(* Choosing the pivot and moving it to the front begins a scan that has    *)
(* seen no element but the pivot.                                          *)
LEMMA LoopOK ==
    ASSUME NEW n \in Nat, Sorting(n), Loop
    PROVE  Sorting(n)'
<1>1. CASE InsertionSort
  BY <1>1, InsertionSortOK DEF Loop
<1>2. CASE ~InsertionSort
  <2>1. /\ todo # <<>> /\ Size >= 7 /\ arr' = swap(arr, Lo, Pivot(arr)) /\ at' = "up"
        /\ pa' = Lo + 1 /\ pb' = Lo + 1 /\ pc' = Lo + Size - 1 /\ pd' = Lo + Size - 1
        /\ todo' = todo /\ pm' = pm
    BY <1>2 DEF Loop
  <2>2. Array(n, arr, todo) /\ Pointers
    BY DEF Sorting
  <2>3. Lo \in Int /\ Size \in Int /\ Lo + Size \in Int /\ 1 <= Lo /\ Lo + Size <= n + 1
    BY <2>1, <2>2, CurrentPart
  <2>4. PICK hi \in Int : hi = Lo + Size
    BY <2>3
  <2>5. Lo \in Lo..hi - 1 /\ Pivot(arr) \in Lo..hi - 1
    BY <2>1, <2>3, <2>4, PivotInside, SMTT(30)
  <2>6. Moved(arr, arr', n, Lo, hi)
    <3>1. arr \in Elements(n)
      BY <2>2 DEF Array
    <3>2. Swapped(arr, swap(arr, Lo, Pivot(arr)), n, Lo, hi, Lo, Pivot(arr))
      BY <2>3, <2>4, <2>5, <3>1, SwapMoves, SMTT(30)
    <3> QED BY <2>1, <3>2 DEF Swapped
  <2>7. Array(n, arr', todo)
    BY <2>1, <2>2, <2>4, <2>6, SortedInside, SMTT(30)
  <2>8. Scanned(arr', Lo, hi, Lo + 1, Lo + 1, hi - 1, hi - 1)
    BY <2>1, <2>3, <2>4 DEF Scanned
  <2>9. Lo' = Lo /\ Size' = Size
    BY <2>1 DEF Lo, Size
  <2>10. Dividing'
    <3>1. pc' = hi - 1 /\ pd' = hi - 1 /\ hi = Lo' + Size'
      BY <2>1, <2>3, <2>4, <2>9
    <3>2. Scanned(arr', Lo', Lo' + Size', pa', pb', pc', pd')
      BY <2>1, <2>8, <2>9, <3>1, SMTT(30)
    <3> QED BY <2>1, <3>2 DEF Dividing
  <2>11. Pointers'
    BY <2>1, <2>2, <2>3 DEF Pointers
  <2> QED BY <2>1, <2>7, <2>10, <2>11 DEF Sorting
<1> QED BY <1>1, <1>2

(* A step of the insertion sort puts one more element in order, and the    *)
(* last one leaves the part.                                               *)
LEMMA InsertOK ==
    ASSUME NEW n \in Nat, Sorting(n), Insert
    PROVE  Sorting(n)'
<1>1. Array(n, arr, todo) /\ Pointers /\ at = "insert" /\ todo # <<>> /\ Inserting
  BY DEF Sorting, Insert
<1>2. /\ Lo \in Int /\ Size \in Int /\ Lo + Size \in Int /\ First(todo, Lo, Lo + Size)
      /\ 1 <= Lo /\ Lo + Size <= n + 1
  BY <1>1, CurrentPart
<1>3. pm \in Int /\ Lo + 1 <= pm /\ Ordered(arr, Lo, pm)
  BY <1>1 DEF Pointers, Inserting
<1>4. PICK hi \in Int : hi = Lo + Size
  BY <1>2
<1>5. CASE /\ pm < Lo + Size /\ arr' = Sift(arr, pm) /\ pm' = pm + 1
           /\ UNCHANGED <<todo, at, swap_cnt, ptrs>>
  <2>1. pm < hi
    BY <1>4, <1>5
  <2>2. pm \in Lo..hi - 1 /\ hi <= n + 1
    BY <1>2, <1>3, <1>4, <2>1
  <2>3. Moved(arr, arr', n, Lo, hi) /\ Ordered(arr', Lo, pm + 1)
    <3>1. arr \in Elements(n)
      BY <1>1 DEF Array
    <3>2. Moved(arr, Sift(arr, pm), n, Lo, hi) /\ Ordered(Sift(arr, pm), Lo, pm + 1)
      BY <1>2, <1>3, <2>2, <3>1, SiftMoves
    <3> QED BY <1>5, <3>2
  <2>4. Array(n, arr', todo)
    BY <1>1, <1>4, <2>3, SortedInside
  <2>5. /\ todo' = todo /\ at' = at /\ pa' = pa /\ pb' = pb /\ pc' = pc /\ pd' = pd
        /\ pm' = pm + 1
    BY <1>5 DEF ptrs
  <2>6. Lo' = Lo /\ Size' = Size
    BY <2>5 DEF Lo, Size
  <2>7. Lo + 1 <= pm + 1 /\ pm + 1 <= Lo + Size
    BY <1>2, <1>3, <1>4, <2>1
  <2>8. Inserting'
    BY <2>3, <2>5, <2>6, <2>7 DEF Inserting
  <2>9. Pointers'
    BY <1>1, <2>5 DEF Pointers
  <2> QED BY <1>1, <2>4, <2>5, <2>8, <2>9 DEF Sorting
<1>6. CASE pm >= Lo + Size /\ Resume(Tail(todo)) /\ UNCHANGED arr
  <2>1. Array(n, arr, Tail(todo))
    <3>1. arr \in Elements(n) /\ Whole(arr, n) /\ Parts(todo, n) /\ Apart(arr, todo)
      BY <1>1 DEF Array
    <3>2. hi <= pm
      BY <1>2, <1>3, <1>4, <1>6
    <3>3. Parts(Tail(todo), n) /\ Apart(arr, Tail(todo))
      BY <1>1, <1>2, <1>3, <1>4, <3>1, <3>2, RestApart
    <3> QED BY <3>1, <3>3 DEF Array
  <2>2. /\ arr' = arr /\ todo' = Tail(todo) /\ at' = "loop"
        /\ pa' = 0 /\ pb' = 0 /\ pc' = 0 /\ pd' = 0 /\ pm' = 0
    BY <1>6 DEF Resume
  <2>3. Pointers'
    BY <2>2 DEF Pointers
  <2> QED BY <2>1, <2>2, <2>3 DEF Sorting
<1> QED BY <1>5, <1>6 DEF Insert

(* A step of the scans that keeps what is scanned keeps the invariant.     *)
LEMMA StillDividing ==
    ASSUME NEW n \in Nat, Pointers, pm' = pm, todo # <<>>, todo' = todo, Array(n, arr', todo),
           NEW hi \in Int, hi = Lo + Size,
           pa' \in Int, pb' \in Int, pc' \in Int, pd' \in Int,
           Scanned(arr', Lo, hi, pa', pb', pc', pd'),
           at' \in {"up", "down", "gather"},
           at' = "down" => pb' > pc' \/ arr'[pb'][1] > arr'[Lo][1],
           at' = "gather" => pb' > pc'
    PROVE  Sorting(n)'
<1>1. Lo' = Lo /\ Size' = Size
  BY DEF Lo, Size
<1>2. Dividing'
  BY <1>1, Zenon DEF Dividing
<1>3. Pointers'
  BY Zenon DEF Pointers
<1> QED BY <1>2, <1>3, Zenon DEF Sorting

(* What a step of the scans finds: the bounds of the current part and of   *)
(* what is scanned, and keys that cmp can compare.                         *)
LEMMA ScanFacts ==
    ASSUME NEW n \in Nat, Array(n, arr, todo), Pointers, todo # <<>>, Dividing
    PROVE  /\ Lo \in Int /\ 1 <= Lo /\ Lo + Size \in Int /\ Lo + Size <= n + 1
           /\ First(todo, Lo, Lo + Size)
           /\ pa \in Int /\ pb \in Int /\ pc \in Int /\ pd \in Int /\ arr \in Elements(n)
           /\ Scanned(arr, Lo, Lo + Size, pa, pb, pc, pd)
           /\ arr[Lo][1] \in Int
           /\ pb <= pc => arr[pb][1] \in Int /\ arr[pc][1] \in Int
<1>1. /\ Lo \in Int /\ 1 <= Lo /\ Lo + Size \in Int /\ Lo + Size <= n + 1
      /\ First(todo, Lo, Lo + Size)
  BY CurrentPart
<1>2. PICK hi \in Int : hi = Lo + Size
  BY <1>1
<1>3. pa \in Int /\ pb \in Int /\ pc \in Int /\ pd \in Int
  BY DEF Pointers
<1>4. Scanned(arr, Lo, Lo + Size, pa, pb, pc, pd)
  BY DEF Dividing
<1>5. Lo + 1 <= pa /\ pa <= pb /\ pb <= pc + 1 /\ pc <= pd /\ pd <= hi - 1
  BY <1>2, <1>4 DEF Scanned
<1>6. 1 <= Lo /\ hi <= n + 1 /\ Lo \in Int
  BY <1>1, <1>2
<1>7. Lo \in 1..n /\ (pb <= pc => pb \in 1..n /\ pc \in 1..n)
  BY <1>3, <1>5, <1>6
<1>8. arr \in Elements(n) /\ \A i \in 1..n : arr[i][1] \in Int
  BY DEF Array, Elements
<1> QED BY <1>1, <1>3, <1>4, <1>7, <1>8, Zenon

(* The three outcomes of a step of the scan up.                            *)
LEMMA ScanUpOK ==
    ASSUME NEW n \in Nat, Sorting(n), ScanUp
    PROVE  Sorting(n)'
<1>1. /\ Array(n, arr, todo) /\ Pointers /\ at = "up" /\ todo # <<>> /\ Dividing
  BY DEF Sorting, ScanUp
<1>2. PICK hi \in Int : hi = Lo + Size
  BY <1>1, ScanFacts
<1>3. /\ Lo \in Int /\ 1 <= Lo /\ hi <= n + 1
      /\ pa \in Int /\ pb \in Int /\ pc \in Int /\ pd \in Int /\ arr \in Elements(n)
      /\ Scanned(arr, Lo, hi, pa, pb, pc, pd)
  BY <1>1, <1>2, ScanFacts, SMTT(30)
<1>4. arr[Lo][1] \in Int /\ (pb <= pc => arr[pb][1] \in Int)
  BY <1>1, ScanFacts
<1>5. todo' = todo /\ pc' = pc /\ pd' = pd /\ pm' = pm
  BY DEF ScanUp
<1>t. pb \in Int /\ pc \in Int /\ pa \in Int
  BY <1>3
<1>10. CASE /\ ~(pb <= pc /\ cmp(arr, pb, Lo) <= 0)
            /\ at' = "down" /\ UNCHANGED <<arr, swap_cnt, pa, pb>>
  <2>1. pb > pc \/ arr[pb][1] > arr[Lo][1]
    <3>1. ~(pb <= pc /\ cmp(arr, pb, Lo) <= 0)
      BY <1>10
    <3> QED BY <1>t, <1>4, <3>1 DEF cmp
  <2>2. at' = "down" /\ arr' = arr /\ pa' = pa /\ pb' = pb
    BY <1>10
  <2>3. Array(n, arr', todo) /\ pa' \in Int /\ pb' \in Int /\ pc' \in Int /\ pd' \in Int
    BY <1>1, <1>3, <1>5, <2>2, Zenon
  <2>4. Scanned(arr', Lo, hi, pa', pb', pc', pd')
    BY <1>3, <1>5, <2>2, Zenon
  <2>5. pb' > pc' \/ arr'[pb'][1] > arr'[Lo][1]
    BY <1>5, <2>1, <2>2, Zenon
  <2>6. at' \in {"up", "down", "gather"} /\ at' # "gather"
    BY <2>2
  <2> QED BY <1>1, <1>2, <1>5, <2>3, <2>4, <2>5, <2>6, StillDividing, Zenon
<1>11. CASE /\ pb <= pc /\ cmp(arr, pb, Lo) < 0
            /\ pb' = pb + 1 /\ UNCHANGED <<arr, at, swap_cnt, pa>>
  <2>1. arr[pb][1] < arr[Lo][1]
    <3>1. pb <= pc /\ cmp(arr, pb, Lo) < 0
      BY <1>11
    <3> QED BY <1>4, <3>1 DEF cmp
  <2>2. at' = "up" /\ arr' = arr /\ pa' = pa /\ pb' = pb + 1 /\ pb <= pc
    BY <1>1, <1>11
  <2>3. Array(n, arr', todo) /\ pa' \in Int /\ pb' \in Int /\ pc' \in Int /\ pd' \in Int
    BY <1>1, <1>3, <1>5, <2>2
  <2>4. Scanned(arr', Lo, hi, pa', pb', pc', pd')
    <3>1. Scanned(arr, Lo, hi, pa, pb + 1, pc, pd)
      BY <1>3, <2>1, <2>2, ScanSmaller, Zenon
    <3> QED BY <1>5, <2>2, <3>1, Zenon
  <2>6. at' \in {"up", "down", "gather"} /\ at' # "down" /\ at' # "gather"
    BY <2>2
  <2> QED BY <1>1, <1>2, <1>5, <2>3, <2>4, <2>6, StillDividing, Zenon
<1>12. CASE /\ pb <= pc /\ cmp(arr, pb, Lo) = 0
            /\ arr' = swap(arr, pa, pb) /\ swap_cnt' = 1
            /\ pa' = pa + 1 /\ pb' = pb + 1 /\ UNCHANGED at
  <2>1. arr[pb][1] = arr[Lo][1]
    <3>1. pb <= pc /\ cmp(arr, pb, Lo) = 0
      BY <1>12
    <3> QED BY <1>4, <3>1 DEF cmp
  <2>2. at' = "up" /\ arr' = swap(arr, pa, pb) /\ pa' = pa + 1 /\ pb' = pb + 1 /\ pb <= pc
    BY <1>1, <1>12, SMTT(30)
  <2>3. /\ Moved(arr, swap(arr, pa, pb), n, Lo, hi)
        /\ Scanned(swap(arr, pa, pb), Lo, hi, pa + 1, pb + 1, pc, pd)
    BY <1>3, <2>1, <2>2, ScanEqualUp
  <2>4. Array(n, arr', todo)
    BY <1>1, <1>2, <2>2, <2>3, SortedInside, Zenon
  <2>5. pa' \in Int /\ pb' \in Int /\ pc' \in Int /\ pd' \in Int
    BY <1>3, <1>5, <2>2
  <2>6. Scanned(arr', Lo, hi, pa', pb', pc', pd')
    BY <1>5, <2>2, <2>3, Zenon
  <2>7. at' \in {"up", "down", "gather"} /\ at' # "down" /\ at' # "gather"
    BY <2>2, SMTT(30)
  <2> QED BY <1>1, <1>2, <1>5, <2>4, <2>5, <2>6, <2>7, StillDividing, Zenon
<1> QED BY <1>10, <1>11, <1>12 DEF ScanUp

(* The four outcomes of a step of the scan down.                           *)
LEMMA ScanDownOK ==
    ASSUME NEW n \in Nat, Sorting(n), ScanDown
    PROVE  Sorting(n)'
<1>1. /\ Array(n, arr, todo) /\ Pointers /\ at = "down" /\ todo # <<>> /\ Dividing
  BY DEF Sorting, ScanDown
<1>2. PICK hi \in Int : hi = Lo + Size
  BY <1>1, ScanFacts, SMTT(30)
<1>3. /\ Lo \in Int /\ 1 <= Lo /\ hi <= n + 1
      /\ pa \in Int /\ pb \in Int /\ pc \in Int /\ pd \in Int /\ arr \in Elements(n)
      /\ Scanned(arr, Lo, hi, pa, pb, pc, pd)
  BY <1>1, <1>2, ScanFacts, SMTT(30)
<1>4. arr[Lo][1] \in Int /\ (pb <= pc => arr[pc][1] \in Int)
  BY <1>1, ScanFacts
<1>5. todo' = todo /\ pa' = pa /\ pm' = pm
  BY DEF ScanDown
<1>t. pb \in Int /\ pc \in Int /\ pd \in Int
  BY <1>3
<1>6. pb <= pc => arr[pb][1] > arr[Lo][1]
  <2>1. pb > pc \/ arr[pb][1] > arr[Lo][1]
    BY <1>1 DEF Dividing
  <2> QED BY <1>t, <2>1, SMTT(30)
<1>10. CASE pb > pc /\ at' = "gather" /\ UNCHANGED <<arr, swap_cnt, pb, pc, pd>>
  <2>2. at' = "gather" /\ arr' = arr /\ pb' = pb /\ pc' = pc /\ pd' = pd
    BY <1>10
  <2>3. Array(n, arr', todo) /\ pa' \in Int /\ pb' \in Int /\ pc' \in Int /\ pd' \in Int
    BY <1>1, <1>3, <1>5, <2>2, Zenon
  <2>4. Scanned(arr', Lo, hi, pa', pb', pc', pd') /\ pb' > pc'
    BY <1>3, <1>5, <1>10, <2>2, Zenon
  <2>6. at' \in {"up", "down", "gather"} /\ at' # "down"
    BY <2>2
  <2> QED BY <1>1, <1>2, <1>5, <2>3, <2>4, <2>6, StillDividing, Zenon
<1>11. CASE /\ pb <= pc /\ cmp(arr, pc, Lo) > 0
            /\ pc' = pc - 1 /\ UNCHANGED <<arr, at, swap_cnt, pb, pd>>
  <2>1. arr[pc][1] > arr[Lo][1]
    <3>1. pb <= pc /\ cmp(arr, pc, Lo) > 0
      BY <1>11
    <3> QED BY <1>4, <3>1 DEF cmp
  <2>2. at' = "down" /\ arr' = arr /\ pb' = pb /\ pc' = pc - 1 /\ pd' = pd /\ pb <= pc
    BY <1>1, <1>11
  <2>3. Array(n, arr', todo) /\ pa' \in Int /\ pb' \in Int /\ pc' \in Int /\ pd' \in Int
    BY <1>1, <1>3, <1>5, <2>2
  <2>4. Scanned(arr', Lo, hi, pa', pb', pc', pd')
    <3>1. Scanned(arr, Lo, hi, pa, pb, pc - 1, pd)
      BY <1>3, <2>1, <2>2, ScanGreater
    <3> QED BY <1>5, <2>2, <3>1, Zenon
  <2>5. arr'[pb'][1] > arr'[Lo][1]
    BY <1>6, <2>2, Zenon
  <2>6. at' \in {"up", "down", "gather"} /\ at' # "gather"
    BY <2>2
  <2> QED BY <1>1, <1>2, <1>5, <2>3, <2>4, <2>5, <2>6, StillDividing, ZenonT(30)
<1>12. CASE /\ pb <= pc /\ cmp(arr, pc, Lo) = 0
            /\ arr' = swap(arr, pc, pd) /\ swap_cnt' = 1
            /\ pc' = pc - 1 /\ pd' = pd - 1 /\ UNCHANGED <<at, pb>>
  <2>1. arr[pc][1] = arr[Lo][1]
    <3>1. pb <= pc /\ cmp(arr, pc, Lo) = 0
      BY <1>12
    <3> QED BY <1>4, <3>1 DEF cmp
  <2>2. /\ at' = "down" /\ arr' = swap(arr, pc, pd) /\ pb' = pb /\ pc' = pc - 1 /\ pd' = pd - 1
        /\ pb <= pc
    BY <1>1, <1>12, SMTT(30)
  <2>3. /\ Moved(arr, swap(arr, pc, pd), n, Lo, hi)
        /\ Scanned(swap(arr, pc, pd), Lo, hi, pa, pb, pc - 1, pd - 1)
        /\ swap(arr, pc, pd)[pb][1] > swap(arr, pc, pd)[Lo][1]
    BY <1>3, <1>6, <2>1, <2>2, ScanEqualDown, SMTT(30)
  <2>4. Array(n, arr', todo)
    BY <1>1, <1>2, <2>2, <2>3, SortedInside, Zenon
  <2>5. pa' \in Int /\ pb' \in Int /\ pc' \in Int /\ pd' \in Int
    BY <1>3, <1>5, <2>2
  <2>6. Scanned(arr', Lo, hi, pa', pb', pc', pd') /\ arr'[pb'][1] > arr'[Lo][1]
    BY <1>5, <2>2, <2>3, Zenon
  <2>7. at' \in {"up", "down", "gather"} /\ at' # "gather"
    BY <2>2
  <2> QED BY <1>1, <1>2, <1>5, <2>4, <2>5, <2>6, <2>7, StillDividing, ZenonT(30)
<1>13. CASE /\ pb <= pc /\ cmp(arr, pc, Lo) < 0
            /\ arr' = swap(arr, pb, pc) /\ swap_cnt' = 1
            /\ pb' = pb + 1 /\ pc' = pc - 1 /\ at' = "up" /\ UNCHANGED pd
  <2>1. arr[pc][1] < arr[Lo][1]
    <3>1. pb <= pc /\ cmp(arr, pc, Lo) < 0
      BY <1>13
    <3> QED BY <1>4, <3>1 DEF cmp
  <2>2. /\ at' = "up" /\ arr' = swap(arr, pb, pc) /\ pb' = pb + 1 /\ pc' = pc - 1 /\ pd' = pd
        /\ pb <= pc
    BY <1>1, <1>13, SMTT(30)
  <2>3. /\ Moved(arr, swap(arr, pb, pc), n, Lo, hi)
        /\ Scanned(swap(arr, pb, pc), Lo, hi, pa, pb + 1, pc - 1, pd)
    BY <1>3, <1>6, <2>1, <2>2, ScanCross
  <2>4. Array(n, arr', todo)
    BY <1>1, <1>2, <2>2, <2>3, SortedInside, Zenon
  <2>5. pa' \in Int /\ pb' \in Int /\ pc' \in Int /\ pd' \in Int
    BY <1>3, <1>5, <2>2
  <2>6. Scanned(arr', Lo, hi, pa', pb', pc', pd')
    BY <1>5, <2>2, <2>3, Zenon
  <2>7. at' \in {"up", "down", "gather"} /\ at' # "down" /\ at' # "gather"
    BY <2>2
  <2> QED BY <1>1, <1>2, <1>5, <2>4, <2>5, <2>6, <2>7, StillDividing, Zenon
<1> QED BY <1>10, <1>11, <1>12, <1>13, SMTT(30) DEF ScanDown

(* The end of the division: the insertion sort where no element was moved, *)
(* else the equal keys go to the middle and the recursion goes on.         *)
LEMMA GatherOK ==
    ASSUME NEW n \in Nat, Sorting(n), Gather
    PROVE  Sorting(n)'
<1>1. /\ Array(n, arr, todo) /\ Pointers /\ at = "gather" /\ todo # <<>> /\ Dividing
  BY DEF Sorting, Gather
<1>2. PICK hi \in Int : hi = Lo + Size
  BY <1>1, ScanFacts
<1>3. /\ Lo \in Int /\ 1 <= Lo /\ hi <= n + 1
      /\ pa \in Int /\ pb \in Int /\ pc \in Int /\ pd \in Int /\ arr \in Elements(n)
      /\ Scanned(arr, Lo, hi, pa, pb, pc, pd) /\ First(todo, Lo, hi)
  BY <1>1, <1>2, ScanFacts, SMTT(30)
<1>4. arr[Lo][1] \in Int /\ pb > pc
  BY <1>1, ScanFacts DEF Dividing
<1>t. Lo \in Int /\ pa \in Int /\ pb \in Int /\ pc \in Int /\ pd \in Int
  BY <1>3
<1>s. Size \in Int
  BY <1>1, CurrentPart
<1>5. CASE InsertionSort
  BY <1>1, <1>5, InsertionSortOK
<1>6. CASE ~InsertionSort
  <2>1. /\ arr' = vecswap(vecswap(arr, Lo, pb - LeftEqual, LeftEqual),
                          pb, Lo + Size - RightEqual, RightEqual)
        /\ Resume(part(Lo, pb - pa) \o part(Lo + Size - (pd - pc), pd - pc) \o Tail(todo))
    BY <1>6 DEF Gather
  <2>4. PICK r : r = RightEqual
    OBVIOUS
  <2>5. r = IF pd - pc < hi - pd - 1 THEN pd - pc ELSE hi - pd - 1
    BY <1>2, <1>t, <1>s, <2>4, SMTT(30) DEF RightEqual
  <2>6. PICK k : k = LeftEqual
    OBVIOUS
  <2>7. k = IF pa - Lo < pb - pa THEN pa - Lo ELSE pb - pa
    BY <2>6 DEF LeftEqual
  <2>8. arr' = vecswap(vecswap(arr, Lo, pb - k, k), pb, hi - r, r)
    <3>1. arr' = vecswap(vecswap(arr, Lo, pb - k, k), pb, Lo + Size - r, r)
      BY <2>1, <2>4, <2>6, Zenon
    <3>2. r \in Int
      BY <1>t, <2>5
    <3>3. hi - r = Lo + Size - r
      BY <1>2, <1>t, <1>s, <3>2, SMTT(30)
    <3> QED BY <3>1, <3>3, Zenon
  <2>9. Gathered(arr, arr', n, Lo, hi, pa, pb, pc, pd)
    BY <1>3, <1>4, <2>5, <2>7, <2>8, GatherMoves, SMTT(30)
  <2>10. Array(n, arr', todo)
    <3>1. Moved(arr, arr', n, Lo, hi)
      BY <2>9 DEF Gathered
    <3> QED BY <1>1, <1>2, <3>1, SortedInside, SMTT(30)
  <2>11. PICK e \in Int : e = Lo + (pb - pa)
    BY <1>t
  <2>12. PICK g \in Int : g = hi - (pd - pc)
    BY <1>t
  <2>13. Lo <= e /\ e <= g /\ g <= hi /\ e - Lo = pb - pa /\ hi - g = pd - pc
    <3>1. Lo + 1 <= pa /\ pa <= pb /\ pb <= pc + 1 /\ pc <= pd /\ pd <= hi - 1
      BY <1>3 DEF Scanned
    <3> QED BY <1>t, <2>11, <2>12, <3>1, SMTT(30)
  <2>14. Zoned(arr', Lo, e, g, hi, arr[Lo][1])
    <3>1. e - 1 = Lo + (pb - pa) - 1 /\ g - 1 = hi - (pd - pc) - 1
      BY <1>t, <2>11, <2>12
    <3> QED BY <2>9, <2>11, <2>12, <3>1, Zenon DEF Gathered, Zoned
  <2>16. todo' = part(Lo, e - Lo) \o part(g, hi - g) \o Tail(todo)
    <3>1. todo' = part(Lo, pb - pa) \o part(Lo + Size - (pd - pc), pd - pc) \o Tail(todo)
      BY <2>1 DEF Resume
    <3>2. Lo + Size - (pd - pc) = g
      BY <1>2, <1>t, <1>s, <2>12
    <3> QED BY <2>13, <3>1, <3>2, Zenon
  <2>17. Parts(todo', n) /\ Apart(arr', todo')
    <3>1. arr' \in Elements(n) /\ Parts(todo, n) /\ Apart(arr', todo)
      BY <2>10 DEF Array
    <3> QED BY <1>1, <1>3, <1>4, <2>13, <2>14, <2>16, <3>1, SplitApart, Zenon
  <2>18. at' = "loop" /\ pa' = 0 /\ pb' = 0 /\ pc' = 0 /\ pd' = 0 /\ pm' = 0
    BY <2>1 DEF Resume
  <2>19. Array(n, arr', todo')
    BY <2>10, <2>17, Zenon DEF Array
  <2>20. Pointers'
    BY <2>18 DEF Pointers
  <2> QED BY <2>18, <2>19, <2>20, Zenon DEF Sorting
<1> QED BY <1>5, <1>6

(* A call of qsort begins with the whole array as its only part.           *)
LEMMA BeginSortOK ==
    ASSUME BeginSort
    PROVE  SortInv'
<1>1. PICK keys \in Arrays : qsort(keys)
  BY DEF BeginSort
<1>2. keys \in Seq(Int) /\ Len(keys) \in Nat /\ DOMAIN keys = 1..Len(keys)
  BY ArraysAssumption, SMTT(30)
<1>3. PICK n \in Nat : n = Len(keys)
  BY <1>2, Zenon
<1>4. /\ at = "loop" /\ ptrs = <<0, 0, 0, 0>> /\ pm = 0
  BY DEF BeginSort, sort, NotSorting
<1>5. /\ arr' = [i \in 1..n |-> <<keys[i], i>>] /\ todo' = <<<<1, n>>>>
      /\ at' = "loop" /\ pm' = 0 /\ ptrs' = <<0, 0, 0, 0>>
  BY <1>1, <1>2, <1>3, <1>4 DEF qsort
<1>6. pa' = 0 /\ pb' = 0 /\ pc' = 0 /\ pd' = 0
  BY <1>5 DEF ptrs
<1>7. \A i \in 1..n : keys[i] \in Int
  BY <1>2, <1>3, ElementOfSeq
<1>8. arr' \in Elements(n) /\ \A i \in 1..n : arr'[i][2] = i
  BY <1>5, <1>7 DEF Elements
<1>9. Whole(arr', n)
  BY <1>8 DEF Whole
<1>10. todo' \in Seq(Int \X Int) /\ DOMAIN todo' = {1} /\ todo'[1][1] = 1 /\ todo'[1][2] = n
  BY <1>5
<1>11. Parts(todo', n)
  BY <1>10 DEF Parts
<1>12. \A i \in 1..n : In(todo'[1], i)
  BY <1>10 DEF In
<1>13. \A i, j \in 1..n : Same(todo', i, j)
  BY <1>10, <1>12, SMTT(30) DEF Same
<1>14. Apart(arr', todo')
  <2>1. DOMAIN arr' = 1..n
    BY <1>8 DEF Elements
  <2> QED BY <1>13, <2>1 DEF Apart
<1>15. Array(n, arr', todo')
  BY <1>8, <1>9, <1>11, <1>14, Zenon DEF Array
<1>16. Pointers'
  BY <1>5, <1>6 DEF Pointers
<1>17. Sorting(n)'
  BY <1>5, <1>15, <1>16, Zenon DEF Sorting
<1> QED BY <1>17 DEF SortInv

(* The invariant holds before the first call of qsort.                     *)
LEMMA SortInvInit ==
    SortInit => SortInv
<1> SUFFICES ASSUME SortInit PROVE Sorting(0)
  BY DEF SortInv
<1>1. arr \in Elements(0) /\ Whole(arr, 0)
  BY DEF SortInit, Elements, Whole
<1>2. Parts(todo, 0) /\ Apart(arr, todo)
  BY DEF SortInit, Parts, Apart
<1> QED BY <1>1, <1>2 DEF SortInit, Sorting, Array, Pointers

(* Every step of qsort keeps the invariant.                                *)
LEMMA SortInvStep ==
    SortInv /\ [QsortNext]_sort => SortInv'
<1> SUFFICES ASSUME SortInv, [QsortNext]_sort PROVE SortInv'
  OBVIOUS
<1>1. PICK n \in Nat : Sorting(n)
  BY DEF SortInv
<1>2. CASE BeginSort
  BY <1>2, BeginSortOK
<1>3. CASE Loop \/ Insert \/ ScanUp \/ ScanDown \/ Gather
  <2>1. Sorting(n)'
    BY <1>1, <1>3, LoopOK, InsertOK, ScanUpOK, ScanDownOK, GatherOK, SMTT(30)
  <2> QED BY <2>1 DEF SortInv
<1>4. CASE UNCHANGED sort
  <2>1. /\ arr' = arr /\ todo' = todo /\ at' = at /\ pa' = pa /\ pb' = pb /\ pc' = pc /\ pd' = pd
        /\ pm' = pm
    BY <1>4 DEF sort, ptrs
  <2>2. Lo' = Lo /\ Size' = Size
    BY <2>1 DEF Lo, Size
  <2>3. Sorting(n)'
    <3>1. Array(n, arr', todo') /\ Pointers'
      BY <1>1, <2>1, Zenon DEF Sorting, Pointers
    <3>2. Inserting' <=> Inserting
      BY <2>1, <2>2, Zenon DEF Inserting
    <3>3. Dividing' <=> Dividing
      BY <2>1, <2>2, Zenon DEF Dividing
    <3> QED BY <1>1, <2>1, <3>1, <3>2, <3>3, Zenon DEF Sorting
  <2> QED BY <2>3 DEF SortInv
<1> QED BY <1>2, <1>3, <1>4 DEF QsortNext

(* The invariant says that what is outside the parts is in order.          *)
LEMMA SortInvSorted ==
    SortInv => SortedOutside
<1> SUFFICES ASSUME NEW n \in Nat, Sorting(n) PROVE SortedOutside
  BY DEF SortInv
<1>1. arr \in Elements(n) /\ Whole(arr, n) /\ Apart(arr, todo) /\ DOMAIN arr = 1..n
  BY DEF Sorting, Array, Elements
<1>2. {arr[i][2] : i \in DOMAIN arr} = DOMAIN arr
  BY <1>1, SMTT(30) DEF Whole
<1>3. ASSUME NEW i \in DOMAIN arr, ~(\E k \in DOMAIN todo : In(todo[k], i)), NEW j \in DOMAIN arr
      PROVE  /\ j < i => arr[j][1] <= arr[i][1]
             /\ i < j => arr[i][1] <= arr[j][1]
  <2>1. ~Same(todo, i, j) /\ ~Same(todo, j, i)
    BY <1>3 DEF Same
  <2> QED BY <1>1, <2>1 DEF Apart
<1> QED BY <1>2, <1>3 DEF SortedOutside

(* qsort sorts every array: whatever its length, its keys and their order, *)
(* each element that is not in a part still to sort has no greater key     *)
(* before it and no smaller one behind it, and no element is lost or       *)
(* doubled (qsort of src/lib/libc/qsort.c).  When no part is left the      *)
(* array is sorted.                                                        *)
THEOREM SortsEveryArray == SortInit /\ [][QsortNext]_sort => []SortedOutside
<1>1. SortInit => SortInv
  BY SortInvInit
<1>2. SortInv /\ [QsortNext]_sort => SortInv'
  BY SortInvStep
<1>3. SortInv => SortedOutside
  BY SortInvSorted
<1> QED BY <1>1, <1>2, <1>3, PTL
=============================================================================
