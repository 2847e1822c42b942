----------------------------- MODULE ByteProofs -----------------------------
(***************************************************************************)
(* The lines of the keyboard and the mouse (Ps2.tla, Input.tla), for all   *)
(* platforms, tasks, scripts and packets: no byte is lost.  The first      *)
(* theorem takes the room in the queue of the driver from the behaviour,   *)
(* the second one from the number of bytes.                                *)
(***************************************************************************)
EXTENDS InputProofs

(***************************************************************************)
(* The lines of the two devices.  A byte in the controller is announced in *)
(* exactly one place: the request of its line, the message of its stub, or *)
(* the driver that is about to read it.  Nothing is announced without one, *)
(* and a line is masked from its stub to the SYS_ack of the driver.        *)
(***************************************************************************)
Device2(l) == IF l = 1 THEN "kbd" ELSE "mouse"
Tells(q, l) == <<"irq", l>> \in Range(q)
Told(l) == Tells(mq[Driver], l)
Doing(l) == drv.pc \in {"ack", "read"} /\ drv.irq = l

Messages == {<<"irq", 1>>, <<"irq", 12>>, <<"ack", 0>>}

Posted(q) ==
    /\ Range(q) \subseteq Messages
    /\ \A l \in {1, 12} : \A i, j \in DOMAIN q : q[i] = <<"irq", l>> /\ q[j] = <<"irq", l>> => i = j

Announced(l) ==
    /\ obuf.dev = Device2(l) <=> (l \in pic.irr \/ Told(l) \/ Doing(l))
    /\ l \in pic.irr => ~Told(l) /\ ~Doing(l)
    /\ Doing(l) => ~Told(l)
    /\ l \in pic.mask <=> (Told(l) \/ (drv.pc = "ack" /\ drv.irq = l))

Lines ==
    /\ pic.irr \subseteq {tmrirq, 1, 12}
    /\ Posted(mq[Driver])
    /\ obuf = Empty \/ obuf.dev \in {"kbd", "mouse"}
    /\ phase \in {"calibrate", "boot"} =>
          obuf = Empty /\ drv.pc = "recv" /\ mq[Driver] = <<>> /\ pic.irr \subseteq {tmrirq}
    /\ phase = "ready" => Announced(1) /\ Announced(12)

(***************************************************************************)
(* Bytes and packets: the parts of one packet are with the mouse, in the   *)
(* controller and with the driver, and an event is sent for each byte of   *)
(* the keyboard and each packet at most.                                   *)
(***************************************************************************)
One(b) == IF b THEN 1 ELSE 0
Packet == mouse # <<>> \/ obuf.dev = "mouse" \/ drv.packet # <<>>
Open == One(Packet)
Got == Len(drv.packet)
HasKey == One(obuf.dev = "kbd")
HasMove == One(obuf.dev = "mouse")
Sending == One(drv.pc = "send")

EventCounts ==
    /\ Got < 3
    /\ Got + HasMove + Len(mouse) = 3 * Open
    /\ Len(sent) + Sending + HasKey + Open <= Len(typed) + Len(moved)
    /\ Len(typed) + Len(moved) = 0 \/ Within(Len(typed), Len(moved))

(***************************************************************************)
(* Messages: no more wait for the driver and the user interface than       *)
(* events were sent, with the one of FS and that of one line.              *)
(***************************************************************************)
Telling == Told(1) \/ Told(12)

ForDriver == Len(mq[Driver])
ForUi == Len(mq[UI])
OfFs == One(mounted)
OfLine == One(Telling)

Waiting == ForDriver + ForUi
Owed == Len(sent) + OfFs + OfLine

MessageCounts ==
    /\ phase \in {"calibrate", "boot"} => mq[UI] = <<>>
    /\ phase = "ready" => Waiting <= Owed

-----------------------------------------------------------------------------
(***************************************************************************)
(* The lines of the devices                                                *)
(***************************************************************************)
(* Both lines of the driver are routed: they are requested by it, and the  *)
(* IOAPIC has them below isr_maxirq.                                       *)
Wired ==
    /\ {1, 12} \subseteq DeviceLines
    /\ \A p \in Platforms : p[1] = "acpi" => IoapicMax >= 14

(* So the table says, and isr_fini unmasks them.                           *)
LEMMA WiredRoutes ==
    ASSUME SetUp, Wired
    PROVE  \A l \in {1, 12} : route[l] = Driver /\ l \in Routed /\ l \in Line
<1>1. 12 < isr_maxirq /\ isr_maxirq \in Nat
  <2>1. platform = "acpi" => IoapicMax >= 14
    BY Zenon DEF SetUp, Wired
  <2> QED BY <2>1, TimerLine, IsrAssumption
<1>2. \A l \in {1, 12} : l \in Line /\ l < isr_maxirq /\ l \in DeviceLines
  BY <1>1 DEF Line, Wired
<1>3. \A l \in {1, 12} : route[l] = Driver
  BY <1>2 DEF SetUp
<1> QED BY <1>2, <1>3, IsrAssumption DEF Routed

(* The messages to the driver are told apart.                              *)
LEMMA MessageParts ==
    /\ <<"irq", 1>> # <<"irq", 12>> /\ <<"ack", 0>> # <<"irq", 1>> /\ <<"ack", 0>> # <<"irq", 12>>
    /\ \A m \in Messages : \A l \in {1, 12} : m = <<"irq", l>> <=> (m[1] = "irq" /\ m[2] = l)
    /\ \A l \in {1, 12} : <<"irq", l>> \in Messages
BY DEF Messages

(* A message more in the queue.                                            *)
LEMMA PostAppend ==
    ASSUME NEW q, IsSeq(q), Posted(q), NEW m \in Messages,
           \A l \in {1, 12} : m = <<"irq", l>> => ~Tells(q, l)
    PROVE  /\ Posted(Append(q, m))
           /\ \A l \in {1, 12} : Tells(Append(q, m), l) <=> (Tells(q, l) \/ m = <<"irq", l>>)
<1> DEFINE a == Append(q, m)
<1>1. Range(a) = Range(q) \cup {m}
  BY AppendRange
<1>2. /\ IsSeq(a) /\ Len(a) = Len(q) + 1 /\ a[Len(q) + 1] = m
      /\ \A i \in 1..Len(q) : a[i] = q[i]
  BY AppendFacts
<1> HIDE DEF a
<1>3. Len(q) \in Nat /\ DOMAIN q = 1..Len(q) /\ DOMAIN a = 1..Len(a)
  BY <1>2, SeqFacts
<1>4. ASSUME NEW l \in {1, 12}, NEW i \in DOMAIN a, NEW j \in DOMAIN a,
             a[i] = <<"irq", l>>, a[j] = <<"irq", l>>
      PROVE  i = j
  <2> DEFINE x == <<"irq", l>>
  <2> HIDE DEF x
  <2>1. a[i] = x /\ a[j] = x
    BY <1>4 DEF x
  <2>2. m = x => x \notin Range(q)
    BY DEF x, Tells
  <2>3. \A k, n \in DOMAIN q : q[k] = x /\ q[n] = x => k = n
    BY DEF x, Posted
  <2>4. \A k \in DOMAIN q : q[k] \in Range(q)
    BY DEF Range
  <2>5. \A k \in DOMAIN a : k \in DOMAIN q \/ k = Len(q) + 1
    BY <1>2, <1>3
  <2> QED BY <1>2, <1>3, <2>1, <2>2, <2>3, <2>4, <2>5
<1>5. Posted(a)
  BY <1>1, <1>4 DEF Posted
<1>6. \A l \in {1, 12} : Tells(a, l) <=> (Tells(q, l) \/ m = <<"irq", l>>)
  BY <1>1 DEF Tells
<1> QED BY <1>5, <1>6 DEF a

(* A message less in the queue.                                            *)
LEMMA PostTail ==
    ASSUME NEW q, IsSeq(q), q # <<>>, Posted(q)
    PROVE  /\ Posted(Tail(q)) /\ Head(q) \in Messages
           /\ \A l \in {1, 12} : Tells(Tail(q), l) <=> (Tells(q, l) /\ Head(q) # <<"irq", l>>)
<1> DEFINE a == Tail(q)
           h == Head(q)
<1>1. Range(q) = {h} \cup Range(a)
  BY TailRange
<1>2. /\ IsSeq(a) /\ Len(a) = Len(q) - 1 /\ Len(q) >= 1 /\ h = q[1]
      /\ \A i \in 1..Len(q) - 1 : a[i] = q[i + 1]
  BY TailFacts
<1> HIDE DEF a, h
<1>3. Len(q) \in Nat /\ DOMAIN q = 1..Len(q) /\ DOMAIN a = 1..Len(a)
  BY <1>2, SeqFacts
<1>4. \A i \in DOMAIN a : i \in Nat /\ i + 1 \in DOMAIN q /\ a[i] = q[i + 1] /\ i + 1 # 1
  BY <1>2, <1>3
<1>5. 1 \in DOMAIN q
  BY <1>2, <1>3
<1>6. Posted(a)
  <2>1. Range(a) \subseteq Messages
    BY <1>1 DEF Posted
  <2>2. ASSUME NEW l \in {1, 12}, NEW i \in DOMAIN a, NEW j \in DOMAIN a,
               a[i] = <<"irq", l>>, a[j] = <<"irq", l>>
        PROVE  i = j
    <3>1. i + 1 = j + 1
      BY <1>4, <2>2 DEF Posted
    <3> QED BY <1>4, <3>1
  <2> QED BY <2>1, <2>2 DEF Posted
<1>7. ASSUME NEW l \in {1, 12} PROVE Tells(a, l) <=> (Tells(q, l) /\ h # <<"irq", l>>)
  <2> DEFINE x == <<"irq", l>>
  <2> HIDE DEF x
  <2>1. \A k, n \in DOMAIN q : q[k] = x /\ q[n] = x => k = n
    BY DEF x, Posted
  <2>2. x \in Range(a) => h # x
    <3> SUFFICES ASSUME x \in Range(a), h = x PROVE FALSE
      OBVIOUS
    <3>1. PICK i \in DOMAIN a : a[i] = x
      BY DEF Range
    <3> QED BY <1>2, <1>4, <1>5, <2>1, <3>1
  <2> QED BY <1>1, <2>2 DEF x, Tells
<1>8. h \in Messages
  BY <1>1 DEF Posted
<1> QED BY <1>6, <1>7, <1>8 DEF a, h

(* The queue of the driver does not change with that of another task.      *)
LEMMA QueueOfOthers ==
    ASSUME Shapes, NEW d \in Task, d # Driver, NEW q, mq' = [mq EXCEPT ![d] = q]
    PROVE  mq'[Driver] = mq[Driver]
BY TaskNames DEF Shapes, TaskShapes

(* The controller is as it was.                                            *)
LEMMA PicStays ==
    ASSUME Shapes, UNCHANGED pic
    PROVE  PicIs(pic.mask, pic.irr, pic.rtc)
BY DEF Shapes, PicShape, PicIs

(* Nothing is asked, told or done at the beginning.                        *)
LEMMA LinesInit == Init => Lines
<1> SUFFICES ASSUME Init PROVE Lines
  OBVIOUS
<1>1. SetUp /\ tmrirq \in Line
  BY SetUpInit, TimerLine DEF Line
<1>2. obuf = Empty /\ drv.pc = "recv" /\ phase = "calibrate"
  BY DEF Init, IsrInit, Ps2Init, mouse_init
<1>3. mq[Driver] = <<>>
  BY TaskNames DEF Init, IsrInit
<1>4. Posted(<<>>)
  BY DEF Posted, Range
<1> DEFINE p == (IF platform = "acpi" THEN inithw_apic ELSE inithw_pic).pic
<1>5. p = [mask |-> p.mask, irr |-> {}, isv |-> {}, rtc |-> p.rtc]
  BY Zenon DEF inithw_apic, inithw_pic
<1>6. pic = isr_enableirq(p, tmrirq)
  BY DEF Init, IsrInit
<1> HIDE DEF p
<1>7. p = [mask |-> p.mask, irr |-> p.irr, isv |-> p.isv, rtc |-> p.rtc] /\ p.irr = {}
  BY <1>5
<1>8. pic = [mask |-> p.mask \ {tmrirq}, isv |-> p.isv, rtc |-> p.rtc, irr |-> p.irr]
  BY <1>1, <1>6, <1>7, PicOps, Zenon
<1>9. pic.irr = {}
  BY <1>7, <1>8
<1> QED BY <1>2, <1>3, <1>4, <1>9 DEF Lines

(* A step that concerns neither line.                                      *)
LEMMA LinesFrom ==
    ASSUME Bases, Lines, UNCHANGED setup, NEW m, NEW i, NEW r, PicIs(m, i, r),
           i \subseteq pic.irr \cup {tmrirq},
           \A l \in {1, 12} : (l \in pic.irr => l \in i) /\ (l \in m <=> l \in pic.mask),
           mq'[Driver] = mq[Driver], obuf' = obuf,
           drv' = drv \/ (drv.pc \notin {"ack", "read"} /\ drv'.pc = "recv"),
           phase' \in {"calibrate", "boot"} => phase \in {"calibrate", "boot"},
           phase' = "ready" => phase = "ready"
    PROVE  Lines'
<1>1. pic'.mask = m /\ pic'.irr = i
  BY DEF PicIs
<1>2. tmrirq' = tmrirq /\ tmrirq \in {0, 8}
  BY Fixed, TimerLine DEF Bases
<1>3. ASSUME NEW l \in {1, 12}, Announced(l) PROVE Announced(l)'
  <2>1. l \in i <=> l \in pic.irr
    BY <1>2
  <2>2. Told(l)' <=> Told(l)
    BY DEF Told
  <2>3. /\ Doing(l)' <=> Doing(l)
        /\ (drv'.pc = "ack" /\ drv'.irq = l) <=> (drv.pc = "ack" /\ drv.irq = l)
    BY DEF Doing
  <2> HIDE DEF Told, Doing
  <2> QED BY <1>1, <1>3, <2>1, <2>2, <2>3, SMTT(30) DEF Announced
<1>4. Posted(mq'[Driver])
  BY DEF Lines
<1>5. i \subseteq {tmrirq, 1, 12}
  BY DEF Lines
<1> HIDE DEF Announced, Posted
<1> QED BY <1>1, <1>2, <1>3, <1>4, <1>5 DEF Lines

(* The stub of a device: the request becomes a message, and the line is    *)
(* masked until the driver has answered.                                   *)
LEMMA StubTells ==
    ASSUME Bases, Wired, Lines, UNCHANGED setup, Len(mq[Driver]) < MqCap, NEW l \in DeviceLines,
           isr_irq_master(l) \/ isr_irq_slave(l) \/ isr_irq_apic(l), UNCHANGED ps2vars
    PROVE  /\ Lines' /\ l \in {1, 12} /\ l \in pic.irr /\ phase = "ready" /\ phase' = phase
           /\ mq' = [mq EXCEPT ![Driver] = Append(mq[Driver], <<"irq", l>>)]
<1>0. SetUp /\ Shapes
  BY DEF Bases
<1>1. PicIs(pic.mask \cup {l}, pic.irr \ {l}, pic.rtc)
  BY <1>0, LineServed, Zenon
<1>2. PICK p : IrqStub(l, p)
  BY <1>0, LineServed, Zenon
<1>3. l \in pic.irr /\ phase = "ready" /\ l # tmrirq /\ phase' = phase
  BY <1>2 DEF IrqStub, Deliverable, Pending
<1>4. l \in {1, 12}
  BY <1>3 DEF Lines
<1>5. route[l] = Driver
  BY <1>0, <1>4, WiredRoutes
<1> DEFINE q == mq[Driver]
           x == <<"irq", l>>
<1>6. IsSeq(q) /\ Posted(q) /\ x \in Messages
  BY <1>4, TaskNames DEF Bases, Shapes, TaskShapes, Lines, Messages
<1>7. mq' = [mq EXCEPT ![Driver] = ksend(q, x)]
  BY <1>2, <1>5, SMTT(30) DEF IrqStub
<1>8. Announced(1) /\ Announced(12) /\ Announced(l) /\ ~Tells(q, l)
  BY <1>3, <1>4 DEF Lines, Announced, Told
<1>9. \A k \in {1, 12} : x = <<"irq", k>> <=> k = l
  BY <1>4
<1> HIDE DEF q, x
<1>10. ksend(q, x) = Append(q, x)
  BY <1>6, KsendFacts DEF q
<1>11. mq'[Driver] = Append(q, x)
  BY <1>0, <1>7, <1>10, TaskNames DEF Shapes, TaskShapes
<1>12. /\ Posted(Append(q, x))
       /\ \A k \in {1, 12} : Tells(Append(q, x), k) <=> (Tells(q, k) \/ x = <<"irq", k>>)
  <2>1. \A k \in {1, 12} : x = <<"irq", k>> => ~Tells(q, k)
    BY <1>8, <1>9
  <2> QED BY <1>6, <2>1, PostAppend
<1>13. \A k \in {1, 12} : Told(k)' <=> (Told(k) \/ k = l)
  BY <1>9, <1>11, <1>12 DEF Told, q
<1>14. pic'.mask = pic.mask \cup {l} /\ pic'.irr = pic.irr \ {l}
  BY <1>1 DEF PicIs
<1>15. drv' = drv /\ obuf' = obuf
  BY DEF ps2vars, devices, driver
<1>16. \A k \in {1, 12} : Doing(k)' <=> Doing(k)
  BY <1>15, SMTT(30) DEF Doing
<1>17. ASSUME NEW k \in {1, 12} PROVE Announced(k)'
  <2>1. Announced(k)
    BY <1>8
  <2> HIDE DEF Told, Doing
  <2> QED BY <1>3, <1>8, <1>13, <1>14, <1>15, <1>16, <2>1, SMTT(30) DEF Announced
<1>18. tmrirq' = tmrirq
  BY <1>0, Fixed
<1>19. Lines'
  <2> HIDE DEF Announced, Posted
  <2> QED BY <1>3, <1>11, <1>12, <1>14, <1>15, <1>17, <1>18, SMTT(30) DEF Lines
<1> QED BY <1>3, <1>4, <1>7, <1>10, <1>19, Zenon DEF q, x

(* The driver takes a message: the line it names is the one it serves.     *)
LEMMA RecvTakes ==
    ASSUME Bases, Lines, UNCHANGED setup, Recv
    PROVE  /\ Lines' /\ mq[Driver] # <<>> /\ mq' = [mq EXCEPT ![Driver] = Tail(mq[Driver])]
           /\ drv'.packet = drv.packet /\ drv'.pc \in {"ack", "recv"}
           /\ \A l \in {1, 12} : Told(l)' => Told(l)
           /\ (Told(1) \/ Told(12)) => (Told(1)' \/ Told(12)' \/ Head(mq[Driver]) # <<"ack", 0>>)
<1>0. SetUp /\ Shapes /\ DriverShapes /\ phase = "ready" /\ phase' = phase /\ drv.pc = "recv"
  BY DEF Bases, Shapes, Recv, Driving
<1> DEFINE q == mq[Driver]
           m == Head(q)
<1>1. IsSeq(q) /\ Posted(q) /\ q # <<>> /\ mq' = [mq EXCEPT ![Driver] = Tail(q)]
  BY TaskNames DEF Bases, Shapes, TaskShapes, Lines, Recv
<1>2. UNCHANGED <<pic, obuf>>
  BY DEF Recv, devices
<1>3. IF m[1] = "irq" /\ m[2] \in {1, 12}
      THEN drv' = DrvOf("ack", m[2], drv.prefix, drv.hist, drv.packet, drv.event)
      ELSE drv' = drv
  BY <1>0, DriverTurns
<1>4. mq'[Driver] = Tail(q)
  BY <1>0, <1>1, TaskNames DEF Shapes, TaskShapes
<1> HIDE DEF q
<1>5. /\ Posted(Tail(q)) /\ m \in Messages
      /\ \A l \in {1, 12} : Tells(Tail(q), l) <=> (Tells(q, l) /\ m # <<"irq", l>>)
  BY <1>1, PostTail
<1> HIDE DEF m
<1>6. \A l \in {1, 12} : Told(l)' <=> (Told(l) /\ m # <<"irq", l>>)
  BY <1>4, <1>5 DEF Told, q
<1>7. \A l \in {1, 12} : m = <<"irq", l>> <=> (m[1] = "irq" /\ m[2] = l)
  BY <1>5, MessageParts
<1>8. \A l \in {1, 12} : m = <<"irq", l>> => Told(l)
  <2>1. m \in Range(q)
    BY <1>1, TailRange DEF m
  <2> QED BY <2>1 DEF Told, Tells, q
<1>9. Announced(1) /\ Announced(12)
  BY <1>0 DEF Lines
<1>10. /\ drv'.pc \in {"ack", "recv"} /\ drv'.packet = drv.packet
       /\ \A l \in {1, 12} : (drv'.pc = "ack" /\ drv'.irq = l) <=> m = <<"irq", l>>
  <2>1. CASE m[1] = "irq" /\ m[2] \in {1, 12}
    <3>1. drv' = DrvOf("ack", m[2], drv.prefix, drv.hist, drv.packet, drv.event)
      BY <1>3, <2>1
    <3>2. drv'.pc = "ack" /\ drv'.irq = m[2] /\ drv'.packet = drv.packet
      BY <3>1 DEF DrvOf, DrvShape
    <3> QED BY <1>7, <2>1, <3>2
  <2>2. CASE ~(m[1] = "irq" /\ m[2] \in {1, 12})
    BY <1>0, <1>3, <1>7, <2>2
  <2> QED BY <2>1, <2>2
<1>11. \A l \in {1, 12} : Doing(l)' <=> m = <<"irq", l>>
  BY <1>10 DEF Doing
<1>12. \A l \in {1, 12} : ~Doing(l)
  BY <1>0 DEF Doing
<1>13. ASSUME NEW l \in {1, 12} PROVE Announced(l)'
  <2>1. Announced(l) /\ drv.pc # "ack"
    BY <1>0, <1>9
  <2>2. /\ Told(l)' <=> (Told(l) /\ m # <<"irq", l>>)
        /\ m = <<"irq", l>> => Told(l)
        /\ Doing(l)' <=> m = <<"irq", l>>
        /\ (drv'.pc = "ack" /\ drv'.irq = l) <=> m = <<"irq", l>>
        /\ ~Doing(l)
    BY <1>6, <1>8, <1>10, <1>11, <1>12
  <2> HIDE DEF Told, Doing
  <2> QED BY <1>2, <2>1, <2>2 DEF Announced
<1>14. tmrirq' = tmrirq
  BY <1>0, Fixed
<1>15. Lines'
  <2> HIDE DEF Announced, Posted
  <2> QED BY <1>0, <1>2, <1>4, <1>5, <1>13, <1>14, SMTT(30) DEF Lines
<1>16. (Told(1) \/ Told(12)) => (Told(1)' \/ Told(12)' \/ m # <<"ack", 0>>)
  BY <1>6, MessageParts
<1> QED BY <1>1, <1>6, <1>10, <1>15, <1>16, SMTT(30) DEF q, m

(* The driver answers: the line is unmasked, and its byte read next.       *)
LEMMA AckServes ==
    ASSUME Bases, Wired, Lines, UNCHANGED setup, Ack
    PROVE  Lines'
<1>0. SetUp /\ Shapes /\ DriverShapes /\ phase = "ready" /\ phase' = phase /\ drv.pc = "ack"
  BY DEF Bases, Shapes, Ack, Driving
<1>1. drv.irq \in {1, 12}
  BY <1>0 DEF Bases, Sane
<1>2. route[drv.irq] = Driver
  BY <1>0, <1>1, WiredRoutes
<1>3. PicIs(pic.mask \ {drv.irq}, pic.irr, pic.rtc)
  BY <1>0, <1>1, <1>2, AckUnmasks, SMTT(30)
<1>4. pic'.mask = pic.mask \ {drv.irq} /\ pic'.irr = pic.irr
  BY <1>3 DEF PicIs
<1>5. drv' = DrvOf("read", drv.irq, drv.prefix, drv.hist, drv.packet, drv.event)
  BY <1>0, DriverTurns
<1>6. drv'.pc = "read" /\ drv'.irq = drv.irq
  BY <1>5 DEF DrvOf, DrvShape
<1>7. UNCHANGED <<mq, obuf>>
  BY SMTT(30) DEF Ack, tasks, devices
<1>8. ASSUME NEW l \in {1, 12} PROVE Announced(l)'
  <2>1. Announced(l)
    BY <1>0 DEF Lines
  <2>2. (Told(l)' <=> Told(l)) /\ (Doing(l)' <=> Doing(l)) /\ (Doing(l) <=> drv.irq = l)
    BY <1>0, <1>6, <1>7 DEF Told, Doing
  <2> HIDE DEF Told, Doing
  <2> QED BY <1>0, <1>4, <1>6, <1>7, <2>1, <2>2, SMTT(30) DEF Announced
<1>9. tmrirq' = tmrirq
  BY <1>0, Fixed
<1> HIDE DEF Announced, Posted
<1> QED BY <1>0, <1>4, <1>6, <1>7, <1>8, <1>9, SMTT(30) DEF Lines

(* The driver reads the byte that its line has announced; it never finds   *)
(* the buffer empty.                                                       *)
LEMMA ReadServes ==
    ASSUME Bases, Lines, UNCHANGED setup, Read \/ PollEnds
    PROVE  /\ Lines' /\ Read /\ obuf.dev = Device2(drv.irq) /\ drv.irq \in {1, 12}
           /\ \A l \in {1, 12} : ~Told(l)
<1>0. /\ SetUp /\ Shapes /\ DriverShapes /\ DrvShape(drv) /\ IsSeq(drv.packet)
      /\ phase = "ready" /\ phase' = phase /\ drv.pc = "read"
  BY DEF Bases, Shapes, DriverShapes, DrvShape, Read, PollEnds, Driving
<1>1. drv.irq \in {1, 12}
  BY <1>0 DEF Bases, Sane
<1>2. Announced(1) /\ Announced(12)
  BY <1>0 DEF Lines
<1>3. Doing(drv.irq)
  BY <1>0 DEF Doing
<1>4. obuf.dev = Device2(drv.irq)
  <2> HIDE DEF Doing
  <2> QED BY <1>1, <1>2, <1>3 DEF Announced
<1>5. Ready
  BY <1>1, <1>4 DEF Ready, Device2, Empty, None
<1>6. Read
  BY <1>5 DEF PollEnds
<1> DEFINE l == drv.irq
<1>7. l = IF obuf.dev = "kbd" THEN 1 ELSE 12
  BY <1>1, <1>4 DEF Device2
<1>8. PicIs(pic.mask, IF platform = "acpi" THEN pic.irr ELSE pic.irr \ {l}, pic.rtc)
  BY <1>0, <1>6, <1>7, ReadDrops, SMTT(30)
<1>9. /\ pic'.mask = pic.mask /\ pic'.irr \subseteq pic.irr
  BY <1>8 DEF PicIs
<1>10. drv' = (IF drv.irq = 1 THEN irq1(drv, obuf.byte) ELSE irq12(drv, obuf.byte))
       /\ obuf' = Empty /\ mq' = mq
  BY <1>6, SMTT(30) DEF Read, tasks
<1>11. drv'.pc \notin {"ack", "read"}
  BY <1>0, <1>10, KeyRead, MouseRead, SMTT(30)
<1>12. \A k \in {1, 12} : ~Told(k) /\ k \notin pic.irr
  <2>1. ASSUME NEW k \in {1, 12}, k = l PROVE ~Told(k) /\ k \notin pic.irr
    <3> HIDE DEF Doing, Told
    <3> QED BY <1>2, <1>3, <2>1, SMTT(30) DEF Announced
  <2>2. ASSUME NEW k \in {1, 12}, k # l PROVE ~Told(k) /\ k \notin pic.irr
    <3>1. obuf.dev # Device2(k)
      BY <1>1, <1>4, <2>2, SMTT(30) DEF Device2
    <3> HIDE DEF Doing, Told
    <3> QED BY <1>2, <3>1 DEF Announced
  <2> QED BY <2>1, <2>2
<1>13. ASSUME NEW k \in {1, 12} PROVE Announced(k)'
  <2>1. ~Told(k)' /\ ~Doing(k)' /\ k \notin pic'.irr /\ drv'.pc # "ack"
    BY <1>9, <1>10, <1>11, <1>12, SMTT(30) DEF Told, Doing
  <2>2. k \notin pic'.mask
    BY <1>0, <1>2, <1>9, <1>12, SMTT(30) DEF Announced
  <2>3. obuf'.dev # Device2(k)
    BY <1>10 DEF Empty, None, Device2
  <2> HIDE DEF Told, Doing
  <2> QED BY <2>1, <2>2, <2>3, SMTT(30) DEF Announced
<1>14. tmrirq' = tmrirq
  BY <1>0, Fixed, SMTT(30)
<1>15. Lines'
  <2> HIDE DEF Announced, Posted
  <2> QED BY <1>0, <1>9, <1>10, <1>13, <1>14, SMTT(30) DEF Lines
<1> QED BY <1>1, <1>4, <1>6, <1>12, <1>15, SMTT(30)

(* A device puts a byte into the empty buffer.  Its line is not masked, so *)
(* that the IOAPIC does not forget it.                                     *)
LEMMA DeviceAsks ==
    ASSUME Bases, Lines, UNCHANGED setup, NEW l \in {1, 12}, obuf = Empty, obuf'.dev = Device2(l),
           pic' = Signal(pic, l), phase = "ready", UNCHANGED <<phase, mq, drv>>
    PROVE  Lines' /\ \A k \in {1, 12} : ~Told(k)
<1>0. SetUp /\ Shapes
  BY DEF Bases
<1>1. ASSUME NEW k \in {1, 12}
      PROVE  Announced(k) /\ ~Told(k) /\ ~Doing(k) /\ k \notin pic.irr /\ k \notin pic.mask
  <2>1. Announced(k)
    BY DEF Lines
  <2>2. obuf.dev # Device2(k)
    BY DEF Empty, None, Device2
  <2>3. ~Told(k) /\ ~Doing(k) /\ k \notin pic.irr
    <3> HIDE DEF Told, Doing
    <3> QED BY <2>1, <2>2, SMTT(30) DEF Announced
  <2>4. k \notin pic.mask
    BY <2>1, <2>3, SMTT(30) DEF Announced, Doing
  <2> QED BY <2>1, <2>3, <2>4, SMTT(30)
<1>2. PicIs(pic.mask, pic.irr \cup {l}, pic.rtc)
  BY <1>0, <1>1, ByteAsks, SMTT(30)
<1>3. pic'.mask = pic.mask /\ pic'.irr = pic.irr \cup {l}
  BY <1>2, SMTT(30) DEF PicIs
<1>4. ASSUME NEW k \in {1, 12} PROVE Announced(k)'
  <2>1. ~Told(k)' /\ ~Doing(k)' /\ ~(drv'.pc = "ack" /\ drv'.irq = k)
    BY <1>1 DEF Told, Doing
  <2>2. obuf'.dev = Device2(k) <=> k = l
    BY DEF Device2
  <2>3. (k \in pic'.irr <=> k = l) /\ k \notin pic'.mask
    BY <1>1, <1>3
  <2> HIDE DEF Told, Doing, Device2
  <2> QED BY <2>1, <2>2, <2>3, SMTT(30) DEF Announced
<1>5. tmrirq' = tmrirq
  BY <1>0, Fixed, SMTT(30)
<1>6. obuf'.dev \in {"kbd", "mouse"} /\ pic'.irr \subseteq {tmrirq, 1, 12}
  BY <1>3 DEF Device2, Lines
<1>7. Lines'
  <2> HIDE DEF Announced, Posted
  <2> QED BY <1>4, <1>5, <1>6, SMTT(30) DEF Lines
<1> QED BY <1>1, <1>7

(* The user interface acknowledges an event: the driver has a message      *)
(* more, about neither line.                                               *)
LEMMA DispatchAcks ==
    ASSUME Bases, Lines, UNCHANGED setup, UiDispatch, Len(mq[Driver]) < MqCap
    PROVE  /\ Lines' /\ mq[UI] # <<>> /\ mq'[UI] = Tail(mq[UI])
           /\ mq'[Driver] = mq[Driver] \/ mq'[Driver] = Append(mq[Driver], <<"ack", 0>>)
           /\ \A l \in {1, 12} : Told(l)' <=> Told(l)
<1>0. /\ SetUp /\ Shapes /\ phase = "ready" /\ UNCHANGED <<phase, pic, drv, obuf>> /\ mq[UI] # <<>>
  BY DEF Bases, UiDispatch, Interfacing, ps2vars, devices, driver
<1> DEFINE q == mq[Driver]
           x == <<"ack", 0>>
           u == Tail(mq[UI])
           rest == [mq EXCEPT ![UI] = u]
<1>1. IsSeq(q) /\ Posted(q) /\ x \in Messages /\ Queues(mq) /\ IsSeq(u)
  BY <1>0, TaskNames, TailFacts, SMTT(30) DEF Shapes, TaskShapes, Lines, Messages, Queues
<1>2. mq' = rest \/ mq' = [rest EXCEPT ![Driver] = ksend(rest[Driver], x)]
  BY DEF UiDispatch
<1>3. \A l \in {1, 12} : x # <<"irq", l>>
  BY MessageParts
<1>a. rest = [mq EXCEPT ![UI] = u]
  OBVIOUS
<1> HIDE DEF q, x, u, rest
<1>4. Queues(rest) /\ \A t \in Task : rest[t] = IF t = UI THEN u ELSE mq[t]
  <2>1. \A t \in Task : rest[t] = IF t = UI THEN u ELSE mq[t]
    BY <1>1, <1>a DEF Queues
  <2>2. rest = [t \in Task |-> rest[t]]
    BY <1>1, <1>a DEF Queues
  <2>3. \A t \in Task : IsSeq(rest[t])
    BY <1>1, <2>1 DEF Queues
  <2> QED BY <2>1, <2>2, <2>3 DEF Queues
<1>5. rest[Driver] = q /\ rest[UI] = u
  BY <1>4, TaskNames, SMTT(30) DEF q
<1>6. ksend(q, x) = Append(q, x) /\ IsSeq(Append(q, x))
  BY <1>1, KsendFacts, AppendFacts DEF q
<1>7. mq'[UI] = u /\ (mq'[Driver] = q \/ mq'[Driver] = Append(q, x))
  <2>1. CASE mq' = rest
    BY <1>5, <2>1
  <2>2. CASE mq' = [rest EXCEPT ![Driver] = ksend(rest[Driver], x)]
    <3>1. mq' = [rest EXCEPT ![Driver] = Append(q, x)]
      BY <1>5, <1>6, <2>2, Zenon
    <3> QED BY <1>4, <1>5, <3>1, TaskNames DEF Queues
  <2> QED BY <1>2, <2>1, <2>2
<1>8. /\ Posted(Append(q, x))
      /\ \A l \in {1, 12} : Tells(Append(q, x), l) <=> (Tells(q, l) \/ x = <<"irq", l>>)
  BY <1>1, <1>3, PostAppend
<1>9. Posted(mq'[Driver]) /\ \A l \in {1, 12} : Tells(mq'[Driver], l) <=> Tells(q, l)
  BY <1>1, <1>3, <1>7, <1>8, ZenonT(30)
<1>10. \A l \in {1, 12} : Told(l)' <=> Told(l)
  BY <1>9 DEF Told, q
<1>11. ASSUME NEW l \in {1, 12} PROVE Announced(l)'
  <2>1. Announced(l) /\ (Told(l)' <=> Told(l)) /\ (Doing(l)' <=> Doing(l))
    BY <1>0, <1>10, SMTT(30) DEF Lines, Doing
  <2> HIDE DEF Told, Doing
  <2> QED BY <1>0, <2>1, SMTT(30) DEF Announced
<1>12. tmrirq' = tmrirq
  BY <1>0, Fixed
<1>13. Lines'
  <2> HIDE DEF Announced, Posted
  <2> QED BY <1>0, <1>9, <1>11, <1>12 DEF Lines
<1> QED BY <1>0, <1>7, <1>10, <1>13, SMTT(30) DEF q, x, u

(* sys_ready: both lines are unmasked, with nothing to announce.           *)
LEMMA ReadyUnmasks ==
    ASSUME Bases, Wired, Lines, UNCHANGED setup, SysReady
    PROVE  Lines' /\ \A l \in {1, 12} : ~Told(l)
<1>0. /\ SetUp /\ Shapes /\ phase = "boot" /\ phase' = "ready" /\ UNCHANGED <<mq, drv, obuf>>
      /\ tmrirq \in {0, 8}
  BY TimerLine, SMTT(30) DEF Bases, SysReady, ps2vars, devices, driver
<1>1. obuf = Empty /\ drv.pc = "recv" /\ mq[Driver] = <<>> /\ pic.irr \subseteq {tmrirq}
  BY <1>0 DEF Lines
<1>2. PicIs(pic.mask \ Routed, pic.irr, pic.rtc)
  BY <1>0, FiniUnmasks, SMTT(30)
<1>3. pic'.mask = pic.mask \ Routed /\ pic'.irr = pic.irr
  BY <1>2 DEF PicIs
<1>4. \A l \in {1, 12} : l \notin pic'.mask /\ l \notin pic'.irr
  BY <1>0, <1>1, <1>3, WiredRoutes, SMTT(30)
<1>5. \A l \in {1, 12} : ~Told(l)
  BY <1>1 DEF Told, Tells, Range
<1>6. ASSUME NEW l \in {1, 12} PROVE Announced(l)'
  <2>1. ~Told(l)' /\ ~Doing(l)' /\ drv'.pc # "ack"
    BY <1>0, <1>1, <1>5, SMTT(30) DEF Told, Doing
  <2>2. obuf'.dev # Device2(l)
    BY <1>0, <1>1 DEF Empty, None, Device2
  <2> HIDE DEF Told, Doing
  <2> QED BY <1>4, <2>1, <2>2, SMTT(30) DEF Announced
<1>7. tmrirq' = tmrirq
  BY <1>0, Fixed, SMTT(30)
<1>8. Lines'
  <2> HIDE DEF Announced, Posted
  <2> QED BY <1>0, <1>3, <1>6, <1>7 DEF Lines
<1> QED BY <1>5, <1>8

(* The messages that a full queue of the driver would lose.                *)
RoomToTell == Interrupt \/ UiDispatch => Len(mq[Driver]) < MqCap

(* Every step keeps the lines in order.                                    *)
LEMMA LinesStep ==
    ASSUME Bases, Wired, Lines, RoomToTell, [Next]_vars
    PROVE  Lines'
<1>0. SetUp /\ Shapes /\ UNCHANGED setup /\ DriverShapes /\ tmrirq \in {0, 8} /\ tmrirq \notin {1, 12}
  BY SetUpStep, TimerLine DEF Bases, Shapes
<1>b. ASSUME UNCHANGED <<pic, obuf>>, mq'[Driver] = mq[Driver],
             drv' = drv \/ (drv.pc \notin {"ack", "read"} /\ drv'.pc = "recv"),
             phase' \in {"calibrate", "boot"} => phase \in {"calibrate", "boot"},
             phase' = "ready" => phase = "ready"
      PROVE  Lines'
  <2>1. PicIs(pic.mask, pic.irr, pic.rtc)
    BY <1>0, <1>b, PicStays
  <2> QED BY <1>0, <1>b, <2>1, LinesFrom, SMTT(30)
<1>1. CASE Controller
  <2>0. UNCHANGED <<obuf, drv, mq>>
    BY <1>1 DEF Controller, ps2vars, devices, driver, TimerFires, CalTick, CalLoop, CalDone, tasks
  <2>1. CASE TimerFires
    <3>1. PICK r : r = (clocksource # "rtc")
      OBVIOUS
    <3>2. PicIs(pic.mask, pic'.irr, r) /\ pic'.irr \in {pic.irr, pic.irr \cup {tmrirq}}
      BY <1>0, <2>1, <3>1, TimerAsks, Zenon
    <3>3. phase' = phase
      BY <2>1 DEF TimerFires
    <3> QED BY <1>0, <2>0, <3>2, <3>3, LinesFrom
  <2>2. CASE CalTick
    <3>1. PICK r : PicIs(pic.mask, pic.irr \ {tmrirq}, r)
      BY <1>0, <2>2, TickServed, Zenon
    <3>2. phase' = phase
      BY <2>2 DEF CalTick
    <3> QED BY <1>0, <2>0, <3>1, <3>2, LinesFrom, SMTT(30)
  <2>3. CASE CalLoop
    BY <1>b, <2>0, <2>3, SMTT(30) DEF CalLoop
  <2>4. CASE CalDone
    <3>1. PicIs(pic.mask \cup {tmrirq}, pic.irr, pic.rtc) /\ phase = "calibrate" /\ phase' = "boot"
      BY <1>0, <2>4, CalDoneMasks, SMTT(30) DEF CalDone
    <3> QED BY <1>0, <2>0, <3>1, LinesFrom, SMTT(30)
  <2> QED BY <1>1, <2>1, <2>2, <2>3, <2>4 DEF Controller
<1>2. CASE Timer
  <2>1. PICK r : PicIs(pic.mask, pic.irr \ {tmrirq}, r)
    BY <1>0, <1>2, TickServed, ZenonT(30) DEF Timer
  <2>2. UNCHANGED <<obuf, drv, mq, phase>>
    BY <1>2, SMTT(30) DEF Timer, ps2vars, devices, driver, isr_irqtmr, isr_irqtmr_rtc
  <2> QED BY <1>0, <2>1, <2>2, LinesFrom
<1>3. CASE Interrupt
  <2>1. PICK l \in DeviceLines : isr_irq_master(l) \/ isr_irq_slave(l) \/ isr_irq_apic(l)
    BY <1>3 DEF Interrupt
  <2>2. Len(mq[Driver]) < MqCap /\ UNCHANGED ps2vars
    BY <1>3 DEF RoomToTell, Interrupt
  <2> QED BY <1>0, <2>1, <2>2, StubTells, SMTT(30)
<1>4. CASE Exception
  <2>1. UNCHANGED <<pic, obuf, drv, mq>> /\ phase = "ready" /\ phase' \in {"ready", "panic"}
    BY <1>4, ZenonT(30) DEF Exception, ps2vars, devices, driver, Fault, isr_exc_pic, isr_exce_pic, isr_exc_apic,
                isr_exce_apic, ExcStub, FaultInCore, Handled
  <2> QED BY <1>b, <2>1
<1>5. CASE DriverStep
  <2>1. CASE Recv
    BY <1>0, <2>1, RecvTakes
  <2>2. CASE Ack
    BY <1>0, <2>2, AckServes
  <2>3. CASE Read \/ PollEnds
    BY <1>0, <2>3, ReadServes, SMTT(30)
  <2>4. CASE SendEvent
    <3>1. drv.pc = "send" /\ UNCHANGED <<pic, obuf, phase>>
      BY <2>4, SMTT(30) DEF SendEvent, Driving, devices
    <3>2. drv' = DrvOf("recv", drv.irq, drv.prefix, drv.hist, drv.packet, <<>>)
      BY <1>0, <2>4, DriverTurns, SMTT(30)
    <3>3. drv'.pc = "recv"
      BY <3>2 DEF DrvOf, DrvShape
    <3>4. PICK q : mq' = [mq EXCEPT ![UI] = q]
      BY <2>4, ZenonT(30) DEF SendEvent, Send
    <3>5. mq'[Driver] = mq[Driver]
      BY <1>0, <3>4, TaskNames, QueueOfOthers, SMTT(30)
    <3> QED BY <1>b, <3>1, <3>3, <3>5, SMTT(30)
  <2>5. CASE DriverBlocks \/ Reset
    <3>1. UNCHANGED <<pic, obuf, drv, mq>> /\ phase = "ready" /\ phase' \in {"ready", "reset"}
      BY <2>5, Zenon DEF DriverBlocks, Block, Reset, Driving, ps2vars, devices, driver, tasks
    <3> QED BY <1>b, <3>1
  <2> QED BY <1>5, <2>1, <2>2, <2>3, <2>4, <2>5, SMTT(30) DEF DriverStep
<1>6. CASE Device
  <2>1. CASE \E b : KeyByte(b)
    <3>1. /\ obuf = Empty /\ obuf'.dev = Device2(1) /\ pic' = Signal(pic, 1) /\ phase = "ready"
          /\ UNCHANGED <<phase, mq, drv>>
      BY <2>1 DEF KeyByte, Device2, tasks, driver
    <3> QED BY <1>0, <3>1, DeviceAsks, SMTT(30)
  <2>2. CASE MouseByte
    <3>1. /\ obuf = Empty /\ obuf'.dev = Device2(12) /\ pic' = Signal(pic, 12) /\ phase = "ready"
          /\ UNCHANGED <<phase, mq, drv>>
      BY <2>2 DEF MouseByte, Device2, tasks, driver
    <3> QED BY <1>0, <3>1, DeviceAsks, SMTT(30)
  <2> QED BY <1>6, <2>1, <2>2, SMTT(30) DEF Device
<1>7. CASE OtherTask
  <2>1. CASE UiDispatch
    BY <1>0, <2>1, DispatchAcks, SMTT(30) DEF RoomToTell
  <2>2. CASE MountFs \/ UiStarts
    <3>1. UNCHANGED <<pic, obuf, drv, phase>>
      BY <2>2 DEF MountFs, UiStarts, ps2vars, devices, driver
    <3>2. PICK q : mq' = [mq EXCEPT ![UI] = q]
      BY <2>2, SMTT(30) DEF MountFs, UiStarts, Send
    <3>3. mq'[Driver] = mq[Driver]
      BY <1>0, <3>2, TaskNames, QueueOfOthers
    <3> QED BY <1>b, <3>1, <3>3, SMTT(30)
  <2>3. CASE (Work \/ Block(Worker) \/ Block(UI)) /\ UNCHANGED ps2vars
    <3>1. UNCHANGED <<pic, obuf, drv, phase, mq>>
      BY <2>3, Zenon DEF Work, Block, ps2vars, devices, driver
    <3> QED BY <1>b, <3>1
  <2> QED BY <1>7, <2>1, <2>2, <2>3, SMTT(30) DEF OtherTask
<1>8. CASE SysReady
  BY <1>0, <1>8, ReadyUnmasks, SMTT(30)
<1>9. CASE UNCHANGED vars
  <2>1. UNCHANGED <<pic, obuf, drv, phase, mq>>
    BY <1>9 DEF vars, isrvars, ps2vars, devices, driver
  <2> QED BY <1>b, <2>1
<1> QED BY <1>1, <1>2, <1>3, <1>4, <1>5, <1>6, <1>7, <1>8, <1>9, SMTT(30) DEF Next

(* A request that nobody has taken is not masked.                          *)
LEMMA LinesMove ==
    ASSUME Bases, Clock, Lines
    PROVE  NoLineStuck
<1>1. NothingInService
  BY SMTT(30) DEF Bases, Shapes, PicShape, NothingInService
<1>2. ASSUME phase = "ready", obuf # Empty, NEW l \in {1, 12}, obuf.dev = Device2(l)
      PROVE  l \in Pending(pic) \/ <<"irq", l>> \in Range(mq[Driver])
                \/ (drv.pc \in {"ack", "read"} /\ drv.irq = l)
  <2>1. Announced(l)
    BY <1>2, SMTT(30) DEF Lines
  <2>2. CASE l \in pic.irr
    <3>1. l \notin pic.mask
      BY <2>1, <2>2, SMTT(30) DEF Announced, Doing
    <3>2. platform \in {"ibmpc", "acpi"} /\ (platform = "ibmpc" => 2 \notin pic.mask)
      BY TimerLine DEF Bases, Clock, ClockRuns
    <3> QED BY <2>2, <3>1, <3>2, SMTT(30) DEF Pending
  <2>3. CASE Told(l) \/ Doing(l)
    BY <2>3 DEF Told, Tells, Doing
  <2> QED BY <1>2, <2>1, <2>2, <2>3, SMTT(30) DEF Announced
<1>3. obuf # Empty => obuf.dev \in {"kbd", "mouse"}
  BY DEF Lines
<1>4. NoByteStranded
  <2> DEFINE l == IF obuf.dev = "kbd" THEN 1 ELSE 12
  <2> SUFFICES ASSUME phase = "ready", obuf # Empty
               PROVE  l \in Pending(pic) \/ <<"irq", l>> \in Range(mq[Driver])
                        \/ (drv.pc \in {"ack", "read"} /\ drv.irq = l)
    BY DEF NoByteStranded
  <2>1. l \in {1, 12} /\ obuf.dev = Device2(l)
    BY <1>3 DEF Device2
  <2> HIDE DEF l
  <2> QED BY <1>2, <2>1
<1> QED BY <1>1, <1>4 DEF NoLineStuck

(* No line is stuck and no byte stranded, on either platform and for       *)
(* whatever is typed and moved, as long as no SYS_IRQ and no               *)
(* acknowledgement finds the queue of the driver full: the stub masks the  *)
(* line and tells the driver, SYS_ack unmasks it before the byte is read,  *)
(* and each of them acts on a byte that is announced nowhere else.         *)
THEOREM NoByteIsLostWithRoom ==
    ASSUME Wired
    PROVE  Spec /\ [][RoomToTell]_vars => []NoLineStuck
<1>1. Init => Bases /\ Clock /\ Lines
  BY BasesInit, ClockInit, LinesInit
<1>2. Bases /\ Clock /\ Lines /\ [Next]_vars /\ [RoomToTell]_vars => (Bases /\ Clock /\ Lines)'
  <2> SUFFICES ASSUME Bases, Clock, Lines, [Next]_vars, [RoomToTell]_vars
               PROVE  Bases' /\ Clock' /\ Lines'
    OBVIOUS
  <2>1. Bases' /\ Clock'
    BY BasesStep, ClockStep
  <2>2. CASE RoomToTell
    BY <2>1, <2>2, LinesStep, SMTT(30)
  <2>3. CASE UNCHANGED vars
    <3>1. UNCHANGED <<pic, obuf, drv, phase, mq, setup>>
      BY <2>3 DEF vars, isrvars, ps2vars, devices, driver, setup
    <3>2. PicIs(pic.mask, pic.irr, pic.rtc)
      BY <3>1, PicStays DEF Bases
    <3> QED BY <2>1, <3>1, <3>2, LinesFrom, SMTT(30)
  <2> QED BY <2>2, <2>3
<1>3. Bases /\ Clock /\ Lines => NoLineStuck
  BY LinesMove, SMTT(30)
<1> QED BY <1>1, <1>2, <1>3, PTL DEF Spec

-----------------------------------------------------------------------------
(***************************************************************************)
(* Room for the messages                                                   *)
(***************************************************************************)
(* The lengths that are counted.                                           *)
LEMMA Lengths ==
    ASSUME Bases
    PROVE  /\ IsSeq(drv.packet) /\ IsSeq(mouse) /\ IsSeq(typed) /\ IsSeq(moved) /\ IsSeq(sent)
           /\ Got \in Nat /\ Len(mouse) \in Nat /\ Len(typed) \in Nat
           /\ Len(moved) \in Nat /\ Len(sent) \in Nat
           /\ Len(mq[Driver]) \in Nat /\ Len(mq[UI]) \in Nat /\ IsSeq(mq[Driver]) /\ IsSeq(mq[UI])
           /\ (mouse = <<>> <=> Len(mouse) = 0) /\ (drv.packet = <<>> <=> Got = 0)
           /\ (mq[Driver] = <<>> <=> Len(mq[Driver]) = 0) /\ (mq[UI] = <<>> <=> Len(mq[UI]) = 0)
<1>1. /\ IsSeq(drv.packet) /\ IsSeq(mouse) /\ IsSeq(typed) /\ IsSeq(moved) /\ IsSeq(sent)
  BY DEF Bases, Shapes, DriverShapes
<1>2. IsSeq(mq[Driver]) /\ IsSeq(mq[UI])
  BY TaskNames DEF Bases, Shapes, TaskShapes
<1>3. Got \in Nat /\ (drv.packet = <<>> <=> Got = 0)
  BY <1>1, SeqFacts, ZenonT(30) DEF Got
<1> QED BY <1>1, <1>2, <1>3, SeqFacts, SMTT(30)

(* Nothing is counted at the beginning.                                    *)
LEMMA CountsInit == Init => EventCounts /\ MessageCounts
<1> SUFFICES ASSUME Init PROVE EventCounts /\ MessageCounts
  BY SMTT(30)
<1>1. /\ drv.pc = "recv" /\ drv.packet = <<>> /\ mouse = <<>> /\ typed = <<>> /\ moved = <<>>
      /\ sent = <<>> /\ obuf.dev = None /\ phase = "calibrate"
  BY SMTT(30) DEF Init, IsrInit, Ps2Init, mouse_init, Empty
<1>2. mq[UI] = <<>>
  BY TaskNames DEF Init, IsrInit
<1>3. Len(<<>>) = 0
  OBVIOUS
<1>4. Got = 0 /\ HasKey = 0 /\ HasMove = 0 /\ Sending = 0 /\ Open = 0
  BY <1>1, <1>3 DEF Got, HasKey, HasMove, Sending, Open, Packet, One, None
<1>5. Len(sent) = 0 /\ Len(typed) = 0 /\ Len(moved) = 0 /\ Len(mouse) = 0
  BY <1>1, <1>3
<1>6. EventCounts
  BY <1>4, <1>5, SMTT(30) DEF EventCounts
<1> QED BY <1>1, <1>2, <1>6, Zenon DEF MessageCounts

(* A key: a byte more, and an event to come.                               *)
LEMMA KeyCounts ==
    ASSUME Bases, EventCounts, NEW b, KeyByte(b)
    PROVE  EventCounts'
<1>t. /\ Got \in Nat /\ Len(mouse) \in Nat /\ Len(typed) \in Nat
      /\ Len(moved) \in Nat /\ Len(sent) \in Nat
  BY Lengths, SMTT(30)
<1>1. /\ obuf.dev = None /\ obuf'.dev = "kbd" /\ typed' = Append(typed, b)
      /\ UNCHANGED <<mouse, moved, drv, sent>> /\ Within(Len(typed) + 1, Len(moved))
  BY SMTT(30) DEF KeyByte, driver, Empty
<1>2. Len(typed') = Len(typed) + 1
  BY <1>1, Lengths, AppendFacts
<1>3. Within(Len(typed'), Len(moved')) <=> Within(Len(typed) + 1, Len(moved))
  BY <1>1, <1>2, SMTT(30)
<1>4. Packet' <=> Packet
  BY <1>1 DEF Packet, None
<1>5. Len(sent) + Sending + HasKey + Open <= Len(typed) + Len(moved)
  BY DEF EventCounts
<1>6. HasKey = 0 /\ HasKey' = 1 /\ Open' = Open
      /\ HasMove = 0 /\ HasMove' = 0
  BY <1>1, <1>4 DEF One, None, Open, HasKey, HasMove
<1>7. Open \in Nat /\ Sending \in Nat
  BY DEF One, Open, Sending
<1>8. Len(sent') + Sending' + HasKey' + Open'
        <= Len(typed') + Len(moved')
  <2>1. /\ Len(sent') = Len(sent) /\ Len(moved') = Len(moved)
        /\ Sending' = Sending
    BY <1>1 DEF Sending
  <2>2. Len(sent) + Sending + Open <= Len(typed) + Len(moved)
    BY <1>t, <1>5, <1>6, <1>7, SMTT(30)
  <2> QED BY <1>t, <1>2, <1>6, <1>7, <2>1, <2>2, SMTT(30)
<1>9. Got' < 3
      /\ Got' + HasMove' + Len(mouse') = 3 * Open'
  <2>1. Got' = Got /\ Len(mouse') = Len(mouse)
    BY <1>1 DEF Got
  <2> QED BY <1>6, <2>1 DEF EventCounts
<1> QED BY <1>1, <1>3, <1>8, <1>9, SMTT(30) DEF EventCounts

(* The mouse: a byte of a packet is in the controller, and less with it.   *)
LEMMA MouseCounts ==
    ASSUME Bases, EventCounts, MouseByte
    PROVE  EventCounts'
<1>t. /\ Got \in Nat /\ Len(mouse) \in Nat /\ Len(typed) \in Nat
      /\ Len(moved) \in Nat /\ Len(sent) \in Nat
  BY Lengths, SMTT(30)
<1>1. /\ obuf.dev = None /\ obuf'.dev = "mouse" /\ UNCHANGED <<typed, drv, sent>>
  BY DEF MouseByte, driver, Empty
<1>2. /\ mouse = <<>> => /\ Len(mouse') = 2 /\ Len(moved') = Len(moved) + 1
                         /\ Within(Len(typed), Len(moved) + 1)
      /\ mouse # <<>> => Len(mouse') = Len(mouse) - 1 /\ moved' = moved
  BY MouseSends DEF Bases, Sane
<1>3. Open' = 1
  <2>1. Packet'
    BY <1>1 DEF Packet
  <2> QED BY <2>1 DEF One, Open
<1>4. /\ Got < 3
      /\ Got + HasMove + Len(mouse) = 3 * Open
      /\ Len(sent) + Sending + HasKey + Open <= Len(typed) + Len(moved)
      /\ Len(typed) + Len(moved) = 0 \/ Within(Len(typed), Len(moved))
  BY DEF EventCounts
<1>5. HasKey = 0 /\ HasKey' = 0
      /\ HasMove = 0 /\ HasMove' = 1
  BY <1>1 DEF One, None, HasKey, HasMove
<1>6. Sending \in Nat /\ Open \in {0, 1}
  BY DEF One, Open, Sending
<1>7. CASE mouse = <<>>
  <2>1. Len(mouse) = 0
    BY <1>7, Lengths, SMTT(30)
  <2>2. Got = 0 /\ Open = 0
    BY <1>t, <1>4, <1>5, <1>6, <2>1, SMTT(30)
  <2>3. Within(Len(typed'), Len(moved'))
    BY <1>1, <1>2, <1>7
  <2>4. Got' < 3
        /\ Got' + HasMove' + Len(mouse') = 3 * Open'
    <3>1. Got' = 0 /\ Len(mouse') = 2
      <4>1. Got' = Got
        BY <1>1 DEF Got
      <4> QED BY <1>2, <1>7, <2>2, <4>1, SMTT(30)
    <3>2. HasMove' = 1
      BY <1>5
    <3> QED BY <1>3, <3>1, <3>2
  <2>5. Len(sent') + Sending' + HasKey' + Open'
          <= Len(typed') + Len(moved')
    <3>1. /\ Len(sent') = Len(sent) /\ Len(typed') = Len(typed) /\ Len(moved') = Len(moved) + 1
          /\ Sending' = Sending
      BY <1>1, <1>2, <1>7, SMTT(30) DEF Sending
    <3>2. Len(sent) + Sending <= Len(typed) + Len(moved)
      BY <1>t, <1>4, <1>5, <1>6, <2>2, SMTT(30)
    <3> QED BY <1>t, <1>3, <1>5, <1>6, <3>1, <3>2, SMTT(30)
  <2> QED BY <2>3, <2>4, <2>5, SMTT(30) DEF EventCounts
<1>8. CASE mouse # <<>>
  <2>1. Open = 1
    BY <1>8, SMTT(30) DEF Packet, One, Open
  <2>2. Within(Len(typed'), Len(moved')) \/ Len(typed') + Len(moved') = 0
    BY <1>1, <1>2, <1>4, <1>8, SMTT(30)
  <2>3. Got' < 3
        /\ Got' + HasMove' + Len(mouse') = 3 * Open'
    <3>1. Got' = Got /\ Len(mouse') = Len(mouse) - 1
      <4>1. Got' = Got
        BY <1>1 DEF Got
      <4> QED BY <1>2, <1>8, <4>1, SMTT(30)
    <3>2. Got < 3 /\ Got + Len(mouse) = 3
      BY <1>t, <1>4, <1>5, <2>1, SMTT(30)
    <3> QED BY <1>t, <1>3, <1>5, <3>1, <3>2, SMTT(30)
  <2>4. Len(sent') + Sending' + HasKey' + Open'
          <= Len(typed') + Len(moved')
    <3>1. /\ Len(sent') = Len(sent) /\ Len(typed') = Len(typed) /\ Len(moved') = Len(moved)
          /\ Sending' = Sending
      BY <1>1, <1>2, <1>8, SMTT(30) DEF Sending
    <3>2. Len(sent) + Sending + 1 <= Len(typed) + Len(moved)
      BY <1>t, <1>4, <1>5, <1>6, <2>1, SMTT(30)
    <3> QED BY <1>t, <1>3, <1>5, <1>6, <3>1, <3>2, SMTT(30)
  <2> QED BY <2>2, <2>3, <2>4, SMTT(30) DEF EventCounts
<1> QED BY <1>7, <1>8, SMTT(30)

(* The driver reads a byte: of the keyboard it may make an event, of the   *)
(* mouse it makes one when the packet is complete.                         *)
LEMMA ReadCounts ==
    ASSUME Bases, EventCounts, Read, drv.irq \in {1, 12}, obuf.dev = Device2(drv.irq)
    PROVE  EventCounts'
<1>t. /\ Got \in Nat /\ Len(mouse) \in Nat /\ Len(typed) \in Nat
      /\ Len(moved) \in Nat /\ Len(sent) \in Nat
  BY Lengths, SMTT(30)
<1>0. DrvShape(drv) /\ IsSeq(drv.packet)
  BY SMTT(30) DEF Bases, Shapes, DriverShapes, DrvShape
<1>1. /\ drv' = (IF drv.irq = 1 THEN irq1(drv, obuf.byte) ELSE irq12(drv, obuf.byte))
      /\ obuf'.dev = None /\ UNCHANGED <<mouse, typed, moved, sent>> /\ drv.pc = "read"
  BY DEF Read, Driving, Empty
<1>2. /\ Got < 3
      /\ Got + HasMove + Len(mouse) = 3 * Open
      /\ Len(sent) + Sending + HasKey + Open <= Len(typed) + Len(moved)
      /\ Len(typed) + Len(moved) = 0 \/ Within(Len(typed), Len(moved))
  BY DEF EventCounts
<1>s. Len(sent') = Len(sent) /\ Len(typed') = Len(typed) /\ Len(moved') = Len(moved)
  BY <1>1, SMTT(30)
<1>3. Len(typed') + Len(moved') = 0 \/ Within(Len(typed'), Len(moved'))
  BY <1>1, <1>2, SMTT(30)
<1>4. HasKey' = 0 /\ HasMove' = 0 /\ Sending = 0
      /\ Open \in {0, 1} /\ Sending' \in {0, 1}
  BY <1>1, SMTT(30) DEF One, None, Open, HasKey, HasMove, Sending
<1>5. CASE drv.irq = 1
  <2>1. drv'.packet = drv.packet
    BY <1>0, <1>1, <1>5, KeyRead, SMTT(30)
  <2>2. obuf.dev = "kbd" /\ HasKey = 1 /\ HasMove = 0
    BY <1>5, SMTT(30) DEF Device2, One, HasKey, HasMove
  <2>3. Packet' <=> Packet
    BY <1>1, <2>1, <2>2, SMTT(30) DEF Packet, None
  <2>4. Open' = Open
    BY <2>3 DEF One, Open
  <2>5. Got' < 3
        /\ Got' + HasMove' + Len(mouse') = 3 * Open'
    <3>1. Got' = Got /\ Len(mouse') = Len(mouse)
      BY <1>1, <2>1, ZenonT(30) DEF Got
    <3> QED BY <1>2, <1>4, <2>2, <2>4, <3>1, SMTT(30)
  <2>6. Len(sent') + Sending' + HasKey' + Open'
          <= Len(typed') + Len(moved')
    <3>1. Len(sent) + 1 + Open <= Len(typed) + Len(moved)
      BY <1>t, <1>2, <1>4, <2>2, SMTT(30)
    <3> QED BY <1>t, <1>s, <1>4, <2>4, <3>1, SMTT(30)
  <2> QED BY <1>3, <2>5, <2>6, SMTT(30) DEF EventCounts
<1>6. CASE drv.irq = 12
  <2>1. obuf.dev = "mouse" /\ HasKey = 0 /\ HasMove = 1
    BY <1>6, SMTT(30) DEF Device2, One, HasKey, HasMove
  <2>2. Open = 1
    BY <2>1 DEF Packet, One, Open
  <2>3. Got + 1 + Len(mouse) = 3
    BY <1>t, <1>2, <2>1, <2>2, SMTT(30)
  <2>4. drv' = irq12(drv, obuf.byte)
    BY <1>1, <1>6, SMTT(30)
  <2>5. CASE Got + 1 < 3
    <3>1. drv'.pc = "recv" /\ drv'.packet = Append(drv.packet, obuf.byte)
      BY <1>0, <2>4, <2>5, MouseRead, ZenonT(30) DEF Got
    <3>2. Got' = Got + 1 /\ drv'.packet # <<>>
      <4> DEFINE k == drv.packet
                 l == drv'.packet
      <4>1. IsSeq(k) /\ l = Append(k, obuf.byte)
        BY <1>0, <3>1, SMTT(30)
      <4>2. Got = Len(k) /\ Got' = Len(l)
        BY SMTT(30) DEF Got
      <4> HIDE DEF k, l
      <4>3. Len(l) = Len(k) + 1 /\ l # <<>>
        BY <4>1, AppendFacts, SMTT(30)
      <4> QED BY <4>2, <4>3, SMTT(30) DEF l
    <3>3. Open' = 1 /\ Sending' = 0
      BY <3>1, <3>2, SMTT(30) DEF Packet, One, Open, Sending
    <3>4. Got' < 3
          /\ Got' + HasMove' + Len(mouse') = 3 * Open'
      <4>1. Len(mouse') = Len(mouse)
        BY <1>1, SMTT(30)
      <4> QED BY <1>t, <1>4, <2>3, <2>5, <3>2, <3>3, <4>1, SMTT(30)
    <3>5. Len(sent') + Sending' + HasKey' + Open'
            <= Len(typed') + Len(moved')
      <4>1. Len(sent) + 1 <= Len(typed) + Len(moved)
        BY <1>t, <1>2, <1>4, <2>1, <2>2, SMTT(30)
      <4> QED BY <1>t, <1>s, <1>4, <3>3, <4>1, SMTT(30)
    <3> QED BY <1>3, <3>4, <3>5 DEF EventCounts
  <2>6. CASE ~(Got + 1 < 3)
    <3>1. drv'.pc = "send" /\ drv'.packet = <<>>
      BY <1>0, <2>4, <2>6, MouseRead, ZenonT(30) DEF Got
    <3>2. Len(mouse) = 0 /\ mouse = <<>> /\ Got' = 0
      <4>1. Len(mouse) = 0
        BY <1>t, <2>3, <2>6, SMTT(30)
      <4>2. mouse = <<>>
        BY <4>1, Lengths, SMTT(30)
      <4>3. Len(<<>>) = 0
        BY SMTT(30)
      <4>4. Got' = 0
        BY <3>1, <4>3 DEF Got
      <4> QED BY <4>1, <4>2, <4>4, SMTT(30)
    <3>3. Open' = 0 /\ Sending' = 1
      BY <1>1, <3>1, <3>2, ZenonT(30) DEF Packet, One, None, Open, Sending
    <3>4. Got' < 3
          /\ Got' + HasMove' + Len(mouse') = 3 * Open'
      <4>1. Len(mouse') = 0
        BY <1>1, <3>2, SMTT(30)
      <4> QED BY <1>4, <3>2, <3>3, <4>1, SMTT(30)
    <3>5. Len(sent') + Sending' + HasKey' + Open'
            <= Len(typed') + Len(moved')
      <4>1. Len(sent) + 1 <= Len(typed) + Len(moved)
        BY <1>t, <1>2, <1>4, <2>1, <2>2
      <4> QED BY <1>t, <1>s, <1>4, <3>3, <4>1, SMTT(30)
    <3> QED BY <1>3, <3>4, <3>5 DEF EventCounts
  <2> QED BY <2>5, <2>6
<1> QED BY <1>5, <1>6, SMTT(30)

(* Every step keeps the count of bytes and packets.                        *)
LEMMA EventCountsStep ==
    ASSUME Bases, Lines, EventCounts, [Next]_vars
    PROVE  EventCounts'
<1>0. UNCHANGED setup /\ DriverShapes
  BY SetUpStep, SMTT(30) DEF Bases, Shapes
<1>b. ASSUME UNCHANGED <<devices, sent>>, drv'.packet = drv.packet,
             drv'.pc = "send" <=> drv.pc = "send"
      PROVE  EventCounts'
  <2>1. /\ UNCHANGED <<obuf, mouse, typed, moved, sent>>
        /\ (Packet' <=> Packet) /\ Sending' = Sending
    BY <1>b DEF devices, Packet, One, Sending
  <2>2. Open' = Open
    BY <2>1, SMTT(30) DEF One, Open
  <2>3. Got' = Got /\ HasKey' = HasKey /\ HasMove' = HasMove
    BY <1>b, <2>1, SMTT(30) DEF Got, HasKey, HasMove
  <2>4. Len(sent') = Len(sent) /\ Len(typed') = Len(typed) /\ Len(moved') = Len(moved) /\ Len(mouse') = Len(mouse)
    BY <2>1
  <2> QED BY <2>1, <2>2, <2>3, <2>4, SMTT(30) DEF EventCounts
<1>c. UNCHANGED ps2vars => EventCounts'
  BY <1>b, SMTT(30) DEF ps2vars, driver
<1>1. CASE Controller \/ Timer \/ Interrupt \/ Exception \/ OtherTask \/ SysReady \/ UNCHANGED vars
  BY <1>1, <1>c, SMTT(30) DEF Controller, Timer, Interrupt, Exception, OtherTask, MountFs, UiStarts, UiDispatch,
                    SysReady, vars
<1>2. CASE Device
  BY <1>2, KeyCounts, MouseCounts, SMTT(30) DEF Device
<1>3. CASE Recv
  <2>1. drv'.packet = drv.packet /\ drv'.pc \in {"ack", "recv"}
    BY <1>0, <1>3, RecvTakes
  <2>2. drv.pc = "recv" /\ UNCHANGED <<devices, sent>>
    BY <1>3 DEF Recv, Driving
  <2> QED BY <1>b, <2>1, <2>2, SMTT(30)
<1>4. CASE Ack
  <2>1. drv' = DrvOf("read", drv.irq, drv.prefix, drv.hist, drv.packet, drv.event)
    BY <1>0, <1>4, DriverTurns, SMTT(30)
  <2>2. drv'.pc = "read" /\ drv'.packet = drv.packet
    BY <2>1 DEF DrvOf
  <2>3. drv.pc = "ack" /\ UNCHANGED <<devices, sent>>
    BY <1>4 DEF Ack, Driving
  <2> QED BY <1>b, <2>2, <2>3, SMTT(30)
<1>5. CASE Read \/ PollEnds
  <2>1. Read /\ obuf.dev = Device2(drv.irq) /\ drv.irq \in {1, 12}
    BY <1>0, <1>5, ReadServes
  <2> QED BY <2>1, ReadCounts
<1>6. CASE SendEvent
  <2>1. drv' = DrvOf("recv", drv.irq, drv.prefix, drv.hist, drv.packet, <<>>)
    BY <1>0, <1>6, DriverTurns, ZenonT(30)
  <2>2. drv'.pc = "recv" /\ drv'.packet = drv.packet
    BY <2>1 DEF DrvOf
  <2>3. /\ drv.pc = "send" /\ UNCHANGED <<obuf, mouse, typed, moved>>
        /\ sent' = Append(sent, drv.event)
    BY <1>6 DEF SendEvent, Driving, devices
  <2>4. Len(sent') = Len(sent) + 1
    BY <2>3, Lengths, AppendFacts, ZenonT(30)
  <2>5. Packet' <=> Packet
    BY <2>2, <2>3, SMTT(30) DEF Packet
  <2>6. /\ Open' = Open /\ Open \in Nat
        /\ HasKey' = HasKey /\ HasKey \in Nat
        /\ Sending = 1 /\ Sending' = 0
    BY <2>2, <2>3, <2>5 DEF One, Open, HasKey, Sending
  <2>7. Len(sent) + Sending + HasKey + Open
          <= Len(typed) + Len(moved)
    BY DEF EventCounts
  <2>8. Len(sent') + Sending' + HasKey' + Open'
          <= Len(typed') + Len(moved')
    <3>1. /\ Len(sent) \in Nat /\ Len(typed) \in Nat /\ Len(moved) \in Nat
      BY Lengths
    <3>2. Len(sent) + 1 + HasKey + Open <= Len(typed) + Len(moved)
      BY <2>6, <2>7
    <3>3. Len(typed') = Len(typed) /\ Len(moved') = Len(moved)
      BY <2>3
    <3> QED BY <2>4, <2>6, <3>1, <3>2, <3>3, SMTT(30)
  <2>9. Got' < 3
        /\ Got' + HasMove' + Len(mouse') = 3 * Open'
    <3>1. Got' = Got /\ HasMove' = HasMove /\ Len(mouse') = Len(mouse)
      BY <2>2, <2>3 DEF Got, HasMove
    <3> QED BY <2>6, <3>1 DEF EventCounts
  <2>10. Len(typed') + Len(moved') = 0 \/ Within(Len(typed'), Len(moved'))
    BY <2>3 DEF EventCounts
  <2> QED BY <2>8, <2>9, <2>10 DEF EventCounts
<1>7. CASE DriverBlocks \/ Reset
  BY <1>7, <1>c, SMTT(30) DEF DriverBlocks, Reset
<1> QED BY <1>1, <1>2, <1>3, <1>4, <1>5, <1>6, <1>7, SMTT(30) DEF Next, DriverStep

(* A byte that a line announces is one for which no event has been sent.   *)
LEMMA ToldIsByte ==
    ASSUME Bases, Lines, EventCounts, phase = "ready"
    PROVE  /\ \A l \in {1, 12} : l \in pic.irr => ~Told(1) /\ ~Told(12)
           /\ Telling \/ 1 \in pic.irr \/ 12 \in pic.irr => Len(sent) + 1 <= Len(typed) + Len(moved)
<1>1. Announced(1) /\ Announced(12)
  BY SMTT(30) DEF Lines
<1>2. \A l \in {1, 12} : Told(l) \/ l \in pic.irr => obuf.dev = Device2(l)
  <2> HIDE DEF Told, Doing
  <2> QED BY <1>1, SMTT(30) DEF Announced
<1>3. \A l \in {1, 12} : l \in pic.irr => ~Told(l)
  <2> HIDE DEF Told, Doing
  <2> QED BY <1>1 DEF Announced
<1>4. Device2(1) = "kbd" /\ Device2(12) = "mouse"
  BY DEF Device2
<1>5. \A l \in {1, 12} : l \in pic.irr => ~Told(1) /\ ~Told(12)
  <2> HIDE DEF Told
  <2> QED BY <1>2, <1>3, <1>4, SMTT(30)
<1>6. Telling \/ 1 \in pic.irr \/ 12 \in pic.irr => obuf.dev \in {"kbd", "mouse"}
  <2> HIDE DEF Told
  <2> QED BY <1>2, <1>4 DEF Telling
<1>7. obuf.dev \in {"kbd", "mouse"} => HasKey + Open >= 1
  BY DEF One, Packet, Open, HasKey
<1>8. HasKey \in Nat /\ Open \in Nat /\ Sending \in Nat
  BY DEF One, Open, HasKey, Sending
<1>9. Len(sent) + Sending + HasKey + Open
          <= Len(typed) + Len(moved)
  BY DEF EventCounts
<1>10. obuf.dev \in {"kbd", "mouse"} => Len(sent) + 1 <= Len(typed) + Len(moved)
  <2>1. Len(sent) \in Nat /\ Len(typed) \in Nat /\ Len(moved) \in Nat
    BY Lengths
  <2> QED BY <1>7, <1>8, <1>9, <2>1, SMTT(30)
<1> QED BY <1>5, <1>6, <1>10, SMTT(30)

(* Places for a message of each byte and each packet.                      *)
RoomForAcks == \A b \in Bounds : b[1] + b[2] < MqCap

(* Then no message to the driver finds its queue full.                     *)
LEMMA RoomIsThere ==
    ASSUME Bases, Lines, EventCounts, MessageCounts, RoomForAcks, Interrupt \/ UiDispatch
    PROVE  Len(mq[Driver]) < MqCap
<1>0. phase = "ready" /\ SetUp /\ Shapes
  BY Zenon DEF Bases, Interrupt, isr_irq_master, isr_irq_slave, isr_irq_apic, IrqStub, UiDispatch, Interfacing
<1> DEFINE e == OfFs
           t == OfLine
<1>1. ForDriver + ForUi <= Len(sent) + e + t
  BY <1>0 DEF MessageCounts, Waiting, Owed
<1>2. e \in {0, 1} /\ t \in {0, 1}
  BY DEF One, OfFs, OfLine
<1> HIDE DEF e, t
<1> DEFINE n == Len(typed) + Len(moved)
<1>3. n \in Nat /\ n < MqCap
  <2>1. CASE Len(typed) + Len(moved) = 0
    BY <2>1, IsrAssumption
  <2>2. CASE Within(Len(typed), Len(moved))
    <3>1. PICK b \in Bounds : Len(typed) <= b[1] /\ Len(moved) <= b[2]
      BY <2>2 DEF Within
    <3>2. b[1] \in Nat /\ b[2] \in Nat
      BY Ps2Assumption
    <3>3. b[1] + b[2] < MqCap
      BY DEF RoomForAcks
    <3>4. MqCap \in Nat /\ Len(typed) \in Nat /\ Len(moved) \in Nat
      BY Lengths, IsrAssumption, ZenonT(30)
    <3> QED BY <3>1, <3>2, <3>3, <3>4
  <2> QED BY <2>1, <2>2 DEF EventCounts
<1>4. /\ \A l \in {1, 12} : l \in pic.irr => ~Told(1) /\ ~Told(12)
      /\ Telling \/ 1 \in pic.irr \/ 12 \in pic.irr => Len(sent) + 1 <= n
  BY <1>0, ToldIsByte
<1>5. Len(sent) <= n
  <2>1. Len(sent) + Sending + HasKey + Open <= n
    BY DEF EventCounts
  <2>2. HasKey \in Nat /\ Open \in Nat /\ Sending \in Nat
    BY DEF One, Open, HasKey, Sending
  <2> HIDE DEF n
  <2>3. Len(sent) \in Nat
    BY Lengths, ZenonT(30)
  <2> QED BY <1>3, <2>1, <2>2, <2>3
<1>a. MqCap \in Nat /\ ForDriver \in Nat /\ ForUi \in Nat /\ Len(sent) \in Nat
  BY Lengths, IsrAssumption, Zenon DEF ForDriver, ForUi
<1> HIDE DEF n
<1>6. CASE Interrupt
  <2>1. PICK l \in DeviceLines : isr_irq_master(l) \/ isr_irq_slave(l) \/ isr_irq_apic(l)
    BY <1>6 DEF Interrupt
  <2>2. PICK p : IrqStub(l, p)
    BY <1>0, <2>1, LineServed, ZenonT(30)
  <2>3. l \in pic.irr /\ l # tmrirq
    BY <2>2, ZenonT(30) DEF IrqStub, Deliverable, Pending
  <2>4. l \in {1, 12}
    BY <2>3, ZenonT(30) DEF Lines
  <2>5. ~Telling /\ Len(sent) + 1 <= n
    BY <1>4, <2>3, <2>4 DEF Telling
  <2>6. t = 0
    BY <2>5 DEF One, OfLine, t
  <2>7. ForDriver < MqCap
    BY <1>1, <1>2, <1>3, <1>a, <2>5, <2>6, SMTT(30)
  <2> QED BY <2>7 DEF ForDriver
<1>7. CASE UiDispatch
  <2>1. ForUi >= 1
    <3>1. mq[UI] # <<>>
      BY <1>7, ZenonT(30) DEF UiDispatch, Interfacing
    <3>2. ForUi # 0
      BY <3>1, Lengths, ZenonT(30) DEF ForUi
    <3> QED BY <1>a, <3>2
  <2>2. Len(sent) + t <= n
    <3>1. t = 0 \/ Telling
      BY DEF One, OfLine, t
    <3> QED BY <1>2, <1>3, <1>4, <1>5, <1>a, <3>1, SMTT(30)
  <2>3. ForDriver < MqCap
    BY <1>1, <1>2, <1>3, <1>a, <2>1, <2>2, SMTT(30)
  <2> QED BY <2>3 DEF ForDriver
<1> QED BY <1>6, <1>7

(* The counts are numbers, before and after a step.                        *)
LEMMA CountTypes ==
    ASSUME Bases, Bases'
    PROVE  /\ ForDriver \in Nat /\ ForUi \in Nat /\ Len(sent) \in Nat
           /\ ForDriver' \in Nat /\ ForUi' \in Nat /\ Len(sent') \in Nat
           /\ OfFs \in Nat /\ OfLine \in Nat
           /\ OfFs' \in Nat /\ OfLine' \in Nat
<1>1. /\ OfFs \in Nat /\ OfLine \in Nat
      /\ OfFs' \in Nat /\ OfLine' \in Nat
  BY DEF One, OfFs, OfLine
<1>2. ForDriver' \in Nat /\ ForUi' \in Nat /\ Len(sent') \in Nat
  <2>1. IsSeq(mq'[Driver]) /\ IsSeq(mq'[UI]) /\ IsSeq(sent')
    BY TaskNames, SMTT(30) DEF Bases, Shapes, TaskShapes, DriverShapes
  <2> QED BY <2>1, SeqFacts, SMTT(30) DEF ForDriver, ForUi
<1>3. ForDriver \in Nat /\ ForUi \in Nat /\ Len(sent) \in Nat
  BY Lengths DEF ForDriver, ForUi
<1> QED BY <1>1, <1>2, <1>3, Zenon

(* What has to hold after a step.                                          *)
LEMMA CountFrom ==
    ASSUME phase' \notin {"calibrate", "boot"},
           ForDriver' + ForUi' <= Len(sent') + OfFs' + OfLine'
    PROVE  MessageCounts'
BY DEF MessageCounts, Waiting, Owed

(* A queue with a message more, and with one less.                         *)
LEMMA QueueLengths ==
    ASSUME Bases, NEW m
    PROVE  /\ Len(ksend(mq[UI], m)) <= Len(mq[UI]) + 1 /\ Len(ksend(mq[UI], m)) \in Nat
           /\ mq[UI] # <<>> => Len(Tail(mq[UI])) = Len(mq[UI]) - 1
           /\ mq[Driver] # <<>> => Len(Tail(mq[Driver])) = Len(mq[Driver]) - 1
           /\ Len(Append(mq[Driver], m)) = Len(mq[Driver]) + 1
<1>1. IsSeq(mq[UI]) /\ IsSeq(mq[Driver])
  BY Lengths
<1>2. IsSeq(ksend(mq[UI], m)) /\ Len(ksend(mq[UI], m)) <= Len(mq[UI]) + 1
  BY <1>1, KsendFacts
<1>3. Len(ksend(mq[UI], m)) \in Nat
  BY <1>2, SeqFacts
<1> QED BY <1>1, <1>2, <1>3, TailFacts, AppendFacts, SMTT(30)

(* Every step keeps the count of messages.                                 *)
LEMMA MessageCountsStep ==
    ASSUME Bases, Bases', Wired, Lines, EventCounts, MessageCounts, RoomForAcks, [Next]_vars
    PROVE  MessageCounts'
<1>0. SetUp /\ Shapes /\ UNCHANGED setup /\ Queues(mq)
  BY SetUpStep DEF Bases, Shapes, TaskShapes, Queues
<1>n. /\ ForDriver \in Nat /\ ForUi \in Nat /\ Len(sent) \in Nat
      /\ ForDriver' \in Nat /\ ForUi' \in Nat /\ Len(sent') \in Nat
      /\ OfFs \in Nat /\ OfLine \in Nat
      /\ OfFs' \in Nat /\ OfLine' \in Nat
  BY CountTypes
<1>w. phase = "ready" => ForDriver + ForUi <= Len(sent) + OfFs + OfLine
  BY DEF MessageCounts, Waiting, Owed
<1>b. ASSUME UNCHANGED <<mq, sent, mounted>>,
             phase' = phase \/ phase' \notin {"calibrate", "boot", "ready"}
                \/ (phase = "calibrate" /\ phase' = "boot")
      PROVE  MessageCounts'
  <2>1. Telling' <=> Telling
    BY <1>b DEF Telling, Told
  <2>2. OfLine' = OfLine
    BY <2>1 DEF One, OfLine
  <2>3. Waiting' = Waiting /\ Owed' = Owed
    BY <1>b, <2>2, SMTT(30) DEF Waiting, Owed, ForDriver, ForUi, OfFs
  <2> QED BY <1>b, <2>3 DEF MessageCounts
<1>c. ASSUME NEW q, mq' = [mq EXCEPT ![UI] = q]
      PROVE  mq'[UI] = q /\ mq'[Driver] = mq[Driver] /\ OfLine' = OfLine
  <2>1. mq'[UI] = q /\ mq'[Driver] = mq[Driver]
    BY <1>0, <1>c, TaskNames, SMTT(30) DEF Queues
  <2>2. Telling' <=> Telling
    BY <2>1 DEF Telling, Told
  <2> QED BY <2>1, <2>2 DEF One, OfLine
<1>1. CASE Controller \/ Timer
  <2>1. UNCHANGED <<mq, sent, mounted>> /\ (phase' = phase \/ (phase = "calibrate" /\ phase' = "boot"))
    BY <1>1 DEF Controller, Timer, TimerFires, CalTick, CalLoop, CalDone, isr_irqtmr, isr_irqtmr_rtc,
                tasks, ps2vars, driver
  <2> QED BY <1>b, <2>1
<1>2. CASE Exception \/ UNCHANGED vars
  <2>1. UNCHANGED <<mq, sent, mounted>> /\ phase' \in {phase, "panic"}
    BY <1>2, Zenon DEF Exception, Fault, isr_exc_pic, isr_exce_pic, isr_exc_apic, isr_exce_apic, ExcStub,
                FaultInCore, Handled, ps2vars, driver, vars, isrvars
  <2> QED BY <1>b, <2>1, SMTT(30)
<1>3. CASE Device
  <2>1. UNCHANGED <<mq, sent, mounted, phase>>
    BY <1>3, Zenon DEF Device, KeyByte, MouseByte, tasks, driver
  <2> QED BY <1>b, <2>1, SMTT(30)
<1>4. CASE Interrupt
  <2>1. PICK l \in DeviceLines : isr_irq_master(l) \/ isr_irq_slave(l) \/ isr_irq_apic(l)
    BY <1>4 DEF Interrupt
  <2>2. Len(mq[Driver]) < MqCap /\ UNCHANGED <<ps2vars, mounted>>
    BY <1>4, RoomIsThere, SMTT(30) DEF Interrupt
  <2>3. /\ l \in {1, 12} /\ l \in pic.irr /\ phase = "ready" /\ phase' = phase
        /\ mq' = [mq EXCEPT ![Driver] = Append(mq[Driver], <<"irq", l>>)]
    BY <1>0, <2>1, <2>2, StubTells, SMTT(30)
  <2> DEFINE x == <<"irq", l>>
             q == Append(mq[Driver], x)
  <2>4. Len(q) = Len(mq[Driver]) + 1 /\ x \in Range(q)
    BY Lengths, AppendFacts, AppendRange, SMTT(30)
  <2>5. mq' = [mq EXCEPT ![Driver] = q]
    BY <2>3
  <2>6. x = <<"irq", l>>
    OBVIOUS
  <2> HIDE DEF q, x
  <2>7. mq'[Driver] = q /\ mq'[UI] = mq[UI]
    BY <1>0, <2>5, TaskNames, SMTT(30) DEF Queues
  <2>8. Telling' /\ ~Telling
    <3>1. Told(l)'
      BY <2>4, <2>6, <2>7, SMTT(30) DEF Told, Tells
    <3>2. ~Told(1) /\ ~Told(12)
      BY <2>3, ToldIsByte, SMTT(30)
    <3> QED BY <2>3, <3>1, <3>2, SMTT(30) DEF Telling
  <2>9. OfLine' = 1 /\ OfLine = 0 /\ sent' = sent /\ mounted' = mounted
    BY <2>2, <2>8, SMTT(30) DEF One, OfLine, ps2vars, driver
  <2>10. ForDriver' = ForDriver + 1 /\ ForUi' = ForUi
    BY <2>4, <2>7, SMTT(30) DEF ForDriver, ForUi
  <2>11. /\ OfFs' = OfFs /\ Len(sent') = Len(sent)
         /\ ForDriver + ForUi <= Len(sent) + OfFs + OfLine
    BY <1>w, <2>3, <2>9, SMTT(30) DEF OfFs
  <2>12. ForDriver' + ForUi' <= Len(sent') + OfFs' + OfLine'
    BY <1>n, <2>9, <2>10, <2>11, SMTT(30)
  <2> QED BY <2>3, <2>12, CountFrom, SMTT(30)
<1>5. CASE DriverStep
  <2>0. mounted' = mounted
    BY <1>5 DEF DriverStep
  <2>1. CASE DriverBlocks \/ Ack \/ Read \/ PollEnds \/ Reset
    <3>1. UNCHANGED <<mq, sent, mounted>> /\ phase' \in {phase, "reset"}
      BY <2>0, <2>1, SMTT(30) DEF DriverBlocks, Block, Ack, Read, PollEnds, Reset, tasks, ps2vars, driver
    <3> QED BY <1>b, <3>1, SMTT(30)
  <2>2. CASE Recv
    <3>1. /\ mq[Driver] # <<>> /\ mq' = [mq EXCEPT ![Driver] = Tail(mq[Driver])]
      BY <1>0, <2>2, RecvTakes, SMTT(30)
    <3>2. phase = "ready" /\ phase' = phase /\ sent' = sent
      BY <2>2, SMTT(30) DEF Recv, Driving
    <3>3. mq'[Driver] = Tail(mq[Driver]) /\ mq'[UI] = mq[UI]
      BY <1>0, <3>1, TaskNames, SMTT(30) DEF Queues
    <3>4. ForDriver' = ForDriver - 1
      BY <3>1, <3>3, QueueLengths, Zenon DEF ForDriver
    <3>5. OfLine <= 1
      BY DEF One, OfLine
    <3>6. ForUi' = ForUi /\ OfFs' = OfFs /\ Len(sent') = Len(sent)
      BY <2>0, <3>2, <3>3 DEF ForUi, OfFs
    <3>7. ForDriver + ForUi <= Len(sent) + OfFs + OfLine
      BY <1>w, <3>2, SMTT(30)
    <3>8. ForDriver' + ForUi' <= Len(sent') + OfFs' + OfLine'
      BY <1>n, <3>4, <3>5, <3>6, <3>7, SMTT(30)
    <3> QED BY <3>2, <3>8, CountFrom, SMTT(30)
  <2>3. CASE SendEvent
    <3>1. /\ phase = "ready" /\ phase' = phase /\ sent' = Append(sent, drv.event)
          /\ mq' = [mq EXCEPT ![UI] = ksend(mq[UI], drv.event)]
      BY <2>3, SMTT(30) DEF SendEvent, Driving, Send
    <3>2. Len(sent') = Len(sent) + 1
      BY <3>1, Lengths, AppendFacts, SMTT(30)
    <3>3. mq'[UI] = ksend(mq[UI], drv.event) /\ mq'[Driver] = mq[Driver] /\ OfLine' = OfLine
      BY <1>c, <3>1, Zenon
    <3>4. ForUi' <= ForUi + 1
      BY <3>3, QueueLengths DEF ForUi
    <3>5. ForDriver' = ForDriver /\ OfFs' = OfFs
      BY <2>0, <3>3 DEF ForDriver, OfFs
    <3>6. ForDriver + ForUi <= Len(sent) + OfFs + OfLine
      BY <1>w, <3>1, SMTT(30)
    <3>8. OfLine' = OfLine
      BY <3>3
    <3>7. ForDriver' + ForUi' <= Len(sent') + OfFs' + OfLine'
      BY <1>n, <3>2, <3>4, <3>5, <3>6, <3>8, SMTT(30)
    <3> QED BY <3>1, <3>7, CountFrom, SMTT(30)
  <2> QED BY <1>5, <2>1, <2>2, <2>3, SMTT(30) DEF DriverStep
<1>6. CASE OtherTask
  <2>1. CASE (Work \/ Block(Worker) \/ Block(UI)) /\ UNCHANGED <<ps2vars, mounted, ui>>
    <3>1. UNCHANGED <<mq, sent, mounted, phase>>
      BY <2>1, SMTT(30) DEF Work, Block, ps2vars, driver
    <3> QED BY <1>b, <3>1
  <2>2. CASE MountFs
    <3> DEFINE m == <<"ack", 0>>
    <3>1. /\ phase = "ready" /\ phase' = phase /\ sent' = sent /\ ~mounted /\ mounted'
          /\ mq' = [mq EXCEPT ![UI] = ksend(mq[UI], m)]
      BY <2>2 DEF MountFs, Send, ps2vars, driver
    <3> HIDE DEF m
    <3>2. OfFs = 0 /\ OfFs' = 1
      BY <3>1, SMTT(30) DEF One, OfFs
    <3>3. mq'[UI] = ksend(mq[UI], m) /\ mq'[Driver] = mq[Driver] /\ OfLine' = OfLine
      BY <1>c, <3>1, Zenon
    <3>4. ForUi' <= ForUi + 1
      BY <3>3, QueueLengths DEF ForUi
    <3>5. ForDriver' = ForDriver /\ Len(sent') = Len(sent)
      BY <3>1, <3>3 DEF ForDriver
    <3>6. ForDriver + ForUi <= Len(sent) + OfFs + OfLine
      BY <1>w, <3>1, SMTT(30)
    <3>8. OfLine' = OfLine
      BY <3>3, SMTT(30)
    <3>7. ForDriver' + ForUi' <= Len(sent') + OfFs' + OfLine'
      BY <1>n, <3>2, <3>4, <3>5, <3>6, <3>8, SMTT(30)
    <3> QED BY <3>1, <3>7, CountFrom, SMTT(30)
  <2>3. CASE UiStarts
    <3>1. /\ phase = "ready" /\ phase' = phase /\ UNCHANGED <<sent, mounted>> /\ mq[UI] # <<>>
          /\ mq' = [mq EXCEPT ![UI] = Tail(mq[UI])]
      BY <2>3, SMTT(30) DEF UiStarts, Interfacing, ps2vars, driver
    <3>2. mq'[UI] = Tail(mq[UI]) /\ mq'[Driver] = mq[Driver] /\ OfLine' = OfLine
      BY <1>c, <3>1, Zenon
    <3>3. ForUi' = ForUi - 1
      BY <3>1, <3>2, QueueLengths, ZenonT(30) DEF ForUi
    <3>4. ForDriver' <= ForDriver + 1
      <4>1. ForDriver' = ForDriver
        BY <3>2, SMTT(30) DEF ForDriver
      <4> QED BY <1>n, <4>1
    <3>5. /\ OfFs' = OfFs /\ Len(sent') = Len(sent)
          /\ ForDriver + ForUi <= Len(sent) + OfFs + OfLine
      BY <1>w, <3>1, SMTT(30) DEF OfFs
    <3>7. OfLine' = OfLine
      BY <3>2, SMTT(30)
    <3>6. ForDriver' + ForUi' <= Len(sent') + OfFs' + OfLine'
      BY <1>n, <3>3, <3>4, <3>5, <3>7, SMTT(30)
    <3> QED BY <3>1, <3>6, CountFrom, SMTT(30)
  <2>4. CASE UiDispatch
    <3>1. phase = "ready" /\ phase' = phase /\ UNCHANGED <<sent, mounted>>
      BY <2>4, SMTT(30) DEF UiDispatch, Interfacing, ps2vars, driver
    <3>2. Len(mq[Driver]) < MqCap
      BY <2>4, RoomIsThere, SMTT(30)
    <3>3. /\ mq[UI] # <<>> /\ mq'[UI] = Tail(mq[UI])
          /\ mq'[Driver] = mq[Driver] \/ mq'[Driver] = Append(mq[Driver], <<"ack", 0>>)
          /\ \A l \in {1, 12} : Told(l)' <=> Told(l)
      BY <1>0, <2>4, <3>2, DispatchAcks, ZenonT(30)
    <3>4. ForUi' = ForUi - 1
      BY <3>3, QueueLengths, SMTT(30) DEF ForUi
    <3>5. ForDriver' = ForDriver \/ ForDriver' = ForDriver + 1
      BY <3>3, QueueLengths, SMTT(30) DEF ForDriver
    <3>6. Telling' <=> Telling
      <4> HIDE DEF Told
      <4> QED BY <3>3, SMTT(30) DEF Telling
    <3>7. OfLine' = OfLine
      BY <3>6 DEF One, OfLine
    <3>8. ForDriver' <= ForDriver + 1
      BY <1>n, <3>5, SMTT(30)
    <3>9. /\ OfFs' = OfFs /\ Len(sent') = Len(sent)
          /\ ForDriver + ForUi <= Len(sent) + OfFs + OfLine
      BY <1>w, <3>1, SMTT(30) DEF OfFs
    <3>10. ForDriver' + ForUi' <= Len(sent') + OfFs' + OfLine'
      BY <1>n, <3>4, <3>7, <3>8, <3>9, SMTT(30)
    <3> QED BY <3>1, <3>10, CountFrom, SMTT(30)
  <2> QED BY <1>6, <2>1, <2>2, <2>3, <2>4, SMTT(30) DEF OtherTask
<1>7. CASE SysReady
  <2>1. phase = "boot" /\ phase' = "ready" /\ UNCHANGED <<mq, sent, mounted>>
    BY <1>7, SMTT(30) DEF SysReady, ps2vars, driver
  <2>2. mq[UI] = <<>> /\ mq[Driver] = <<>>
    BY <2>1, SMTT(30) DEF MessageCounts, Lines
  <2>3. ForDriver' = 0 /\ ForUi' = 0
    <3>1. mq'[Driver] = <<>> /\ mq'[UI] = <<>> /\ Len(<<>>) = 0
      BY <2>1, <2>2, SMTT(30)
    <3> QED BY <3>1, SMTT(30) DEF ForDriver, ForUi
  <2>4. 0 <= Len(sent') + OfFs' + OfLine'
    BY <1>n, SMTT(30)
  <2>5. ForDriver' + ForUi' = 0
    BY <2>3
  <2> QED BY <2>1, <2>4, <2>5, CountFrom, SMTT(30)
<1> QED BY <1>1, <1>2, <1>3, <1>4, <1>5, <1>6, <1>7, SMTT(30) DEF Next

(* No line is stuck and no byte stranded when the queue of the driver has  *)
(* more places than bytes are typed and packets moved: the messages that   *)
(* wait for the driver are acknowledgements of events it has sent, and one *)
(* for the byte in the controller, of which no event has been sent.        *)
THEOREM NoByteIsLost ==
    ASSUME Wired, RoomForAcks
    PROVE  Spec => []NoLineStuck
<1> DEFINE Inv == Bases /\ Clock /\ Lines /\ EventCounts /\ MessageCounts
<1>1. Init => Inv
  BY BasesInit, ClockInit, LinesInit, CountsInit, SMTT(30)
<1>2. Inv /\ [Next]_vars => Inv'
  <2> SUFFICES ASSUME Inv, [Next]_vars PROVE Inv'
    BY SMTT(30)
  <2>1. Bases' /\ Clock' /\ EventCounts'
    BY BasesStep, ClockStep, EventCountsStep, SMTT(30)
  <2>2. RoomToTell
    BY RoomIsThere DEF RoomToTell
  <2>3. Lines' /\ MessageCounts'
    BY <2>1, <2>2, LinesStep, MessageCountsStep, SMTT(30)
  <2> QED BY <2>1, <2>3, SMTT(30)
<1>3. Inv => NoLineStuck
  BY LinesMove
<1> QED BY <1>1, <1>2, <1>3, PTL DEF Spec

==============================================================================
