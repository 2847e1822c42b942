--------------------------- MODULE MsgRingProofs ---------------------------
(***************************************************************************)
(* Proofs about the message ring, for rings of every size.                 *)
(***************************************************************************)
EXTENDS MsgRing, TLAPS

(* The inductive invariant: the slot SYS_recv has handed out is the one    *)
(* before mq_end, as long as no unread message is lost; ksend writes it    *)
(* only when it makes the ring overflow.                                   *)
IInv ==
    /\ TypeOK
    /\ held # 0 /\ ~lost => mq[held] = got /\ Inc(held) = mq_end

(* The initial state of a new task satisfies the invariant.                *)
LEMMA InitOK == Init => IInv
<1>1. Init => lost \in BOOLEAN
  BY Zenon DEF Init
<1>2. Init => 1 \in Slots
  BY RingAssumption DEF Slots
<1> QED
  BY <1>1, <1>2 DEF Init, IInv, TypeOK

(* Indices wrap inside the ring.                                           *)
LEMMA IncSlots ==
    ASSUME NEW i \in Slots
    PROVE  Inc(i) \in Slots
  BY RingAssumption DEF Inc, Slots

(* ksend and SYS_recv preserve the invariant.                              *)
LEMMA StepOK == IInv /\ [Next]_vars => IInv'
<1> SUFFICES ASSUME IInv, [Next]_vars PROVE IInv'
  OBVIOUS
<1> USE DEF IInv
<1>1. ASSUME NEW m \in Msg, ksend(m) PROVE IInv'
  <2>1. TypeOK'
    BY <1>1, IncSlots DEF TypeOK, ksend
  <2>2. ASSUME held' # 0, ~lost' PROVE mq'[held'] = got' /\ Inc(held') = mq_end'
    <3>1. held' = held /\ got' = got /\ ~lost /\ ~Full /\ mq_end' = mq_end
      BY <1>1, <2>2, Zenon DEF ksend, TypeOK
    <3>2. held # mq_start
      BY <2>2, <3>1, RingAssumption DEF Full, Inc, TypeOK, Slots
    <3> QED BY <1>1, <2>2, <3>1, <3>2 DEF ksend, TypeOK
  <2> QED BY <2>1, <2>2
<1>2. ASSUME recv PROVE IInv'
  <2>1. TypeOK'
    BY <1>2, IncSlots, Zenon DEF TypeOK, recv
  <2> QED BY <1>2, <2>1 DEF recv, TypeOK
<1>3. CASE UNCHANGED vars
  BY <1>3 DEF vars, TypeOK, Inc
<1> QED
  BY <1>1, <1>2, <1>3 DEF Next

(* The indices of ksend and SYS_recv stay inside the ring.                 *)
THEOREM TypeCorrect == Spec => []TypeOK
<1>1. IInv => TypeOK
  BY DEF IInv
<1> QED
  BY <1>1, InitOK, StepOK, PTL DEF Spec

(* The message SYS_recv points to is intact until the ring overflows.      *)
THEOREM HeldStaysIntact == Spec => []HeldIntact
<1>1. IInv => HeldIntact
  BY DEF IInv, HeldIntact
<1> QED
  BY <1>1, InitOK, StepOK, PTL DEF Spec

(* What the unread messages are, slot by slot.                             *)
UnreadOK ==
    /\ Pending \in 0..(mq_size - 2)
    /\ Unread \in Seq(Msg \cup {NoMsg})
    /\ Len(Unread) = Pending
    /\ \A k \in 1..Pending : Unread[k] = mq[Slot(k)]

(* The unread messages form a sequence of Pending messages.                *)
LEMMA UnreadSeq == TypeOK => UnreadOK
<1> SUFFICES ASSUME TypeOK PROVE UnreadOK
  OBVIOUS
<1>1. Pending \in 0..(mq_size - 2)
  BY RingAssumption DEF TypeOK, Slots, Pending
<1>2. \A k \in 1..Pending : Slot(k) \in Slots
  BY RingAssumption DEF TypeOK, Slots, Pending, Slot
<1>3. \A k \in 1..Pending : mq[Slot(k)] \in Msg \cup {NoMsg}
  BY <1>2 DEF TypeOK
<1>4. Unread \in Seq(Msg \cup {NoMsg}) /\ Len(Unread) = Pending
  BY <1>1, <1>3 DEF Unread
<1> QED
  BY <1>1, <1>4 DEF Unread, UnreadOK

(* ... and so they do after a step.                                        *)
LEMMA UnreadSeqNext == TypeOK' => UnreadOK'
  BY UnreadSeq, PTL

(* SYS_recv takes the oldest message out of the FIFO.                      *)
LEMMA RecvRefines ==
    ASSUME TypeOK, TypeOK', recv
    PROVE  Fifo!Recv
<1>1. Pending > 0 /\ Pending' = Pending - 1
  BY RingAssumption DEF recv, TypeOK, Slots, Pending, Inc
<1>2. Slot(1) = mq_end
  BY RingAssumption DEF TypeOK, Slots, Slot
<1>3. \A k \in 1..Pending' : Slot(k)' = Slot(k + 1)
  <2>1. mq_end' = Inc(mq_end) /\ mq_end \in Nat /\ mq_end >= 1 /\ mq_end <= mq_size - 1
    BY RingAssumption DEF recv, TypeOK, Slots
  <2>2. Pending' \in 0..(mq_size - 2)
    BY UnreadSeqNext DEF UnreadOK
  <2> QED BY <2>1, <2>2, RingAssumption DEF Slot, Inc
<1>4. /\ Unread' \in Seq(Msg \cup {NoMsg}) /\ Len(Unread') = Pending'
      /\ \A k \in 1..Pending' : Unread'[k] = mq'[Slot(k)']
  BY UnreadSeqNext DEF UnreadOK
<1>5. /\ Unread \in Seq(Msg \cup {NoMsg}) /\ Len(Unread) = Pending
      /\ \A k \in 1..Pending : Unread[k] = mq[Slot(k)]
      /\ Pending \in Nat
  BY UnreadSeq DEF UnreadOK
<1>6. Head(Unread) = mq[mq_end]
  BY <1>1, <1>2, <1>5
<1>7. \A k \in 1..(Pending - 1) : Unread'[k] = Unread[k + 1]
  BY <1>1, <1>3, <1>4, <1>5 DEF recv
<1>8. Unread' = Tail(Unread)
  BY <1>1, <1>4, <1>5, <1>7
<1> QED
  BY <1>1, <1>5, <1>6, <1>8 DEF Fifo!Recv, recv

(* ksend appends its message, in place of the oldest when the ring is full.*)
LEMMA SendRefines ==
    ASSUME TypeOK, TypeOK', NEW m \in Msg, ksend(m)
    PROVE  Fifo!Send(m)
<1>1. Full <=> Pending = mq_size - 2
  BY RingAssumption DEF TypeOK, Slots, Pending, Full
<1>2. /\ Unread' \in Seq(Msg \cup {NoMsg}) /\ Len(Unread') = Pending'
      /\ \A k \in 1..Pending' : Unread'[k] = mq'[Slot(k)']
  BY UnreadSeqNext DEF UnreadOK
<1>3. /\ Unread \in Seq(Msg \cup {NoMsg}) /\ Len(Unread) = Pending
      /\ \A k \in 1..Pending : Unread[k] = mq[Slot(k)]
      /\ Pending \in 0..(mq_size - 2)
  BY UnreadSeq DEF UnreadOK
<1>4. CASE Full
  <2>1. Pending' = Pending
    BY <1>4, RingAssumption DEF ksend, TypeOK, Slots, Pending, Full, Inc
  <2>2. \A k \in 1..(Pending - 1) : Slot(k)' = Slot(k + 1) /\ Slot(k + 1) # mq_start /\ Slot(k + 1) \in Slots
    BY <1>4, RingAssumption DEF ksend, TypeOK, Slots, Slot, Inc, Pending, Full
  <2>3. \A k \in Nat : k = Pending => Slot(k)' = mq_start
    BY <1>4, RingAssumption DEF ksend, TypeOK, Slots, Slot, Inc, Pending, Full
  <2>4. \A k \in 1..(Pending - 1) : Unread'[k] = Unread[k + 1]
    BY <1>2, <1>3, <2>1, <2>2 DEF ksend, TypeOK
  <2>5. Unread'[Pending] = m
    BY <1>1, <1>2, <1>3, <1>4, <2>1, <2>3, RingAssumption DEF ksend, TypeOK
  <2>6. Unread' = Append(Tail(Unread), m)
    BY <1>1, <1>2, <1>3, <1>4, <2>1, <2>4, <2>5, RingAssumption
  <2> QED BY <1>1, <1>3, <1>4, <2>6 DEF Fifo!Send, Fifo!Push, ksend
<1>5. CASE ~Full
  <2>1. Pending' = Pending + 1
    BY <1>5, RingAssumption DEF ksend, TypeOK, Slots, Pending, Full, Inc
  <2>2. \A k \in 1..Pending : Slot(k)' = Slot(k) /\ Slot(k) # mq_start /\ Slot(k) \in Slots
    BY <1>5, RingAssumption DEF ksend, TypeOK, Slots, Slot, Inc, Pending, Full
  <2>3. \A k \in Nat : k = Pending + 1 => Slot(k)' = mq_start
    BY <1>5, RingAssumption DEF ksend, TypeOK, Slots, Slot, Inc, Pending, Full
  <2>4. \A k \in 1..Pending : Unread'[k] = Unread[k]
    BY <1>2, <1>3, <2>1, <2>2 DEF ksend, TypeOK
  <2>5. Unread'[Pending + 1] = m
    BY <1>2, <1>3, <2>1, <2>3 DEF ksend, TypeOK
  <2>6. Unread' = Append(Unread, m)
    BY <1>2, <1>3, <2>1, <2>4, <2>5
  <2> QED BY <1>1, <1>3, <1>5, <2>6 DEF Fifo!Send, Fifo!Push, ksend
<1> QED
  BY <1>4, <1>5

(* The ring implements the bounded FIFO: this is what entitles Kernel to   *)
(* model the message queues of the tasks as FIFOs of mq_size - 2 messages. *)
THEOREM ImplementsFifo == Spec => RefinesFifo
<1>1. Init => Fifo!Init
  <2> SUFFICES ASSUME Init PROVE Fifo!Init
    OBVIOUS
  <2>1. TypeOK
    BY InitOK DEF IInv
  <2>2. Pending = 0
    BY DEF Init, Pending
  <2>3. Unread = <<>>
    BY <2>1, <2>2, UnreadSeq DEF UnreadOK
  <2> QED BY <2>3 DEF Fifo!Init, Init
<1>2. TypeOK /\ TypeOK' /\ [Next]_vars => [Fifo!Next]_<<Unread, got>>
  <2> SUFFICES ASSUME TypeOK, TypeOK', [Next]_vars PROVE [Fifo!Next]_<<Unread, got>>
    OBVIOUS
  <2>1. CASE UNCHANGED vars
    BY <2>1 DEF vars, Unread, Pending, Slot
  <2> QED BY <2>1, RecvRefines, SendRefines DEF Next, Fifo!Next
<1> QED
  BY <1>1, <1>2, TypeCorrect, PTL DEF Spec, RefinesFifo, Fifo!Spec
=============================================================================
