------------------------------ MODULE MsgRing ------------------------------
(***************************************************************************)
(* The message queue of one task: a ring of mq_size - 1 slots in the       *)
(* task's address space, written by ksend (src/core/x86_64/libk.S) and     *)
(* read by SYS_recv (src/core/x86_64/isrc.S).  Both run with interrupts    *)
(* disabled.  Slot 0 holds the header (msghdr_t), so indices wrap to 1.    *)
(*                                                                         *)
(* SYS_recv returns the event in registers (got) and a pointer to the slot *)
(* itself (held), which the receiver dereferences while the ring goes on   *)
(* filling: mq_dispatch in libc reads msg->evt and msg->serial from it     *)
(* after the call it serves.                                               *)
(***************************************************************************)
EXTENDS Naturals, Sequences

CONSTANTS
    Msg,        \* messages
    NoMsg,      \* content of a slot that was never written
    mq_size     \* (nrmqmax*__PAGESIZE)/sizeof(msg_t)

ASSUME RingAssumption == mq_size \in Nat /\ mq_size > 2

VARIABLES
    mq_start,   \* the slot ksend writes next
    mq_end,     \* the slot SYS_recv reads next
    mq,         \* the slots
    got,        \* the event of the message received last
    held,       \* the slot it was received from, 0 before the first
    lost        \* an unread message has been lost since then

vars == <<mq_start, mq_end, mq, got, held, lost>>

Slots == 1..(mq_size - 1)

Init ==
    /\ mq_start = 1
    /\ mq_end = 1
    /\ mq = [i \in Slots |-> NoMsg]
    /\ got = NoMsg
    /\ held = 0
    /\ lost = FALSE

(* idx++; if(idx == mq_size) idx = 1;                                      *)
Inc(i) == IF i + 1 = mq_size THEN 1 ELSE i + 1

(* Faulty: the case of the wrapped index is missing.                       *)
Full_unwrapped == mq_start + 1 = mq_end

Full ==
    \/ mq_start + 1 = mq_end
    \/ mq_start + 1 = mq_size /\ mq_end = 1

(* Faulty: the oldest message is not given up.                             *)
ksend_keeps(m) ==
    /\ mq' = [mq EXCEPT ![mq_start] = m]
    /\ mq_start' = Inc(mq_start)
    /\ lost' = (lost \/ Full)
    /\ UNCHANGED <<mq_end, got, held>>

ksend(m) ==
    /\ mq_end' = IF Full THEN Inc(mq_end) ELSE mq_end
    /\ mq' = [mq EXCEPT ![mq_start] = m]
    /\ mq_start' = Inc(mq_start)
    /\ lost' = (lost \/ Full)
    /\ UNCHANGED <<got, held>>

recv ==
    /\ mq_end # mq_start
    /\ got' = mq[mq_end]
    /\ held' = mq_end
    /\ mq_end' = Inc(mq_end)
    /\ lost' = FALSE
    /\ UNCHANGED <<mq_start, mq>>

Next == recv \/ \E m \in Msg : ksend(m)

Spec == Init /\ [][Next]_vars

(***************************************************************************)
(* Correctness                                                             *)
(***************************************************************************)

(* The indices stay inside the ring and never reach the header in slot 0   *)
(* or the slot past the end (the wrapping in ksend and isr_syscall).       *)
TypeOK ==
    /\ mq_start \in Slots
    /\ mq_end \in Slots
    /\ mq \in [Slots -> Msg \cup {NoMsg}]
    /\ got \in Msg \cup {NoMsg}
    /\ held \in Slots \cup {0}
    /\ lost \in BOOLEAN

(* The unread messages: the slots from mq_end up to mq_start.              *)
Pending ==
    IF mq_start >= mq_end THEN mq_start - mq_end
    ELSE mq_start - mq_end + (mq_size - 1)

Slot(k) ==
    IF mq_end + (k - 1) < mq_size THEN mq_end + (k - 1)
    ELSE mq_end + (k - 1) - (mq_size - 1)

Unread == [k \in 1..Pending |-> mq[Slot(k)]]

Fifo == INSTANCE MsgFifo WITH q <- Unread, got <- got, Cap <- mq_size - 2

(* The ring behaves as a FIFO that holds mq_size - 2 messages and replaces *)
(* the oldest when it is full (ksend, SYS_recv).                           *)
RefinesFifo == Fifo!Spec

(* The message SYS_recv points its caller to stays what it was received as *)
(* until the ring overflows: a send that loses no message does not write   *)
(* the slot either.                                                        *)
HeldIntact ==
    held # 0 /\ ~lost => mq[held] = got
=============================================================================
