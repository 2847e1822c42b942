------------------------------ MODULE MsgFifo ------------------------------
(***************************************************************************)
(* The abstract message queue of one task: what ksend and SYS_recv promise *)
(* to the sender and the receiver.  MsgRing.tla implements it.             *)
(***************************************************************************)
EXTENDS Fifo

CONSTANTS Msg, NoMsg, Cap

VARIABLES
    q,      \* the unread messages, oldest first
    got     \* the message SYS_recv returned last

Init == q = <<>> /\ got = NoMsg

Send(m) == q' = Push(q, m, Cap) /\ got' = got

Recv == q # <<>> /\ got' = Head(q) /\ q' = Tail(q)

Next == Recv \/ \E m \in Msg : Send(m)

Spec == Init /\ [][Next]_<<q, got>>
=============================================================================
