-------------------------------- MODULE Fifo --------------------------------
(***************************************************************************)
(* What a message queue of OS/Z promises: a FIFO of at most cap messages.  *)
(* The core never blocks a sender (docs/messages.md): a message that comes *)
(* to a full queue takes the place of the oldest one.                      *)
(***************************************************************************)
EXTENDS Naturals, Sequences

Push(q, m, cap) == Append(IF Len(q) = cap THEN Tail(q) ELSE q, m)
=============================================================================
