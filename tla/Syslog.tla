------------------------------- MODULE Syslog -------------------------------
(***************************************************************************)
(* The log the core keeps while it starts (src/core/syslog.c), a buffer    *)
(* that is written from its beginning again when there may be no room for  *)
(* another line.  A character is the number of its message; the date and   *)
(* the other fields before a message are one character, Prefix.            *)
(***************************************************************************)
EXTENDS Integers, Sequences

CONSTANTS LogSize,      \* nrlogmax * __PAGESIZE
          Reserve,      \* 256, room for the longest line
          Messages      \* formatted messages, sequences of characters

ASSUME LogAssumption ==
    /\ LogSize \in Nat /\ Reserve \in Nat /\ Reserve < LogSize
    /\ \A m \in Messages : m \in Seq(Nat \ {0}) /\ Len(m) + 2 <= Reserve

VARIABLE log    \* buf, ptr: syslog_buf and syslog_ptr; kept: the lines written
                \* since the buffer was last begun, a history

NL == 10
Prefix == 32

NoLog == [buf |-> [i \in 1..LogSize |-> 0], ptr |-> 1, kept |-> <<>>]

LogInit == log = NoLog

\* Where the text ends, from p on.
AtEnd(buf, p) ==
    CHOOSE e \in p..LogSize : buf[e] = 0 /\ \A i \in p..e - 1 : buf[i] # 0

\* Mutant: no room is kept for the line.
LogStart_full(buf, p) == IF AtEnd(buf, p) >= LogSize THEN 1 ELSE AtEnd(buf, p)

LogStart(buf, p) == IF AtEnd(buf, p) > LogSize - Reserve THEN 1 ELSE AtEnd(buf, p)

\* Newlines at the end of the message are taken back, and one is written.
Line(m) ==
    LET last == CHOOSE n \in 0..Len(m) : /\ n > 0 => m[n] # NL
                                         /\ \A i \in n + 1..Len(m) : m[i] = NL
    IN  <<Prefix>> \o SubSeq(m, 1, last) \o <<NL>>

Written(buf, p, str) ==
    [i \in 1..LogSize |-> IF i \in p..p + Len(str) - 1 THEN str[i - p + 1] ELSE buf[i]]

\* m is what a format became; a call with an empty format does nothing.
syslog_early(m) ==
    \E p \in {LogStart(log.buf, log.ptr)}, line \in {Line(m)} :
        log' = [buf |-> Written(log.buf, p, Append(line, 0)), ptr |-> p + Len(line),
                kept |-> (IF p = 1 THEN <<>> ELSE log.kept) \o line]

SyslogNext == \E m \in Messages : syslog_early(m)

(***************************************************************************)
(* Correctness                                                             *)
(***************************************************************************)

\* What the log reads as, from the beginning of the buffer to the first 0, is
\* the lines of the messages since it began there, whole and in their order,
\* and nothing of the lines that were there before (syslog_early; the console
\* of the core prints it so when the core has stopped).
LogWhole ==
    /\ log.ptr \in 1..LogSize /\ log.buf[log.ptr] = 0
    /\ \A i \in 1..log.ptr - 1 : log.buf[i] # 0
    /\ SubSeq(log.buf, 1, log.ptr - 1) = log.kept
=============================================================================
