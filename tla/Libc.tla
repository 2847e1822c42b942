-------------------------------- MODULE Libc --------------------------------
(***************************************************************************)
(* The C library of a task: its allocator, its calls to other tasks, its   *)
(* sort and its string functions, and the log of the core.  The first two  *)
(* share errno and no other state, so one is run while the other is at     *)
(* rest: allocations before the first call, calls with an empty heap.  A   *)
(* task that sorts or handles strings does nothing else, and the core      *)
(* writes its log before there are tasks.                                  *)
(***************************************************************************)
EXTENDS Heap, Rpc, Qsort, Strings, Syslog

vars == <<heap, rpc, sort, text, log>>

Init == HeapInit /\ RpcInit /\ SortInit /\ TextInit /\ LogInit

NoCalls == \A c \in Clients : cl[c].n = 0

SortRests == sort = NotSorting
TextRests == text = NoText
LogRests == log = NoLog
CallsRest == chunk = <<>> /\ NoCalls

Next == \/ /\ SortRests /\ TextRests /\ LogRests /\ NoCalls
           /\ HeapNext /\ UNCHANGED <<rpc, sort, text, log>>
        \/ /\ SortRests /\ TextRests /\ LogRests /\ chunk = <<>>
           /\ RpcNext /\ UNCHANGED <<heap, sort, text, log>>
        \/ /\ CallsRest /\ TextRests /\ LogRests
           /\ QsortNext /\ UNCHANGED <<heap, rpc, text, log>>
        \/ /\ CallsRest /\ SortRests /\ LogRests
           /\ StringsNext /\ UNCHANGED <<heap, rpc, sort, log>>
        \/ /\ CallsRest /\ SortRests /\ TextRests
           /\ SyslogNext /\ UNCHANGED <<heap, rpc, sort, text>>

Spec == Init /\ [][Next]_vars

\* A task that can run does: the scheduler passes over none (Kernel.tla).
Fairness == /\ \A c \in Clients : WF_vars(ClientStep(c) /\ UNCHANGED <<heap, sort, text, log>>)
            /\ WF_vars(FsStep /\ UNCHANGED <<heap, sort, text, log>>)
            /\ \A d \in Services : WF_vars(Dispatch(d) /\ UNCHANGED <<heap, sort, text, log>>)

FairSpec == Spec /\ Fairness

\* The allocation map has room for its chunks and the arena for their pages;
\* a task waits for an answer or runs, and no queue fills up.
TypeOK ==
    /\ Len(chunk) <= maxchunks
    /\ \A j \in DOMAIN chunk : chunk[j].map \subseteq 0..UNITS - 1 /\ chunk[j].ptr % PAGE = 0
    /\ \A c \in Clients : cl[c].pc \in {"run", "wait"}
    /\ \A d \in Servers : sv[d].pc \in {"recv", "mem", "info", "serve", "answer"}
    /\ \A t \in Tasks : Len(net.mq[t]) <= Cardinality(Clients) + 1

\* The blocks of the program, the bitmaps and the pages of the arena agree; a
\* new block is clean, and cleaning it touches nothing else (bzt_alloc, bzt_free).
HeapSound == TypeOK /\ BitmapExact /\ BlocksApart /\ MappedExactly /\ WritesOwn /\ BlockReady

\* The functions on bytes and text do what string.h says of them (string.S,
\* string.c, libk.S), but for what ComparesRight and SearchesRight leave open.
TextRight == CopiesRight /\ ComparesRight /\ SearchesRight /\ TokensRight
=============================================================================
