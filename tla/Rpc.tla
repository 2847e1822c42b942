-------------------------------- MODULE Rpc ---------------------------------
(***************************************************************************)
(* Library calls that are served by other tasks.  A client sends a request *)
(* and takes the next message of its queue as the answer.  FS and the      *)
(* other services take messages and send an ack, or a nack with an errno.  *)
(* Data sent along is mapped into a window of the receiver; results that   *)
(* do not fit a message are copied into the client before the ack.         *)
(*                                                                         *)
(* What FS does for a request is in FsTask.tla, here it has any outcome.   *)
(***************************************************************************)
EXTENDS Integers, Sequences, FiniteSets, SequencesExt

CONSTANTS Clients, Fs, Services,
          Running,    \* services that have a task
          MayCall,    \* <<c, d, f>>: c calls f of d
          Prio, Owner,  \* of the clients
          Acl,        \* Acl[c]: its entries, each with the groups its name begins
                      \* with ("mount", "chroot" or "no" with the service) and its access
          nrmqmax, mq_buffsize, PAGESIZE,
          MaxCalls    \* MaxCalls[c]: bound on the calls of a client

VARIABLES net,  \* mq[t]: the messages waiting for a task; win[t]: mq_buffstart, the
                \* next page of its window; pt[t]: what the pages of its window show
          cl,   \* the clients
          sv    \* FS and the services

rpc == <<net, cl, sv>>

Servers == {Fs} \cup Services
Tasks == Clients \cup Servers
OK == ""
None == <<>>
NoMsg == [evt |-> OK, from |-> Fs, of |-> None, func |-> OK, ptr |-> 0, err |-> OK, val |-> 0, more |-> FALSE]
NoResult == [err |-> OK, val |-> 0, more |-> FALSE]

-----------------------------------------------------------------------------
(***************************************************************************)
(* The wrappers of stdio: the argument they refuse before sending, whether *)
(* data goes along, the value that means an error, and what they return.   *)
(***************************************************************************)
Wrapper(refuses, ptr, fail, gives) == [refuses |-> refuses, ptr |-> ptr, fail |-> fail, gives |-> gives]

chroot    == Wrapper("EINVAL", TRUE, -1, "arg0")
chdir     == Wrapper("EINVAL", TRUE, -1, "arg0")
getcwd    == Wrapper(OK, FALSE, 0, "string")
mount     == Wrapper("EINVAL", TRUE, -1, "arg0")
umount    == Wrapper("EINVAL", TRUE, -1, "arg0")
mknod     == Wrapper("EINVAL", TRUE, -1, "arg0")
dup       == Wrapper(OK, FALSE, -1, "arg0")
dup2      == Wrapper(OK, FALSE, -1, "arg0")
tmpfile   == Wrapper(OK, FALSE, -1, "arg0")
fopen     == Wrapper("EINVAL", TRUE, -1, "arg0")
freopen   == Wrapper("EINVAL", TRUE, -1, "arg0")
fclose    == Wrapper(OK, FALSE, -1, "arg0")
fcloseall == Wrapper(OK, FALSE, -1, "arg0")
fseek     == Wrapper(OK, FALSE, -1, "arg0")
ftell     == Wrapper(OK, FALSE, 0, "arg0")
rewind    == Wrapper(OK, FALSE, 0, "void")
fclrerr   == Wrapper(OK, FALSE, 0, "void")
feof      == Wrapper(OK, FALSE, 0, "arg0")
ferror    == Wrapper(OK, FALSE, 0, "arg0")
fread     == Wrapper("ENOTSHM", FALSE, 0, "arg0")
fwrite    == Wrapper("ENOTSHM", TRUE, 0, "arg0")
lstat     == Wrapper("EINVAL", TRUE, 0, "stat")
dstat     == Wrapper(OK, FALSE, 0, "stat")
fstat     == Wrapper(OK, FALSE, 0, "stat")
realpath  == Wrapper("EINVAL", TRUE, 0, "string")
opendir   == Wrapper("EINVAL", TRUE, -1, "arg0")
readdir   == Wrapper(OK, TRUE, 0, "dirent")
closedir  == Wrapper(OK, FALSE, -1, "arg0")

Stdio == [chroot |-> chroot, chdir |-> chdir, getcwd |-> getcwd, mount |-> mount,
          umount |-> umount, mknod |-> mknod, dup |-> dup, dup2 |-> dup2, tmpfile |-> tmpfile,
          fopen |-> fopen, freopen |-> freopen, fclose |-> fclose, fcloseall |-> fcloseall,
          fseek |-> fseek, ftell |-> ftell, rewind |-> rewind, fclrerr |-> fclrerr,
          feof |-> feof, ferror |-> ferror, fread |-> fread, fwrite |-> fwrite,
          lstat |-> lstat, dstat |-> dstat, fstat |-> fstat, realpath |-> realpath,
          opendir |-> opendir, readdir |-> readdir, closedir |-> closedir]

\* Functions of the other services, and one that is not in the symbol table.
Service == [plain |-> Wrapper(OK, FALSE, 0, "arg0"), data |-> Wrapper(OK, TRUE, 0, "arg0"),
            none |-> Wrapper(OK, FALSE, 0, "arg0")]
Table(d) == IF d = Fs THEN Stdio ELSE Service

-----------------------------------------------------------------------------
(***************************************************************************)
(* Sending, by msg_sends of the core.                                      *)
(***************************************************************************)
\* The first entry whose name begins with grp decides.
task_allowed(c, grp, access) ==
    LET found == {i \in DOMAIN Acl[c] : grp \in Acl[c][i].begins}
    IN  found # {} /\ access \subseteq Acl[c][Min(found)].access

\* The rules for the messages of this module: requests to the core, to the
\* video driver, and mountfs, setblock and devprogress are not among them.
msg_allowed(c, d, e) ==
    IF c \notin Clients \/ Prio[c] = "SYS" THEN TRUE
    ELSE IF d = Fs
    THEN /\ e = "mknod" => Prio[c] \in {"DRV", "SRV"}
         /\ Owner[c] # "root" => /\ e = "chroot" => task_allowed(c, <<"chroot", d>>, {"write"})
                                 /\ e \in {"mount", "umount"} => task_allowed(c, <<"mount", d>>, {"write"})
    ELSE d \in Services => ~ task_allowed(c, <<"no", d>>, {})

\* Why a request is not sent, or OK.
Refusal(c, d, e) == IF d \notin Running THEN "ESRCH" ELSE IF ~ msg_allowed(c, d, e) THEN "EPERM" ELSE OK

BuffStart(b) == IF b \div PAGESIZE + 1 >= nrmqmax + 1 + mq_buffsize THEN (nrmqmax + 1) * PAGESIZE ELSE b

Message(evt, from, of) ==
    [evt |-> evt, from |-> from, of |-> of, func |-> OK, ptr |-> 0, err |-> OK, val |-> 0, more |-> FALSE]

\* m to the queue of t, with a page of the sender in its window if it has
\* data.  There is room in the queue, and the data is neither of the core nor
\* too long for a window.
msg_sends(z, t, m, data) ==
    LET b == BuffStart(z.win[t])
    IN  IF ~ data THEN [z EXCEPT !.mq[t] = Append(@, m)]
        ELSE [mq |-> [z.mq EXCEPT ![t] = Append(@, [m EXCEPT !.ptr = b])],
              win |-> [z.win EXCEPT ![t] = b + 1],
              pt |-> [z.pt EXCEPT ![t] = (b :> <<m.from, m.of>>) @@ @]]

mq_recv(z, t) == [z EXCEPT !.mq[t] = Tail(@)]

-----------------------------------------------------------------------------
(***************************************************************************)
(* The clients.                                                            *)
(***************************************************************************)
Return(k, err, val) == [k EXCEPT !.pc = "run", !.errno = err, !.ret = val]
Failed(k) == Table(k.to)[k.func].fail
Client(c, k) == cl' = [cl EXCEPT ![c] = k]

\* mq_call up to the wait: request e of the call k, which may be refused.
mq_call(c, z, k, e) ==
    LET why == Refusal(c, k.to, e)
        m == [Message("req", c, <<c, k.sn + 1>>) EXCEPT !.func = e]
    IN  IF why # OK THEN net' = z /\ Client(c, Return(k, why, Failed(k)))
        ELSE /\ net' = msg_sends(z, k.to, m, Table(k.to)[e].ptr)
             /\ Client(c, [k EXCEPT !.pc = "wait", !.req = e, !.sn = @ + 1])

\* A new call: what the last one left is forgotten, but for errno and buffers.
Begin(c, d, f) ==
    [cl[c] EXCEPT !.func = f, !.to = d, !.n = @ + 1, !.from = cl[c].sn, !.lost = FALSE,
                  !.req = OK, !.ret = 0, !.given = NoResult]

\* A call with an argument the wrapper refuses.
Refuse(c, d, f) ==
    LET k == Begin(c, d, f)
    IN  /\ cl[c].pc = "run" /\ k.n <= MaxCalls[c] /\ Table(d)[f].refuses # OK
        /\ Client(c, Return(k, Table(d)[f].refuses, Failed(k)))
        /\ UNCHANGED <<net, sv>>

\* The buffer for directory entries is allocated by the first readdir, which
\* then tests errno; malloc clears it only when it asks the core for memory.
Start(c, d, f, cleared) ==
    LET k == [Begin(c, d, f) EXCEPT !.direntbuf = @ \/ f = "readdir"]
        first == f = "readdir" /\ ~ cl[c].direntbuf
        e == IF f = "readdir" THEN "fread" ELSE IF f = "closedir" THEN "fclose" ELSE f
    IN  /\ cl[c].pc = "run" /\ k.n <= MaxCalls[c] /\ (cleared => first)
        /\ IF first /\ ~ cleared /\ k.errno # OK
           THEN Client(c, Return(k, k.errno, 0)) /\ net' = net
           ELSE mq_call(c, net, k, e)
        /\ UNCHANGED sv

\* The next message is taken as the answer.  opendir reads the directory FS
\* asks for and calls again, and frees its buffer before it looks at errno;
\* readdir reads before it calls.
Receive(c, cleared) ==
    LET k == cl[c]
        m == Head(net.mq[c])
        z == mq_recv(net, c)
        end(err) == Return(k, err, IF err # OK THEN Failed(k)
                                   ELSE IF Table(k.to)[k.func].gives = "arg0" THEN m.val ELSE 1)
        more == k.func = "opendir" /\ (m.more \/ (k.req = "fread" /\ m.err = OK))
        read == k.func = "readdir" /\ k.req = "fread" /\ m.err = OK
        freed == k.func = "opendir" /\ k.again /\ ~ more
    IN  /\ k.pc = "wait" /\ net.mq[c] # <<>> /\ (cleared => freed /\ m.err # OK)
        /\ IF more THEN mq_call(c, z, [k EXCEPT !.again = TRUE], IF m.more THEN "fread" ELSE "opendir")
           ELSE IF read /\ m.val # 0 THEN mq_call(c, z, k, "readdir")
           ELSE /\ net' = z
                /\ Client(c, IF read THEN Return(k, OK, 0)
                             ELSE [end(IF cleared THEN OK ELSE m.err) EXCEPT !.lost = cleared, !.again = FALSE])
        /\ UNCHANGED sv

-----------------------------------------------------------------------------
(***************************************************************************)
(* FS and the services.                                                    *)
(***************************************************************************)
Server(d, v) == sv' = [sv EXCEPT ![d] = v]
Waiting(d) == sv[d].pc = "recv" /\ net.mq[d] # <<>>

\* Anything a handler may come to: a value or an errno; for a union with a
\* joker opendir asks for a directory, once (a bound).
Result(err, val, more) == [err |-> err, val |-> val, more |-> more]
Outcomes(m) ==
    IF m.evt # "req" \/ m.func = "none" THEN {Result("EPERM", 0, FALSE)}
    ELSE {Result(OK, 0, FALSE), Result(OK, 1, FALSE), Result("EBADF", 0, FALSE)}
         \cup IF m.func = "opendir" /\ ~ cl[m.from].again THEN {Result(OK, 1, TRUE)} ELSE {}

\* Mutant: a buffer that has been filled is not filled again.
p2pcpy_once(k, m, out) ==
    IF out.err # OK THEN k
    ELSE IF Stdio[m.func].gives = "stat" THEN [k EXCEPT !.stat = IF @ = None THEN m.of ELSE @]
    ELSE IF m.func = "readdir" THEN [k EXCEPT !.dirent = m.of] ELSE k

\* p2pcpy: FS copies the result into the buffer the client gave.
p2pcpy(k, m, out) ==
    IF out.err # OK THEN k
    ELSE IF Stdio[m.func].gives = "stat" THEN [k EXCEPT !.stat = m.of]
    ELSE IF m.func = "readdir" THEN [k EXCEPT !.dirent = m.of]
    ELSE IF m.func = "fread" THEN [k EXCEPT !.dirent = None] ELSE k

Answer(m, d, out) ==
    [Message(IF out.err = OK THEN "ack" ELSE "nack", d, m.of)
        EXCEPT !.err = out.err, !.val = out.val, !.more = out.more]

\* The loop of FS: a message, then meminfo, which has the core send the
\* answer to FS itself and takes the next message of the queue for it.
FsRecv == /\ Waiting(Fs)
          /\ Server(Fs, [sv[Fs] EXCEPT !.pc = "mem", !.msg = Head(net.mq[Fs])])
          /\ net' = mq_recv(net, Fs) /\ UNCHANGED cl

meminfo_ask == /\ sv[Fs].pc = "mem"
               /\ Server(Fs, [sv[Fs] EXCEPT !.pc = "info"])
               /\ net' = msg_sends(net, Fs, Message("ack", Fs, None), FALSE) /\ UNCHANGED cl

meminfo_recv == /\ sv[Fs].pc = "info"
                /\ Server(Fs, [sv[Fs] EXCEPT !.pc = "serve"])
                /\ net' = mq_recv(net, Fs) /\ UNCHANGED cl

\* A handler runs to its result, which it copies to the client.
FsServe ==
    LET m == sv[Fs].msg
    IN  /\ sv[Fs].pc = "serve"
        /\ \E out \in Outcomes(m) :
              /\ Server(Fs, [sv[Fs] EXCEPT !.pc = "answer", !.out = out])
              /\ cl' = IF m.evt # "req" THEN cl
                       ELSE [cl EXCEPT ![m.from] = [p2pcpy(@, m, out) EXCEPT !.given = out]]
        /\ UNCHANGED net

\* getcwd and realpath answer with a string of FS, mapped into the client.
FsAnswer ==
    LET m == sv[Fs].msg
        string == m.evt = "req" /\ sv[Fs].out.err = OK /\ Stdio[m.func].gives = "string"
    IN  /\ sv[Fs].pc = "answer"
        /\ net' = msg_sends(net, m.from, Answer(m, Fs, sv[Fs].out), string)
        /\ Server(Fs, [sv[Fs] EXCEPT !.pc = "recv", !.msg = NoMsg, !.out = NoResult]) /\ UNCHANGED cl

\* Mutant: an unknown function is passed over like an ack.
DispatchRecv_quiet(d) ==
    LET m == Head(net.mq[d])
    IN  /\ Waiting(d)
        /\ net' = mq_recv(net, d) /\ UNCHANGED cl
        /\ Server(d, IF m.evt # "req" \/ m.func = "none" THEN sv[d] ELSE [sv[d] EXCEPT !.pc = "serve", !.msg = m])

\* mq_dispatch: acks and nacks are passed over, a function that is not in the
\* symbol table is answered with EPERM.
DispatchRecv(d) ==
    LET m == Head(net.mq[d])
    IN  /\ Waiting(d)
        /\ net' = mq_recv(net, d) /\ UNCHANGED cl
        /\ Server(d, IF m.evt # "req" THEN sv[d] ELSE [sv[d] EXCEPT !.pc = "serve", !.msg = m])

DispatchCall(d) ==
    /\ sv[d].pc = "serve"
    /\ \E out \in Outcomes(sv[d].msg) :
          /\ Server(d, [sv[d] EXCEPT !.pc = "answer", !.out = out])
          /\ cl' = [cl EXCEPT ![sv[d].msg.from].given = out]
    /\ UNCHANGED net

DispatchAnswer(d) ==
    /\ sv[d].pc = "answer"
    /\ net' = msg_sends(net, sv[d].msg.from, Answer(sv[d].msg, d, sv[d].out), FALSE)
    /\ Server(d, [sv[d] EXCEPT !.pc = "recv", !.msg = NoMsg, !.out = NoResult]) /\ UNCHANGED cl

-----------------------------------------------------------------------------
\* FS has told the services that the file system is ready.
RpcInit ==
    /\ net = [mq |-> [t \in Tasks |-> IF t \in Services \cap Running THEN <<Message("ack", Fs, None)>> ELSE <<>>],
              win |-> [t \in Tasks |-> nrmqmax + 1], pt |-> [t \in Tasks |-> <<>>]]
    /\ cl = [c \in Clients |-> [pc |-> "run", func |-> OK, to |-> Fs, req |-> OK, sn |-> 0, from |-> 0,
                                n |-> 0, errno |-> OK, ret |-> 0, direntbuf |-> FALSE, again |-> FALSE,
                                lost |-> FALSE, stat |-> None, dirent |-> None, given |-> NoResult]]
    /\ sv = [d \in Servers |-> [pc |-> "recv", msg |-> NoMsg, out |-> NoResult]]

ClientStep(c) == \E cleared \in BOOLEAN : Receive(c, cleared)
FsStep == FsRecv \/ meminfo_ask \/ meminfo_recv \/ FsServe \/ FsAnswer
Dispatch(d) == DispatchRecv(d) \/ DispatchCall(d) \/ DispatchAnswer(d)
Call(c) == \E p \in MayCall : /\ p[1] = c
                              /\ \/ Refuse(c, p[2], p[3])
                                 \/ \E cleared \in BOOLEAN : Start(c, p[2], p[3], cleared)

RpcNext == \/ \E c \in Clients : Call(c) \/ ClientStep(c)
           \/ FsStep
           \/ \E d \in Services : Dispatch(d)

-----------------------------------------------------------------------------
\* A client only finds the answer to its own request in its queue, one, and
\* only while it waits: mq_call does not look at what it takes (mq_dispatch,
\* the end of the loop of FS).
AnswersOwn ==
    \A c \in Clients : net.mq[c] # <<>> =>
        cl[c].pc = "wait" /\ Len(net.mq[c]) = 1 /\ net.mq[c][1].of = <<c, cl[c].sn>>

\* The page of a message shows the data of its sender until the message has
\* been dealt with, whatever others send meanwhile (the window of msg_sends).
DataIsMine ==
    \A t \in Tasks :
        LET held == Range(net.mq[t]) \cup IF t \in Servers THEN {sv[t].msg} ELSE {}
        IN  \A m \in held : m.ptr # 0 => net.pt[t][m.ptr] = <<m.from, m.of>>

Done(c) == cl[c].pc = "run" /\ cl[c].n > 0 /\ ~ cl[c].lost

\* A wrapper returns what the server decided for this call, or its own
\* refusal, and errno agrees with it; not for an opendir that had a buffer to
\* free, which may have cleared errno.
ReturnsOwn ==
    \A c \in Clients : Done(c) =>
        LET k == cl[c]
            gives == Table(k.to)[k.func].gives
        IN  IF k.sn = k.from THEN k.errno # OK /\ k.ret = Failed(k)
            ELSE /\ k.errno = k.given.err
                 /\ k.ret = IF k.errno # OK THEN Failed(k)
                            ELSE IF gives = "arg0" \/ k.req = "fread" THEN k.given.val ELSE 1

\* A buffer that stat or readdir returns holds the result of this very call:
\* the copy is there before the ack, and no earlier one is mistaken for it.
ResultFresh ==
    \A c \in Clients : Done(c) /\ cl[c].errno = OK /\ cl[c].ret # 0 =>
        LET k == cl[c]
            gives == Table(k.to)[k.func].gives
        IN  /\ gives = "stat" => k.stat = <<c, k.sn>>
            /\ gives = "dirent" => k.dirent = <<c, k.sn>>

\* Every call returns: the server takes the request from its queue, serves it
\* and answers (mq_call, "send a request and receive result").
CallsReturn == \A c \in Clients : (cl[c].pc = "wait") ~> (cl[c].pc = "run")

\* A call is about its own request from the message to the result (mq_call,
\* msg_sends, p2pcpy and the wrappers of stdio.c).
CallsOwn == AnswersOwn /\ DataIsMine /\ ReturnsOwn /\ ResultFresh
=============================================================================
