------------------------------- MODULE FsTask -------------------------------
(***************************************************************************)
(* The FS task: one message after another is taken from its queue and      *)
(* served.  A request that needs a block which is not in the cache is kept *)
(* in the context of its task, and served again from its start when the    *)
(* driver sends a block for that task.                                     *)
(*                                                                         *)
(* The queue holds no other message when one is taken: FS calls meminfo    *)
(* before it serves a message, and that loses the next one (Rpc.tla).      *)
(*                                                                         *)
(* External: the tasks, whose library calls wait for the answer, and the   *)
(* drivers of block devices, which are not part of the tree.               *)
(***************************************************************************)
EXTENDS TaskCtx

CONSTANTS Scenarios,  \* [pre, calls, low, max]: the steps taken before, and the requests
          Super,      \* Super[name]: the superblock of a device at start
          RamBlocks   \* number of blocks of the ramdisk at start

VARIABLES s,     \* the memory of the FS task
          wait,  \* wait[pid]: the request a task waits for, or NoMsg
          drv,   \* the messages drivers have to answer, in order
          n,     \* requests so far
          scn    \* the scenario

vars == <<s, wait, drv, n, scn>>

mtab_init(z) == fcb_add(z, <<"">>, "dir")
devfs_init(z) ==
    LET dev(name, mode, cnt) == [name |-> name, mode |-> mode, cnt |-> cnt]
        add(t, d) == devfs_add(t, d.name, MEMFS_MAJOR, d.mode, Super["root"].bs, d.cnt)
    IN  FoldLeft(add, fcb_add(z, <<"dev", "">>, "dir"),
                 <<dev("zero", {"r"}, 1), dev("root", {"r", "w"}, RamBlocks),
                   dev("random", {"r"}, 1), dev("null", {"w"}, 0)>>)

Boot ==
    LET empty == [fcb |-> [f \in 0..MaxFcb - 1 |-> Blank], nfcb |-> 0, nfiles |-> 0,
                  dev |-> <<>>, mtab |-> <<>>, rootmounted |-> FALSE,
                  tc |-> [b \in {Bucket[p] : p \in Pids} |-> NoTc],
                  cache |-> [j \in 0..cachelines - 1 |-> Chain(<<>>, FALSE)],
                  inflush |-> 0, nomem |-> FALSE, sb |-> Super, mode |-> "run",
                  ctx |-> None, ackdelayed |-> FALSE, err |-> "", ret |-> 0, blk |-> None,
                  skip |-> 0, to |-> NULL, loc |-> [status |-> "NONE"], list |-> <<>>,
                  out |-> <<>>, got |-> {}, cont |-> FALSE]
    IN  devfs_init(mtab_init(empty))

\* What is left of a step: results and registers are forgotten.
Rest(z) == [z EXCEPT !.ackdelayed = FALSE, !.err = "", !.ret = 0, !.blk = None,
                     !.skip = 0, !.to = NULL, !.loc = [status |-> "NONE"], !.list = <<>>,
                     !.cont = FALSE]

-----------------------------------------------------------------------------
(***************************************************************************)
(* The handlers.  A handler that ends in "continue" sets s.cont: it leaves *)
(* without the answer the others end with.                                 *)
(***************************************************************************)
Continue(z) == [z EXCEPT !.cont = TRUE]
Fail(z, e, r) == Ret(seterr(z, e), r)
Ok(z) == z.ret # None /\ z.err = ""
Answer(z) ==
    [z EXCEPT !.out = Append(@, IF z.err = "" THEN [to |-> z.ctx, evt |-> "ack", val |-> z.ret]
                                ELSE [to |-> z.ctx, evt |-> "nack", err |-> z.err]),
              !.tc[Bucket[z.ctx]].msg = NoMsg]
\* Send the answer at once, and no other.
Direct(z, result) ==
    Continue([z EXCEPT !.out = Append(@, [to |-> z.ctx, evt |-> "ack"] @@ result),
                       !.tc[Bucket[z.ctx]].msg = NoMsg])

\* What is deleted when a task exits: its descriptors and its devices.
DelDevices(z) ==
    LET gone(t, i) == IF i <= ndev(t) /\ t.dev[i].task = t.ctx THEN devfs_del(t, i - 1) ELSE t
    IN  FoldLeft(gone, z, [i \in DOMAIN z.dev |-> i])
Exit(z) == Continue(fcb_free(DelDevices(CloseAll(z))))

\* Outside(z, f, g): the path of f does not begin with that of directory g.
Outside(z, f, g) == ~ Under(z.fcb[g].path, z.fcb[f].path)

\* The root or the working directory becomes f.
NewRoot(t, f) == [t EXCEPT !.fcb[f].nopen = @ + 1, !.tc[Bucket[t.ctx]].root = f, !.ret = 0]
NewWork(t, f) == [t EXCEPT !.fcb[f].nopen = @ + 1, !.tc[Bucket[t.ctx]].work = f, !.ret = 0]
WorkInside(t, f) ==
    IF Outside(t, Tc(t).work, f) THEN NewWork(fcb_del(t, Tc(t).work), f) ELSE t
Chroot(t, f) ==
    IF t.fcb[f].type # "dir" THEN Fail(t, "ENOTDIR", None)
    ELSE WorkInside(NewRoot(fcb_del(t, Tc(t).root), f), f)

\* Mutant: the new working directory is entered without being counted.
Chdir_free(t, f) ==
    IF t.fcb[f].type # "dir" THEN Fail(t, "ENOTDIR", None)
    ELSE [fcb_del(t, Tc(t).work) EXCEPT !.tc[Bucket[t.ctx]].work = f, !.ret = 0]

InsideRoot(t, f) == NewWork(t, IF Outside(t, f, Tc(t).root) THEN Tc(t).root ELSE f)
Chdir(t, f) ==
    IF t.fcb[f].type # "dir" THEN Fail(t, "ENOTDIR", None)
    ELSE InsideRoot(fcb_del(t, Tc(t).work), f)

Reopen(t, m, f) ==
    taskctx_open(t, f, m.mode, IF "append" \in m.mode THEN t.fcb[f].size ELSE 0, m.fd)
Fopen(t, m, f) ==
    IF t.fcb[f].type \in {"dir", "union"} THEN Fail(t, "EISDIR", None)
    ELSE Reopen(IF m.fd # None THEN taskctx_close(t, m.fd, TRUE) ELSE t, m, f)

DupOf(t, of, fd2) == taskctx_open(t, of.fid, of.mode, of.offs, fd2)
Dup2(z, m) ==
    LET closed == IF m.fd2 \in 0..Len(Tc(z).open) - 1 /\ Of(z, m.fd2).fid # None
                  THEN taskctx_close(z, m.fd2, TRUE) ELSE z
    IN  DupOf(closed, Of(closed, m.fd), m.fd2)

AsDir(t) ==
    IF t.ret = None THEN t
    ELSE [t EXCEPT !.tc[Bucket[t.ctx]].open[t.ret + 1].mode = @ \cup {"dir"}]
OpenDir(t, m, f) ==
    AsDir(taskctx_open(IF m.fd # None THEN taskctx_close(t, m.fd, TRUE) ELSE t, f, {"r"}, 0, m.fd))

\* The caller is asked to read directory j for union f, which the descriptor
\* remembers, uncounted, until the request comes again with the entries.  An
\* empty one is closed, and its number taken for that of the union.
SizeTold(w, m, fd) ==
    IF w.ret = NULL \/ w.ret.size = 0 THEN OpenDir(taskctx_close(w, fd, TRUE), m, fd)
    ELSE Direct(w, [fd |-> fd, size |-> w.ret.size])
AskFor(v, m, f, j) ==
    IF v.ret = None THEN v
    ELSE SizeTold(statfs([v EXCEPT !.tc[Bucket[v.ctx]].open[v.ret + 1].uidx = f], j), m, v.ret)
OpenUnion(u, m, f) ==
    IF u.ackdelayed THEN u
    ELSE IF u.ret = None THEN OpenDir(u, m, f)
    ELSE AskFor(taskctx_open(u, u.ret, {"r"}, 0, m.fd), m, f, u.ret)
Opendir(t, m, f) ==
    IF t.fcb[f].fs # "devfs" /\ t.fcb[f].type \notin {"dir", "union"} THEN Fail(t, "ENOTDIR", None)
    ELSE IF t.fcb[f].type = "union" THEN OpenUnion(fcb_unionlist_build(t, f, m.buf), m, f)
    ELSE OpenDir(t, m, f)

\* The second request: the union is taken from the descriptor, which forgets
\* it, so that a repetition of the request finds the root directory there.
OpendirRead(z, m) ==
    LET of == Of(z, m.fd)
    IN  IF ~ taskctx_validfid(z, m.fd) THEN Fail(z, "EBADF", None)
        ELSE IF "r" \notin of.mode \/ "r" \notin z.fcb[of.fid].mode THEN Fail(z, "EACCES", None)
        ELSE Opendir([z EXCEPT !.tc[Bucket[z.ctx]].open[m.fd + 1].uidx = 0], m, of.uidx)

Ioctl(z, m) ==
    LET f == Of(z, m.fd).fid
    IN  IF ~ taskctx_validfid(z, m.fd) THEN Fail(z, "EBADF", None)
        ELSE IF z.fcb[f].type # "dev" THEN Fail(z, "EBADF", None)
        ELSE Continue([z EXCEPT !.out = Append(@, [to |-> Dev(z, z.fcb[f].inode).task,
                                                      evt |-> "DRV_ioctl", pid |-> z.ctx])])

StatOr(z, t) == Ret(IF t.ret = NULL THEN seterr(z, "ENOENT") ELSE t, 0)
Stat(z, f) == StatOr(z, statfs(z, f))

Eof(z, of) == "eof" \in of.mode \/ of.offs >= z.fcb[of.fid].size

\* The requests that name a descriptor fail with EBADF when it is not one.
OnDescriptor(z, m) ==
    LET of == Of(z, m.fd)
        b == Bucket[z.ctx]
    IN  CASE m.evt = "fclose" -> Ret(taskctx_close(z, m.fd, FALSE), 0)
          [] m.evt = "rewind" -> [z EXCEPT !.tc[b].open[m.fd + 1].offs = 0,
                                           !.tc[b].open[m.fd + 1].uidx = 0, !.ret = 0]
          [] m.evt = "ftell" -> Ret(z, of.offs)
          [] m.evt = "feof" -> Ret(z, IF Eof(z, of) THEN 1 ELSE 0)
          [] m.evt = "ferror" -> Ret(z, IF "eof" \in of.mode THEN 1 ELSE 0)
          [] m.evt = "fclrerr" -> [z EXCEPT !.tc[b].open[m.fd + 1].mode = @ \ {"eof"}, !.ret = 0]
          [] m.evt = "dup" -> taskctx_open(z, of.fid, of.mode, of.offs, None)
          [] m.evt = "dup2" -> Dup2(z, m)
          [] m.evt = "fstat" -> Stat(z, of.fid)
          [] m.evt = "fwrite" -> IF z.fcb[of.fid].type \in {"dir", "union"} THEN Fail(z, "EBADF", 0)
                                 ELSE taskctx_write(z, m.fd)
          [] m.evt = "fflush" -> IF "w" \notin of.mode THEN Fail(z, "EACCES", None)
                                 ELSE Ret(fcb_flush(z, of.fid), None)
          [] OTHER -> IF z.fcb[of.fid].type \notin {"dir", "union"} THEN Fail(z, "EBADF", 0)
                      ELSE Ret(taskctx_readdir(z, m.fd), 0)

OfDescriptor == {"fclose", "rewind", "ftell", "feof", "ferror", "fclrerr", "dup", "dup2", "fstat",
                 "fwrite", "fflush", "readdir"}

\* The requests that name a path, which was looked up: t.ret.
OnPath(t, m) ==
    CASE m.evt = "fsck" -> Fail(IF Ok(t) THEN dofsck(t, t.ret) ELSE t, "ENODEV", None)
      [] m.evt # "fsck" /\ ~ Ok(t) -> IF m.evt \in {"realpath", "lstat"} THEN Ret(t, 0) ELSE t
      [] m.evt = "chroot" /\ Ok(t) -> Chroot(t, t.ret)
      [] m.evt = "chdir" /\ Ok(t) -> Chdir(t, t.ret)
      [] m.evt = "realpath" /\ Ok(t) -> Direct(t, [path |-> t.fcb[t.ret].path])
      [] m.evt = "lstat" /\ Ok(t) -> Stat(t, t.ret)
      [] m.evt = "fopen" /\ Ok(t) -> Fopen(t, m, t.ret)
      [] OTHER -> Opendir(t, m, t.ret)

OfPath == {"fsck", "chroot", "chdir", "realpath", "lstat", "fopen", "opendir"}

ResultOf(t) == Ret(t, IF t.ret THEN 0 ELSE None)

Serve(z, m) ==
    CASE m.evt \in OfDescriptor -> IF taskctx_validfid(z, m.fd) THEN OnDescriptor(z, m)
                                   ELSE Fail(z, "EBADF", None)
      [] m.evt \in OfPath -> IF m.evt = "opendir" /\ m.fd # None THEN OpendirRead(z, m)
                             ELSE OnPath(lookup(z, m.p, m.evt = "fopen" /\ "creat" \in m.mode), m)
      [] m.evt = "exit" -> Exit(z)
      [] m.evt = "mountfs" -> Continue(mtab_fstab(z))
      [] m.evt = "mount" -> Ret(mtab_add(z, m.dev, m.file), None)
      [] m.evt = "umount" -> LET t == ResultOf(mtab_del(z, m.p)) IN Ret(fcb_free(t), t.ret)
      [] m.evt = "mknod" -> Ret(devfs_add(z, m.name, z.ctx, m.mode, m.blksize, m.blkcnt), 0)
      [] m.evt = "ioctl" -> Ioctl(z, m)
      [] m.evt = "getcwd" -> Direct(z, [path |->
             IF Outside(z, Tc(z).work, Tc(z).root) THEN <<"">>
             ELSE SubSeq(z.fcb[Tc(z).work].path, Len(z.fcb[Tc(z).root].path), Len(z.fcb[Tc(z).work].path))])
      [] m.evt = "dstat" -> IF IsDev(z, m.fd) THEN Stat(z, m.fd) ELSE Fail(z, "EINVAL", 0)
      [] m.evt = "fcloseall" -> Ret(fcb_free(cache_flush(CloseAll(z))), 0)
      [] m.evt = "fseek" -> ResultOf(taskctx_seek(z, m.fd, m.offs, m.whence))
      [] m.evt = "fread" -> taskctx_read(z, m.fd, m.size)
      [] OTHER -> Fail(z, "EPERM", None)

\* Mutant: the request is kept and the task is told nothing went wrong.
Finish_both(z, m, low) ==
    IF z.cont THEN z
    ELSE [Answer(z) EXCEPT !.tc[Bucket[z.ctx]].msg = IF z.ackdelayed THEN m ELSE NoMsg]

\* Mutant: the request that waits is not saved.
Finish_lost(z, m, low) ==
    IF z.cont \/ z.mode # "run" \/ z.ackdelayed THEN z ELSE Answer(z)

\* The end of a step: when memory is low, or was out, all is flushed and the
\* requests are kept from then on; a request that waits is kept, any other
\* answered.
KeepOrAnswer(t, m) ==
    IF t.ackdelayed THEN [t EXCEPT !.tc[Bucket[t.ctx]].msg = m] ELSE Answer(t)
Finish(z, m, low) ==
    IF z.cont \/ z.mode # "run" THEN z
    ELSE KeepOrAnswer(IF low THEN [cache_flush(fcb_free(z)) EXCEPT !.nomem = TRUE] ELSE z, m)

-----------------------------------------------------------------------------
\* The memory at the start of a round.
Fresh(z) == [z EXCEPT !.ackdelayed = z.nomem, !.out = <<>>, !.got = {}]

\* A new request: the counter of a read starts anew.
Request(z, pid, m, low) ==
    LET t == taskctx_get(Fresh(z), pid)
    IN  Finish(Serve([t EXCEPT !.tc[Bucket[pid]].left = -1], m), m, low)

\* A driver sends a block.  FS puts it in the cache and serves the request of
\* the task the block was read for, if it is kept.
ServeKept(t, pid, m, low) ==
    IF t.tc[Bucket[pid]].pid # pid \/ m = NoMsg THEN t
    ELSE Finish(Serve([t EXCEPT !.ctx = pid], m), m, low)
Wake(t, pid, low) == IF t.mode = "hung" \/ pid \notin Pids THEN t
                     ELSE ServeKept(t, pid, t.tc[Bucket[pid]].msg, low)
Setblock(z, fd, lsn, pid, low) == Wake(cache_setblock(Fresh(z), fd, lsn, NotDirty), pid, low)

\* What a round leaves behind; a task that hangs gets no further.
After(z, t) == IF t.mode = "hung" THEN [Fresh(z) EXCEPT !.mode = "hung"] ELSE Rest(t)

\* The answers and the messages to drivers of a round in which a request
\* was taken: asked is who waits when it starts, left what drivers still have.
Round(t, asked, left) ==
    LET sent == s'.out
        drivers == SelectSeq(sent, LAMBDA o : o.evt \notin {"ack", "nack"})
        answered == {o.to : o \in Range(SelectSeq(sent, LAMBDA o : o.evt \in {"ack", "nack"}))}
    IN  /\ s' = After(s, t)
        /\ drv' = left \o drivers
        /\ wait' = [p \in Pids |-> IF p \in answered THEN NoMsg ELSE asked[p]]
        /\ UNCHANGED scn

FdOf(z, name) == fcb_get(z, <<"dev", name>>)
Did(z, x) ==
    IF z.mode # "run" THEN z
    ELSE After(z, IF x.evt = "setblock" THEN cache_setblock(Fresh(z), FdOf(z, x.name), x.lsn, NotDirty)
                  ELSE Request(z, x.pid, x, FALSE))

Init ==
    /\ scn \in DOMAIN Scenarios
    /\ \E z \in {Boot} : s = FoldLeft(Did, Rest(z), Scenarios[scn].pre)
    /\ wait = [p \in Pids |-> NoMsg]
    /\ drv = <<>>
    /\ n = 0

\* The references to a file control block.
Refs(f) ==
    LET tasks == {b \in DOMAIN s.tc : s.tc[b].pid # None}
    IN  Cardinality({b \in tasks : s.tc[b].root = f}) + Cardinality({b \in tasks : s.tc[b].work = f})
        + Cardinality(UNION {{<<b, i>> : i \in {k \in DOMAIN s.tc[b].open : s.tc[b].open[k].fid = f}}
                             : b \in tasks})
        + Cardinality({k \in DOMAIN s.mtab : s.mtab[k].storage = f})
        + Cardinality({k \in DOMAIN s.mtab : s.mtab[k].mountpoint = f})
        + Cardinality({k \in DOMAIN s.dev : s.dev[k].fid = f})
        + Cardinality({u \in Fids(s) : f \in Range(s.fcb[u].uni)})

\* The descriptors of a task that FS wants read: those that remember a union
\* they are not open on.  Its library reads the directory, and then sends the
\* entries.
Asked(p) ==
    LET tc == s.tc[Bucket[p]]
    IN  IF tc.pid # p THEN {}
        ELSE {i \in DOMAIN tc.open : /\ tc.open[i].fid # None /\ tc.open[i].uidx # 0
                                     /\ s.fcb[tc.open[i].fid].type # "union"}
Follow(p, i) ==
    LET of == s.tc[Bucket[p]].open[i]
    IN  IF of.offs = 0 THEN [pid |-> p, evt |-> "fread", fd |-> i - 1, size |-> s.fcb[of.fid].size]
        ELSE [pid |-> p, evt |-> "opendir", fd |-> i - 1, buf |-> EntriesOf(s, of.fid)]
Calls(p) ==
    IF Asked(p) = {} THEN {m \in Scenarios[scn].calls : m.pid = p} ELSE {Follow(p, i) : i \in Asked(p)}

\* Requests that are not sent: the entries for a union whose number is outside
\* the table by now; an entry of a directory that was not read; a
\* device registered while fcb[-1] would be read for its name; a move to the
\* directory the task is in already, if no one else holds it, which frees
\* the file control block it then uses.
Sound(m) ==
    LET tc == s.tc[Bucket[m.pid]]
        old == tc.pid = m.pid
        of == tc.open[m.fd + 1]
        mine == {s.dev[i].fid : i \in {k \in DOMAIN s.dev : s.dev[k].task = m.pid}}
        there == fcb_get(s, canonize([s EXCEPT !.ctx = m.pid], m.p))
    IN  /\ m.evt = "opendir" /\ m.fd # None => of.uidx \in Fids(s)
        /\ m.evt = "mknod" => \A i \in DOMAIN s.dev : s.dev[i].fid # None
        /\ (m.evt \in {"chdir", "chroot"} /\ old
              /\ there = (IF m.evt = "chdir" THEN tc.work ELSE tc.root)) => s.fcb[there].nopen > 1
        /\ m.evt = "readdir" =>
               IF old /\ m.fd < Len(tc.open)
               THEN of.fid # None /\ (s.fcb[of.fid].fs = "fsz" =>
                        of.offs < s.fcb[DirOf([s EXCEPT !.ctx = m.pid], m.fd)].size)
               ELSE FALSE
        /\ m.evt = "exit" =>
               \A f \in Fids(s) : f \in mine => Refs(f) = 1

\* A task that does not wait sends a request, and FS serves it.
Query ==
    /\ s.mode = "run" /\ n < Scenarios[scn].max /\ s.nfcb + 2 < MaxFcb
    /\ \E m \in UNION {Calls(p) : p \in Pids}, low \in Scenarios[scn].low :
          /\ wait[m.pid] = NoMsg /\ Sound(m)
          /\ Round(Request(s, m.pid, m, low),
                   IF m.evt = "exit" THEN wait ELSE [wait EXCEPT ![m.pid] = m], drv)
    /\ n' = n + 1

\* A driver reads one of the blocks it was asked for.
DriverRead ==
    /\ s.mode = "run"
    /\ \E i \in DOMAIN drv, low \in Scenarios[scn].low :
          /\ drv[i].evt = "DRV_read"
          /\ Round(Setblock(s, drv[i].fd, drv[i].lsn, drv[i].pid, low), wait, RemoveAt(drv, i))
    /\ UNCHANGED n

\* A driver does what the caller of ioctl wants, and answers the caller.
DriverIoctl ==
    /\ \E i \in DOMAIN drv :
          /\ drv[i].evt = "DRV_ioctl"
          /\ drv' = RemoveAt(drv, i)
          /\ wait' = [wait EXCEPT ![drv[i].pid] = NoMsg]
    /\ UNCHANGED <<s, n, scn>>

Next == Query \/ DriverRead \/ DriverIoctl
Spec == Init /\ [][Next]_vars

\* Weak fairness of the drivers: a step that counts no request is theirs,
\* and they have one as long as there is a message for them.
FairDrivers == []<>(drv = <<>> \/ s.mode # "run") \/ []<><<UNCHANGED n>>_vars
FairSpec == Spec /\ FairDrivers

-----------------------------------------------------------------------------
\* Type correctness: counts do not go below zero, and the table of file
\* control blocks is used up to nfcb only (fcb_add, fcb_del, fcb_free).
TypeOK ==
    /\ s.nfcb \in 0..MaxFcb
    /\ \A f \in DOMAIN s.fcb : /\ s.fcb[f].nopen \in Nat /\ s.fcb[f].size \in Nat
                               /\ s.fcb[f].mode \subseteq AMSK
                               /\ f >= s.nfcb => s.fcb[f].path = NULL
    /\ \A b \in DOMAIN s.tc : s.tc[b].pid \in Pids \cup {None}
    /\ s.mode \in {"run", "hung", "exit"}
    /\ DOMAIN wait = Pids

\* Every root, working directory, descriptor, mount, device and union member
\* is counted in the nopen of the file control block it refers to, which is
\* in use: what one task closes, moves away from or flushes never takes a
\* file away from another (fcb_del, fcb_free).  The union a descriptor
\* remembers between the two requests of opendir is not among these: the
\* code does not count it, and its entry may hold another file by then.
RefsCounted == \A f \in DOMAIN s.fcb : Refs(f) <= s.fcb[f].nopen /\ (Refs(f) > 0 => Live(s, f))

\* A path has one file control block, a file of a file system too unless
\* something is mounted there, and nfiles counts them (fcb_add, lookup).
FilesUnique ==
    LET live == {f \in Fids(s) : s.fcb[f].path # NULL}
        mounted == {s.mtab[k].mountpoint : k \in DOMAIN s.mtab}
        file == {f \in live \ mounted : s.fcb[f].type # "dev"}
    IN  /\ s.nfiles = Cardinality(live)
        /\ Cardinality({s.fcb[f].path : f \in live}) = Cardinality(live)
        /\ Cardinality({<<s.fcb[f].storage, s.fcb[f].inode>> : f \in file}) = Cardinality(file)

\* The file control block of a file has the path that leads to the inode
\* from the mount point of its device, whatever path with links, jokers and
\* ".." it was found by (canonize, locate, the end of lookup).
PathsTrue ==
    LET mounted == {s.mtab[k].mountpoint : k \in DOMAIN s.mtab}
        list(in, fd) == IF in.flag = "inline" THEN in.ents ELSE Content(s, fd, in.sec).ents
        ents(x, fd) == IF x # 0 /\ Content(s, fd, x).type = "dir" THEN list(Content(s, fd, x), fd) ELSE <<>>
        at(x, fd, name) == {e.fid : e \in {d \in Range(ents(x, fd)) : d.name = name}}
        leads(k, f) ==
            LET fd == s.mtab[k].storage
                names == SubSeq(s.fcb[f].path, Len(s.fcb[s.mtab[k].mountpoint].path), Len(s.fcb[f].path))
                step(x, name) == IF name = "" THEN x
                                 ELSE IF at(x, fd, name) = {} THEN 0
                                 ELSE CHOOSE y \in at(x, fd, name) : TRUE
            IN  /\ Under(s.fcb[s.mtab[k].mountpoint].path, s.fcb[f].path)
                /\ s.fcb[f].inode = FoldLeft(step, s.sb[Last(s.fcb[fd].path)].root, names)
    IN  \A f \in Fids(s) \ mounted : \A k \in DOMAIN s.mtab :
            s.fcb[f].path # NULL /\ s.fcb[f].type # "dev" /\ s.mtab[k].storage = s.fcb[f].storage
            => leads(k, f)

\* A device registered with O_EXCL has one descriptor at a time, also when
\* it is duplicated, reopened or closed by an exiting task (taskctx_open).
OneOwner ==
    \A f \in Fids(s) : "excl" \in s.fcb[f].mode =>
        Cardinality(UNION {{<<b, i>> : i \in {k \in DOMAIN s.tc[b].open : s.tc[b].open[k].fid = f}}
                           : b \in {c \in DOMAIN s.tc : s.tc[c].pid # None}}) <= 1

\* The superblock of the ramdisk agrees with the size of its device, and no
\* block is given out that the device does not have (allocateblock, resizefs).
RamdiskFits ==
    LET f == fcb_get(s, <<"dev", "root">>)
        sb == s.sb["root"]
    IN  /\ f # None /\ sb.numsec * s.fcb[f].blksize = s.fcb[f].size
        /\ sb.freesec <= sb.numsec

\* What is copied to a reader is what the file holds at that place, unless
\* it is inside a block of a sector directory (read, taskctx_read).
ReadsFile ==
    \A c \in s.got :
        LET in == Content(s, c.st, c.inode)
            bs == s.fcb[c.st].blksize
        IN  /\ c.at + c.n <= in.size
            /\ (in.flag = "sd" => c.at % bs = 0) => <<c.blk, c.skip>> =
                  CASE in.flag = "inline" -> <<c.inode, c.at>>
                    [] in.flag = "direct" -> <<in.sec, c.at>>
                    [] OTHER -> <<Content(s, c.st, in.sec).next[c.at \div bs + 1], c.at % bs>>

\* A task whose request is kept for a block has its driver asked for one:
\* no request waits for nothing (cache_getblock, the end of the loop).
KeptIsAsked ==
    s.mode = "run" /\ ~ s.nomem =>
        \A p \in Pids : wait[p] # NoMsg =>
            /\ \E i \in DOMAIN drv : drv[i].pid = p
            /\ wait[p].evt # "ioctl" => s.tc[Bucket[p]].pid = p /\ s.tc[Bucket[p]].msg = wait[p]

\* A block is in the chain of its number, on a device that is there, and no
\* chain holds it twice clean (cache_setblock, cache_freeblocks).
CacheSound ==
    \A j \in DOMAIN s.cache :
        LET blks == s.cache[j].blks
        IN  /\ \A i \in DOMAIN blks : /\ blks[i].lsn % cachelines = j
                                      /\ IsDev(s, blks[i].fd) /\ ~ PastEnd(s, blks[i].fd, blks[i].lsn)
            /\ \A i, k \in DOMAIN blks : blks[i] = blks[k] => i = k

\* What a task sees: its directories and its descriptors.
View(z, p) ==
    LET tc == z.tc[Bucket[p]]
    IN  IF tc.pid # p THEN NULL
        ELSE <<z.fcb[tc.root].path, z.fcb[tc.work].path,
               [i \in DOMAIN tc.open |-> IF tc.open[i].fid = None THEN NULL
                                         ELSE <<z.fcb[tc.open[i].fid].path, tc.open[i].offs>>]>>

\* Serving one task leaves the directories and descriptors of the others as
\* they are.
Isolation == \A p \in Pids : p # s'.ctx => View(s', p) = View(s, p)

\* A task gets one answer to a request it waits for, and none otherwise.
OneAnswer ==
    s' # s => \A i \in DOMAIN s'.out : s'.out[i].evt \in {"ack", "nack"} =>
                /\ wait[s'.out[i].to] # NoMsg \/ (n' # n /\ s'.out[i].to = s'.ctx)
                /\ \A j \in DOMAIN s'.out : s'.out[j].to = s'.out[i].to => j = i

\* Every request is answered in the end, unless FS hangs or is out of memory.
Answered == \A p \in Pids : (wait[p] # NoMsg) ~> (wait[p] = NoMsg \/ s.mode # "run" \/ s.nomem)

\* What a task holds open is counted, and an exclusive device has one holder
\* (fcb_add, fcb_del, taskctx_open, taskctx_close).
FilesCounted == TypeOK /\ RefsCounted /\ OneOwner

\* A file is known once, by its true path (lookup, fcb_add).
FilesTrue == FilesUnique /\ PathsTrue

\* Blocks are cached once, kept requests have asked for one, and the ramdisk
\* has the blocks it gives out (cache.c, allocateblock).
BlocksSound == CacheSound /\ KeptIsAsked /\ RamdiskFits

\* A request is answered to the task that made it, once, and changes nothing
\* for the others (the loop of main.c).
ServedAlone == [][Isolation /\ OneAnswer]_vars
=============================================================================
