------------------------------ MODULE TaskCtx ------------------------------
(***************************************************************************)
(* The file descriptors of the tasks.  s.tc has one context per bucket of  *)
(* the hash, NoTc if there is none; s.ctx is the task being served.  The   *)
(* unsigned workleft is written as a signed number: -1 is its maximum, and *)
(* what counts down from there stays below -1.                             *)
(***************************************************************************)
EXTENDS Vfs

NoTc == [pid |-> None]
NoMsg == [evt |-> "none"]
NewTc(pid) == [pid |-> pid, root |-> 0, work |-> 0, left |-> -1, woffs |-> 0,
               open |-> <<>>, msg |-> NoMsg]
Unused == [fid |-> None, mode |-> {}, offs |-> 0, uidx |-> 0]

Of(s, idx) == Tc(s).open[idx + 1]

\* The context of the sender; a new one has two references to "/".  It takes
\* the place of the context of another task with the same low byte.
taskctx_get(s, pid) ==
    IF s.tc[Bucket[pid]].pid = pid THEN [s EXCEPT !.ctx = pid]
    ELSE [s EXCEPT !.ctx = pid, !.tc[Bucket[pid]] = NewTc(pid), !.fcb[ROOTFCB].nopen = @ + 2]

taskctx_validfid(s, idx) ==
    /\ idx \in 0..Len(Tc(s).open) - 1
    /\ Of(s, idx).fid # None /\ s.fcb[Of(s, idx).fid].path # NULL

\* Open a file for the task: s.ret is the descriptor.  The mode must be that
\* of the file, or one that creates or appends to a writable file.
taskctx_open(s, fid, md, offs, idx) ==
    LET f == s.fcb[fid]
        b == Bucket[s.ctx]
        open == Tc(s).open
        m1 == IF md \cap {"r", "w"} = {} THEN md \cup {"r"} ELSE md
        mode == IF m1 \cap {"append", "creat"} # {} THEN m1 \cup {"w"} ELSE m1
        hole == IF idx + 1 \in DOMAIN open /\ open[idx + 1].fid = None THEN idx + 1
                ELSE FirstOf({k \in DOMAIN open : open[k].fid = None})
        of == [fid |-> fid, mode |-> mode, offs |-> offs, uidx |-> 0]
        no(e) == Ret(seterr(s, e), None)
    IN  IF ~ Live(s, fid) THEN no("ENOENT")
        ELSE IF f.excl THEN no("EBUSY")
        ELSE IF m1 \cap AMSK # f.mode /\ ~ (m1 \cap {"append", "creat"} # {} /\ "w" \in f.mode)
             THEN no("EACCES")
        ELSE [s EXCEPT !.ret = IF hole # None THEN hole - 1 ELSE Len(open),
                       !.tc[b].open = IF hole = None THEN Append(@, of) ELSE [@ EXCEPT ![hole] = of],
                       !.fcb[fid].excl = @ \/ "excl" \in mode \cup f.mode,
                       !.fcb[fid].nopen = @ + 1]

\* There is no file system that writes: no file has anything to flush.
fcb_flush(s, fid) ==
    CASE s.fcb[fid].type # "file" -> Ret(seterr(s, "EBADF"), FALSE)
      [] "w" \notin s.fcb[fid].mode -> Ret(seterr(s, "EACCES"), FALSE)
      [] OTHER -> Ret(seterr(s, "EROFS"), FALSE)

\* The list of descriptors ends with one in use.
Shorter(open) ==
    LET used == {k \in DOMAIN open : open[k].fid # None}
    IN  SubSeq(open, 1, IF used = {} THEN 0 ELSE Max(used))

Release(t, idx, dontfree) ==
    [t EXCEPT !.tc[Bucket[t.ctx]].open =
                  LET open == [@ EXCEPT ![idx + 1] = Unused]
                  IN  IF dontfree THEN open ELSE Shorter(open),
              !.ret = TRUE]
taskctx_close(s, idx, dontfree) ==
    LET of == Of(s, idx)
        flushed == IF "w" \in of.mode THEN fcb_flush(s, of.fid) ELSE s
    IN  IF ~ taskctx_validfid(s, idx) THEN Ret(s, FALSE)
        ELSE Release(IF "tmp" \in of.mode THEN flushed
                     ELSE fcb_del([flushed EXCEPT !.fcb[of.fid].excl = FALSE], of.fid),
                     idx, dontfree)

\* Close the descriptors from the first one on; the list may get shorter.
CloseAll(s) ==
    FoldLeft(LAMBDA t, i : IF i <= Len(Tc(t).open) THEN taskctx_close(t, i - 1, FALSE) ELSE t,
             s, [i \in DOMAIN Tc(s).open |-> i])

taskctx_seek(s, idx, offs, whence) ==
    LET of == Of(s, idx)
        b == Bucket[s.ctx]
        o == CASE whence = "cur" -> of.offs + offs
               [] whence = "end" -> s.fcb[of.fid].size + offs
               [] OTHER -> offs
        t == [s EXCEPT !.tc[b].open[idx + 1].offs = IF o < 0 THEN 0 ELSE o]
    IN  IF ~ taskctx_validfid(s, idx) THEN Ret(seterr(s, "EBADF"), FALSE)
        ELSE IF s.fcb[of.fid].type # "file" THEN Ret(seterr(s, "ESPIPE"), FALSE)
        ELSE IF o < 0 THEN Ret(seterr(t, "EINVAL"), FALSE)
        ELSE Ret(t, TRUE)

\* The directory a descriptor reads: the member of a union it has come to.
DirOf(s, idx) ==
    LET f == Of(s, idx).fid
        n == Of(s, idx).uidx
    IN  IF s.fcb[f].type # "union" THEN f
        ELSE IF n \in 0..Len(s.fcb[f].uni) - 1 THEN s.fcb[f].uni[n + 1] ELSE 0

\* The entries of directory f, as a caller that has read it has them.
EntriesOf(s, f) ==
    LET st == s.fcb[f].storage
        of(in) == IF in.k # "inode" THEN <<>>
                  ELSE IF in.flag = "inline" THEN in.ents ELSE Content(s, st, in.sec).ents
    IN  of(Content(s, st, s.fcb[f].inode))

\* The entry of a directory the caller has read at an offset; the header is
\* as long as an entry.  0 stands for none.
getdirent(s, f, offs) ==
    LET i == IF offs = 0 THEN 1 ELSE offs
    IN  IF i \in DOMAIN EntriesOf(s, f) THEN EntriesOf(s, f)[i].fid ELSE 0

\* Move on behind entry ino of a directory; a union goes on with its next
\* member at the end.
NextEntry(u, idx, dir, ino) ==
    LET b == Bucket[u.ctx]
        offs == Of(u, idx).offs
        next == offs + (IF offs = 0 THEN 2 ELSE 1)
        end == u.fcb[Of(u, idx).fid].type = "union" /\ next >= u.fcb[dir].size
    IN  Ret([u EXCEPT !.tc[b].open[idx + 1].offs = IF end THEN 0 ELSE next,
                      !.tc[b].open[idx + 1].uidx = IF end THEN @ + 1 ELSE @], ino)
OfTarget(u, idx, dir, ino) ==
    IF u.ackdelayed THEN Ret(u, NULL) ELSE NextEntry(u, idx, dir, ino)
OfEntry(t, idx, dir, ino) ==
    IF t.ret = NULL \/ t.to = NULL THEN NextEntry(t, idx, dir, ino)
    ELSE OfTarget(lookup(t, IF t.to.abs THEN t.to ELSE Abs(pathcat(t.fcb[dir].path, t.to.segs)), FALSE),
                  idx, dir, ino)

\* Return the next entry of a directory and move on behind it.  A link is
\* looked up for the type of its target.  s.ret is NULL at the end.
taskctx_readdir(s, idx) ==
    LET of == Of(s, idx)
        b == Bucket[s.ctx]
        f == s.fcb[of.fid]
        n == devfs_getdirent(s, of.offs)
        dir == DirOf(s, idx)
        ino == getdirent(s, dir, of.offs)
    IN  IF ~ taskctx_validfid(s, idx) THEN Ret(s, NULL)
        ELSE IF f.fs = "devfs" THEN
            IF n = 0 THEN Ret(seterr([s EXCEPT !.tc[b].open[idx + 1].offs = ndev(s)], "ENOENT"), NULL)
            ELSE Ret([s EXCEPT !.tc[b].open[idx + 1].offs = @ + n], of.offs + n - 1)
        ELSE IF f.fs # "fsz" THEN Ret(seterr(s, "ENOTSUP"), NULL)
        ELSE IF ino = 0 THEN Ret(s, NULL)
        ELSE OfEntry(stat(s, f.storage, ino), idx, dir, ino)

-----------------------------------------------------------------------------
\* Copy blocks to the caller until the file ends, or until a block is not in
\* the cache: workleft passes from 0 to its maximum, which does not end the
\* loop.  s.ret is the number of bytes once all are there, else 0.
RECURSIVE Copied(_, _, _, _)
CopyBlock(r, f, offs, ret) ==
    LET b == Bucket[r.ctx]
        left == Tc(r).left
        woffs == Tc(r).woffs
        all == left > 0 /\ r.ret >= left
        n == IF all THEN left ELSE r.ret
        chunk == [st |-> r.fcb[f].storage, inode |-> r.fcb[f].inode, at |-> offs + woffs,
                  blk |-> r.blk, skip |-> r.skip, n |-> n]
    IN  IF r.mode = "hung" THEN r
        ELSE IF r.ackdelayed THEN Ret(r, ret)
        ELSE IF r.ret = 0 THEN [r EXCEPT !.ret = woffs, !.tc[b].left = -1]
        ELSE Copied([r EXCEPT !.tc[b].woffs = @ + n, !.got = @ \cup {chunk},
                              !.tc[b].left = IF all THEN -1 ELSE @ - n],
                    f, offs, IF all THEN woffs + n ELSE ret)
Copied(s, f, offs, ret) ==
    IF Tc(s).left = 0 THEN Ret(s, ret)
    ELSE CopyBlock(read(s, s.fcb[f].storage, s.fcb[f].inode, offs + Tc(s).woffs,
                        s.fcb[s.fcb[f].storage].blksize), f, offs, ret)

MoveOn(u, idx, dir) ==
    IF u.mode = "hung" \/ dir THEN u
    ELSE [u EXCEPT !.tc[Bucket[u.ctx]].open[idx + 1].offs = @ + u.ret]

\* Read size bytes: s.ret is their number.  A suspended read goes on where
\* it was.  The offset moves by s.ret, also if the read is then suspended.
taskctx_read(s, idx, size) ==
    LET of == Of(s, idx)
        e == s.fcb[of.fid]
        dir == "dir" \in of.mode
        f == IF e.type = "union" /\ dir THEN DirOf(s, idx) ELSE of.fid
        t == IF Tc(s).left # -1 THEN s
             ELSE [s EXCEPT !.tc[Bucket[s.ctx]].left = size, !.tc[Bucket[s.ctx]].woffs = 0]
        no(x) == Ret(seterr(s, x), 0)
    IN  IF ~ taskctx_validfid(s, idx) THEN no("EBADF")
        ELSE IF e.fs = "devfs" /\ dir THEN Ret(s, IF of.offs < ndev(s) THEN 1 ELSE 0)
        ELSE IF "r" \notin e.mode THEN no("EACCES")
        ELSE IF e.type = "union" /\ dir /\ f = 0 THEN Ret(s, 0)
        ELSE IF s.fcb[f].fs # "fsz" THEN no("EACCES")
        ELSE MoveOn(Copied(t, f, of.offs, 0), idx, dir)

\* Nothing is written: the devices have no code for it and FS/Z no driver.
taskctx_write(s, idx) ==
    LET f == s.fcb[Of(s, idx).fid]
        no(x) == Ret(seterr(s, x), 0)
    IN  IF ~ taskctx_validfid(s, idx) THEN no("EBADF")
        ELSE CASE "w" \notin f.mode -> no("EACCES")
               [] "w" \in f.mode /\ f.type = "dev" -> Ret(s, 0)
               [] "w" \in f.mode /\ f.type \in {"dir", "union"} -> no("EPERM")
               [] OTHER -> no("EROFS")
=============================================================================
