-------------------------------- MODULE Fsz --------------------------------
(***************************************************************************)
(* Reading and writing the blocks of a device, and the FS/Z driver on top  *)
(* of them.  A block is one of                                             *)
(*   [k |-> "super", root, bs, numsec, freesec]                            *)
(*   [k |-> "inode", type, size, flag, sec, ents, to]                      *)
(*   [k |-> "dir", ents]       ents: a sequence of [name, fid, dir], with  *)
(*                             dir if the name ends in a slash             *)
(*   [k |-> "sd", next]        next: a sequence of block numbers           *)
(*   [k |-> "data"]                                                        *)
(* with flag one of "inline", "direct" and "sd" (one level), and to the    *)
(* target of a "link" or the members of a "union".  No superblock has a    *)
(* list of free sectors (freesecfid): mkfs makes none.                     *)
(***************************************************************************)
EXTENDS Devfs

CONSTANTS MaxSize   \* bound on the bytes of the ramdisk

\* Get a block of a device: s.blk is its number, or None.
readblock(s, fd, lsn) ==
    LET f == s.fcb[fd]
        no(e) == [seterr(s, e) EXCEPT !.blk = None]
    IN  CASE fd \notin Fids(s) \/ lsn = None -> no("EFAULT")
          [] fd \in Fids(s) /\ "r" \notin f.mode -> no("EACCES")
          [] IsDev(s, fd) /\ "r" \in f.mode ->
               IF f.inode >= ndev(s) THEN no("ENODEV")
               ELSE IF f.blksize < 1 THEN no("EINVAL")
               ELSE IF Dev(s, f.inode).task # MEMFS_MAJOR THEN cache_getblock(s, fd, lsn)
               ELSE CASE Last(f.path) = "null" -> [s EXCEPT !.blk = None]
                      [] Last(f.path) \in {"zero", "random"} -> [s EXCEPT !.blk = lsn]
                      [] OTHER -> IF PastEnd(s, fd, lsn) THEN no("EFAULT")
                                  ELSE [s EXCEPT !.blk = lsn]
          [] OTHER -> no("EPERM")

\* Write a block of a device.  What the ramdisk holds is changed in place.
writeblock(s, fd, lsn, prio) ==
    LET f == s.fcb[fd]
        no(e) == Ret(seterr(s, e), FALSE)
    IN  CASE fd \notin Fids(s) \/ lsn = None -> no("EFAULT")
          [] fd \in Fids(s) /\ "w" \notin f.mode -> no("EACCES")
          [] IsDev(s, fd) /\ "w" \in f.mode ->
               IF f.inode >= ndev(s) THEN no("EPERM")
               ELSE IF Dev(s, f.inode).task # MEMFS_MAJOR THEN cache_setblock(s, fd, lsn, prio)
               ELSE CASE Last(f.path) = "null" -> Ret(s, TRUE)
                      [] Last(f.path) = "root" -> IF PastEnd(s, fd, lsn) THEN no("EFAULT")
                                                  ELSE Ret(s, TRUE)
                      [] OTHER -> no("EACCES")
          [] OTHER -> no("EPERM")

\* Read a block and go on with it, or give up with that status.
Blk(s, fd) == Content(s, fd, s.blk)
Status(s, st) == [s EXCEPT !.loc = [status |-> st]]

-----------------------------------------------------------------------------
\* Tell the superblock how large its device has become.
resizefs(s, fd) ==
    LET f == s.fcb[fd]
    IN  writeblock([readblock(s, fd, 0) EXCEPT !.sb[Last(f.path)].numsec = f.size \div f.blksize],
                   fd, 0, Crit)

detect(s, fd) ==
    LET b == Blk(s, fd)
        t == [s EXCEPT !.fcb[fd].blksize = b.bs]
    IN  IF b.k # "super" THEN Ret(s, FALSE)
        ELSE Ret(IF s.fcb[fd].size # b.numsec * b.bs THEN resizefs(t, fd) ELSE t, TRUE)

\* A block from the end of the used space, which must be in the cache: s.ret
\* is its number, or None.
UseBlock(t, fd, name) ==
    IF t.blk = None THEN Ret(t, None)
    ELSE Ret(writeblock([t EXCEPT !.sb[name].freesec = @ + 1], fd, 0, Crit), t.blk)
TakeBlock(t, fd, name) ==
    IF t.blk = None \/ t.sb[name].freesec >= t.sb[name].numsec THEN Ret(t, None)
    ELSE UseBlock(readblock(t, fd, t.sb[name].freesec), fd, name)
allocateblock(s, fd) == TakeBlock(readblock(s, fd, 0), fd, Last(s.fcb[fd].path))

-----------------------------------------------------------------------------
(***************************************************************************)
(* locate walks along a path.  The walk is at inode w.lsn of device w.fd;  *)
(* w.pre is the part of the absolute path that is behind, w.path the part  *)
(* ahead, and w.stack has an entry for every name passed: the directory it *)
(* was in and what lay before it.  The result is s.loc, with the path as   *)
(* the walk left it in pre and path.                                       *)
(***************************************************************************)
PathEnd(path) == path \in {<<>>, <<"">>}

\* Mutant: the place to go back to is the start of the absolute path.
pathpush_start(stack, lsn, pre) == Append(stack, [inode |-> lsn, pre |-> <<>>])

pathpush(stack, lsn, pre) == Append(stack, [inode |-> lsn, pre |-> pre])
Found(s, st, in, w) ==
    [s EXCEPT !.loc = [status |-> st, inode |-> w.lsn, type |-> in.type, size |-> in.size,
                       pre |-> w.pre, path |-> w.path, to |-> in.to]]
NoSpace(t, lsn) ==
    IF t.ret = None THEN [t EXCEPT !.loc = [status |-> "NOSPACE", inode |-> lsn]]
    ELSE Status(t, "NOTFOUND")
NotFound(s, w) ==
    IF s.loc.status = "SUCCESS" THEN s
    ELSE IF w.creat THEN NoSpace(allocateblock(s, w.fd), w.lsn) ELSE Status(s, "NOTFOUND")

\* The block of a directory's entries: s.blk, or None.
Indirect(t, fd, in) ==
    LET n == Blk(t, fd).next[1]
    IN  IF in.flag = "direct" \/ t.blk = None THEN t
        ELSE IF n = 0 THEN [t EXCEPT !.blk = None] ELSE readblock(t, fd, n)
DirBlock(s, fd, in) ==
    IF in.flag = "inline" THEN s
    ELSE IF in.sec = 0 THEN [s EXCEPT !.blk = None]
    ELSE Indirect(readblock(s, fd, in.sec), fd, in)

RECURSIVE Walk(_, _)

\* Look for the next name among the entries of a directory.  "..." is the
\* first sub-directory in which the rest of the path is found.
Search(d, w, ents) ==
    LET name == Head(w.path)
        at == FirstOf({i \in DOMAIN ents : ents[i].name = name /\ (Len(w.path) > 1 => ents[i].dir)})
        into(e) == [w EXCEPT !.lsn = e.fid, !.pre = Append(@, e.name), !.path = Tail(@)]
        dive(acc, e) ==
            IF acc.loc.status = "SUCCESS" \/ ~ e.dir THEN acc
            ELSE Walk(Status(acc, "NONE"), [into(e) EXCEPT !.creat = FALSE])
    IN  IF name # "..." /\ at # None
        THEN Walk(d, [into(ents[at]) EXCEPT !.stack = pathpush(@, w.lsn, w.pre)])
        ELSE NotFound(IF name = "..." THEN FoldLeft(dive, d, ents) ELSE d, w)
Entries(d, w, type) ==
    LET blk == Blk(d, w.fd)
    IN  IF d.blk = None THEN Status(d, "NOBLOCK")
        ELSE IF type = "app" THEN Status(d, "FILEINPATH")
        ELSE IF type = "dir" /\ "ents" \notin DOMAIN blk THEN Status(d, "FSERROR")
        ELSE Search(Status(d, "NONE"), w, IF type = "dir" THEN blk.ents ELSE <<>>)
AtInode(t, w, in) ==
    IF t.blk = None THEN Status(t, "NOBLOCK")
    ELSE IF in.k # "inode" THEN Status(t, "FSERROR")
    ELSE IF in.type = "link" THEN Found(t, "SYMINPATH", in, w)
    ELSE IF PathEnd(w.path) THEN Found(t, "SUCCESS", in, w)
    ELSE IF in.type = "union" THEN Found(t, "UNIONINPATH", in, w)
    ELSE Entries(DirBlock(t, w.fd, in), w, in.type)
Load(t, w) == AtInode(t, w, Blk(t, w.fd))

Walk(s, w) ==
    IF w.path # <<>> /\ Head(w.path) = ".." THEN
        IF w.stack = <<>> THEN Status(s, "UPDIR")
        ELSE Walk(s, [w EXCEPT !.lsn = Last(w.stack).inode, !.pre = Last(w.stack).pre,
                               !.path = Tail(@), !.stack = Front(@)])
    ELSE IF w.lsn = 0 THEN Status(s, "NOBLOCK")
    ELSE Load(readblock(s, w.fd, w.lsn), w)

FromRoot(t, fd, pre, path, creat) ==
    IF t.blk = None THEN Status(t, "NOBLOCK")
    ELSE Walk(t, [fd |-> fd, lsn |-> Blk(t, fd).root, pre |-> pre, path |-> path,
                  stack |-> <<>>, creat |-> creat])
locate(s, fd, pre, path, creat) ==
    IF ~ Live(s, fd) THEN Status(s, "NOTFOUND")
    ELSE FromRoot(readblock(s, fd, 0), fd, pre, path, creat)

-----------------------------------------------------------------------------
\* How a read ends: nothing more to read, or k bytes at skip in block b.
AtEof(s) == [s EXCEPT !.ret = 0, !.blk = None]
Got(s, b, k, skip) == [s EXCEPT !.ret = k, !.blk = b, !.skip = skip]

\* The data that is in block v.blk.
DataBlock(v, m) == IF v.blk = None THEN AtEof(v) ELSE Got(v, v.blk, m, 0)

\* Mutant: the sector directory is entered one block too far.
ReadSector_next(u, fd, in, offs, n) ==
    LET bs == u.fcb[fd].blksize
        base == (offs \div bs) * bs
        m == IF offs < bs THEN Min({n, bs - offs}) ELSE Min({n, in.size - base})
        list == Blk(u, fd).next
        x == list[Min({(base \div bs) + 2, Len(list)})]
    IN  IF u.blk = None THEN AtEof(u)
        ELSE IF in.flag = "direct" THEN Got(u, in.sec, n, offs)
        ELSE IF x = 0 THEN Got(u, None, m, 0)
        ELSE DataBlock(readblock(u, fd, x), m)

\* The data of a file whose sector or sector directory is u.blk.
ReadSector(u, fd, in, offs, n) ==
    LET bs == u.fcb[fd].blksize
        base == (offs \div bs) * bs
        m == IF offs < bs THEN Min({n, bs - offs}) ELSE Min({n, in.size - base})
        x == Blk(u, fd).next[(base \div bs) + 1]
    IN  IF u.blk = None THEN AtEof(u)
        ELSE IF in.flag = "direct" THEN Got(u, in.sec, n, offs)
        ELSE IF x = 0 THEN Got(u, None, m, 0)
        ELSE DataBlock(readblock(u, fd, x), m)
ReadInode(t, fd, file, offs, size) ==
    LET in == Blk(t, fd)
        n == Min({size, in.size - offs})
    IN  IF file = 0 \/ t.blk = None \/ in.k # "inode" THEN AtEof(t)
        ELSE IF in.size <= offs THEN AtEof(t)
        ELSE IF in.flag = "inline" THEN Got(t, file, n, offs)
        ELSE IF in.sec = 0 THEN Got(t, None, n, 0)
        ELSE ReadSector(readblock(t, fd, in.sec), fd, in, offs, n)

\* Read at most size bytes of a file, no further than the end of a block:
\* s.ret is their number, s.blk the block (None: zeros) and s.skip the place
\* in it.  A file with a sector directory is read from the start of a block.
read(s, fd, file, offs, size) == ReadInode(readblock(s, fd, file), fd, file, offs, size)

\* The type and size an inode records; s.to is the target of a link.
stat(s, fd, file) ==
    LET inode(t, in) ==
            IF t.blk = None \/ in.k # "inode" THEN [t EXCEPT !.ret = NULL, !.to = NULL]
            ELSE [t EXCEPT !.ret = [type |-> in.type, size |-> in.size],
                           !.to = IF in.type = "link" THEN in.to ELSE NULL]
        loaded(t) == inode(t, Blk(t, fd))
    IN  loaded(readblock(s, fd, file))
=============================================================================
