------------------------------- MODULE Devfs -------------------------------
(***************************************************************************)
(* The device list and the block cache of the FS task.  A device is known  *)
(* by its entry in s.dev and by a file control block of type "dev" whose   *)
(* inode is that entry.                                                    *)
(***************************************************************************)
EXTENDS Fcb

CONSTANTS cachelines,  \* number of chains in the block cache
          Media        \* Media[name][lsn]: the blocks of a device that are not file data

MEMFS_MAJOR == 0

ndev(s) == Len(s.dev)
Dev(s, i) == s.dev[i + 1]

\* What a block of a device holds; the superblock, which FS changes, is in s.sb.
Content(s, fd, lsn) ==
    LET name == Last(s.fcb[fd].path)
    IN  IF lsn = 0 /\ name \in DOMAIN s.sb THEN s.sb[name]
        ELSE IF name \in DOMAIN Media /\ lsn \in DOMAIN Media[name] THEN Media[name][lsn]
        ELSE [k |-> "data"]

\* Register a device; a name that is there already keeps its entry.
devfs_add(s, name, task, mode, blksize, blkcnt) ==
    LET p == <<"dev", name>>
        old == FirstOf({i \in 0..ndev(s) - 1 : Dev(s, i).fid # None /\ s.fcb[Dev(s, i).fid].path = p})
        put(t, f) == [t EXCEPT !.fcb[f].nopen = @ + 1, !.fcb[f].mode = mode \cap AMSK,
                               !.fcb[f].inode = ndev(s), !.fcb[f].blksize = blksize,
                               !.fcb[f].size = blksize * blkcnt, !.fcb[f].storage = DEVFCB,
                               !.dev = Append(@, [fid |-> f, task |-> task]),
                               !.ret = ndev(s)]
        added(t) == put(t, t.ret)
    IN  IF old # None THEN Ret(s, old) ELSE added(fcb_add(s, p, "dev"))

\* The next entry of "/dev/" at or after offs: how far to move on, 0 at the end.
devfs_getdirent(s, offs) ==
    LET i == FirstOf({k \in offs..ndev(s) - 1 : Dev(s, k).fid # None})
    IN  IF i = None THEN 0 ELSE i - offs + 1

-----------------------------------------------------------------------------
(***************************************************************************)
(* A chain of the cache is a sequence of blocks.  It loops when its first  *)
(* block was linked in front of itself: the others are lost, and whoever   *)
(* walks along the chain for anything but that block never comes back.     *)
(***************************************************************************)
Chain(blks, loop) == [blks |-> blks, loop |-> loop]
IsDev(s, fd) == fd \in Fids(s) /\ s.fcb[fd].type = "dev"
PastEnd(s, fd, lsn) == (lsn + 1) * s.fcb[fd].blksize > s.fcb[fd].size
NotDirty == 0
Crit == 1

\* Unlink block i of a chain and link it in front.
ToFront(c, i) ==
    IF i = 1 THEN Chain(<<c.blks[1]>>, TRUE)
    ELSE Chain(<<c.blks[i]>> \o RemoveAt(c.blks, i), c.loop)

\* Mutant: the caller is suspended and the driver is not asked.
cache_getblock_mute(s, fd, lsn) ==
    LET j == lsn % cachelines
        i == FirstOf({k \in DOMAIN s.cache[j].blks : /\ s.cache[j].blks[k].fd = fd
                                                     /\ s.cache[j].blks[k].lsn = lsn})
    IN  IF i # None THEN [s EXCEPT !.blk = lsn] ELSE [s EXCEPT !.blk = None, !.ackdelayed = TRUE]

\* A block that is not in its chain is asked of the driver, and the caller
\* is suspended; a block of an empty chain is not.  s.blk is the block.
cache_getblock(s, fd, lsn) ==
    LET j == lsn % cachelines
        c == s.cache[j]
        i == FirstOf({k \in DOMAIN c.blks : c.blks[k].fd = fd /\ c.blks[k].lsn = lsn})
    IN  IF ~ IsDev(s, fd) \/ c.blks = <<>> THEN [s EXCEPT !.blk = None]
        ELSE IF PastEnd(s, fd, lsn) THEN [seterr(s, "EFAULT") EXCEPT !.blk = None]
        ELSE IF i # None THEN [s EXCEPT !.cache[j] = ToFront(c, i), !.blk = lsn]
        ELSE IF c.loop THEN Hang(s)
        ELSE [s EXCEPT !.blk = None, !.ackdelayed = TRUE,
                       !.out = Append(@, [to |-> Dev(s, s.fcb[fd].inode).task, evt |-> "DRV_read",
                                            fd |-> fd, lsn |-> lsn, pid |-> s.ctx])]

\* Store a block in front of its chain.  The search compares the whole fd
\* field, so that it finds clean blocks only.  s.ret is the result.
cache_setblock(s, fd, lsn, prio) ==
    LET j == lsn % cachelines
        c == s.cache[j]
        i == FirstOf({k \in DOMAIN c.blks : /\ c.blks[k].fd = fd /\ c.blks[k].lsn = lsn
                                            /\ c.blks[k].prio = 0})
        new == [fd |-> fd, lsn |-> lsn, prio |-> 0]
        front == IF i # None THEN ToFront(c, i) ELSE Chain(<<new>> \o c.blks, c.loop)
    IN  IF ~ IsDev(s, fd) \/ s.fcb[fd].blksize <= 1 THEN Ret(s, FALSE)
        ELSE IF PastEnd(s, fd, lsn) THEN Ret(seterr(s, "EFAULT"), FALSE)
        ELSE IF i = None /\ c.loop THEN Hang(s)
        ELSE [s EXCEPT !.ret = TRUE,
                       !.cache[j] = [front EXCEPT !.blks[1].prio = (prio * 15) % 16]]

\* Remove the blocks of a device, chain after chain from the last one, until
\* there are enough (0: all).
cache_freeblocks(s, fd, needed) ==
    LET line(t, j) ==
            LET c == t.cache[j]
                keep == SelectSeq(c.blks, LAMBDA b : b.fd # fd)
            IN  IF (needed > 0 /\ t.ret >= needed) \/ c.blks = <<>> THEN t
                ELSE IF c.loop THEN Hang(t)
                ELSE [t EXCEPT !.cache[j].blks = keep, !.ret = @ + Len(c.blks) - Len(keep)]
    IN  IF ~ IsDev(s, fd) \/ s.fcb[fd].blksize <= 1 THEN Ret(s, 0)
        ELSE FoldLeft(line, Ret(s, 0), [k \in 1..cachelines |-> cachelines - k])

\* Send the dirty blocks to their drivers in the order of their priority.
cache_flush(s) ==
    LET dirty == {p \in 1..4 : \E j \in DOMAIN s.cache : \E k \in DOMAIN s.cache[j].blks :
                                   s.cache[j].blks[k].prio = p}
        all == UNION {{[to |-> Dev(s, s.fcb[b.fd].inode).task, evt |-> "DRV_write",
                        fd |-> b.fd, lsn |-> b.lsn, pid |-> s.ctx]
                       : b \in {x \in Range(s.cache[j].blks) : x.prio \in dirty}}
                      : j \in DOMAIN s.cache}
    IN  IF \E j \in DOMAIN s.cache : s.cache[j].loop THEN Hang(s)
        ELSE [s EXCEPT !.out = @ \o SetToSeq(all), !.inflush = Cardinality(all)]
=============================================================================
