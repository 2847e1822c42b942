-------------------------------- MODULE Vfs --------------------------------
(***************************************************************************)
(* The mount table, the registered file systems ("devfs" and "fsz"), and   *)
(* finding the file control block of a path.  A path a task gives is       *)
(* [abs, segs]: whether it starts with a slash, and its names.             *)
(***************************************************************************)
EXTENDS Fsz

CONSTANTS Fstab,       \* the lines of /etc/fstab: [dev, file, pass]
          PageSize     \* bytes the ramdisk grows by

Tc(s) == s.tc[Bucket[s.ctx]]
Abs(segs) == [abs |-> TRUE, segs |-> segs]

\* Make a path absolute, under the root directory of the task or after its
\* working directory.  "." goes if a slash follows, and "..." with the "../"
\* behind it; any other ".." stays, for what is before it may be a link.
\* Dots at the end are cut off.
canonize(s, p) ==
    LET base == Front(s.fcb[IF p.abs THEN Tc(s).root ELSE Tc(s).work].path)
        slash == p.segs = <<>> \/ Last(p.segs) = ""
        names == IF slash /\ p.segs # <<>> THEN Front(p.segs) ELSE p.segs
        step(r, i) ==
            LET closed == slash \/ i < Len(names)
            IN  IF names[i] = "." /\ closed THEN r
                ELSE IF names[i] = ".." /\ closed /\ r # <<>> /\ Last(r) = "..." THEN Front(r)
                ELSE Append(r, names[i])
        nodots(r) == IF r # <<>> /\ Last(r) \in {".", "..", "..."} THEN Append(Front(r), "") ELSE r
    IN  nodots(FoldLeft(step, base, [i \in DOMAIN names |-> i])) \o (IF slash THEN <<"">> ELSE <<>>)

pathcat(p, q) ==
    IF PathEnd(q) THEN p ELSE (IF p # <<>> /\ Last(p) = "" THEN Front(p) ELSE p) \o q

\* The file system on a device: s.ret.
KindOf(t) == Ret(t, IF t.ret THEN "fsz" ELSE "none")
OnBlock0(t, fd) == IF t.blk = None THEN Ret(t, "none") ELSE KindOf(detect(t, fd))
fsdrv_detect(s, fd) ==
    IF fd = DEVFCB THEN Ret(s, "devfs") ELSE OnBlock0(readblock(s, fd, 0), fd)

-----------------------------------------------------------------------------
\* Device fd, which has file system t.ret, is mounted on directory ff.
NewMount(t, fd, ff) ==
    LET i == FirstOf({k \in DOMAIN t.mtab : t.mtab[k].mountpoint = ff})
        new == [storage |-> fd, mountpoint |-> ff, fstype |-> t.ret]
    IN  IF i # None
        THEN [t EXCEPT !.fcb[t.mtab[i].storage].nopen = @ - 1, !.mtab[i] = new]
        ELSE [t EXCEPT !.fcb[ff].nopen = @ + 1, !.mtab = Append(@, new)]
SetMount(t, fd, ff) ==
    [t EXCEPT !.fcb[ff].fs = t.ret,
              !.fcb[ff].mode = IF ff = DEVFCB THEN {"r"} ELSE t.fcb[fd].mode,
              !.fcb[ff].storage = IF ff = DEVFCB THEN @ ELSE fd,
              !.fcb[fd].nopen = @ + 1,
              !.ret = None]

RECURSIVE mtab_add(_, _, _)
MountRest(t, ff) ==
    IF ff = ROOTFCB /\ ~ t.rootmounted
    THEN Ret([mtab_add(t, <<"dev", "">>, <<"dev", "">>) EXCEPT !.rootmounted = TRUE], None)
    ELSE t
MountKind(t, fd, ff) ==
    IF t.ret # "none" THEN MountRest(SetMount(NewMount(t, fd, ff), fd, ff), ff)
    ELSE IF ~ t.rootmounted \/ t.mtab = <<>> THEN [t EXCEPT !.mode = "exit"]
    ELSE Ret(seterr(t, "ENOFS"), None)
MountOn(s, fd, ff) ==
    LET no(e) == Ret(IF s.err = "" THEN seterr(s, e) ELSE s, None)
    IN  IF fd = None \/ (fd # DEVFCB /\ s.fcb[fd].type \notin {"dev", "file"}) THEN no("ENODEV")
        ELSE IF ff = None \/ s.fcb[ff].type # "dir" THEN no("ENOTDIR")
        ELSE IF (fd = ff /\ s.rootmounted) \/ (ff # ROOTFCB /\ s.mtab = <<>>)
             THEN Ret(seterr(s, "EINVAL"), None)
        ELSE MountKind(fsdrv_detect(s, fd), fd, ff)

\* Mount the device of a path on the directory of a path; both must have a
\* file control block already.  Mounting the root mounts "/dev/" too.
mtab_add(s, dev, file) == MountOn(s, fcb_get(s, dev), fcb_get(s, file))

mtab_del(s, p) ==
    LET q == canonize(s, p)
        i == FirstOf({k \in DOMAIN s.mtab : q \in {s.fcb[s.mtab[k].storage].path,
                                                   s.fcb[s.mtab[k].mountpoint].path}})
    IN  IF i = None THEN Ret(s, FALSE) ELSE [s EXCEPT !.ret = TRUE, !.mtab = RemoveAt(@, i)]

\* Mount the lines of fstab pass after pass; the ramdisk is the root if the
\* first pass left none.
OrRamdisk(t, pass) ==
    IF pass = 1 /\ ~ t.rootmounted THEN mtab_add(t, <<"dev", "root">>, <<"">>) ELSE t
mtab_fstab(s) ==
    LET pass(t, n) ==
            LET line(z, l) == IF l.pass = n THEN mtab_add(z, l.dev, l.file) ELSE z
            IN  IF t.mode # "run" THEN t ELSE OrRamdisk(FoldLeft(line, t, Fstab), n)
    IN  FoldLeft(pass, s, [n \in 1..9 |-> n])

\* The list of devices ends with one that is there.
Unlist(t, idx) ==
    LET d == [t.dev EXCEPT ![idx + 1].fid = None]
        used == {i \in DOMAIN d : d[i].fid # None}
    IN  [t EXCEPT !.dev = SubSeq(d, 1, IF used = {} THEN 0 ELSE Max(used))]

\* Take a device away, with its mounts, its files and its blocks.
devfs_del(s, idx) ==
    LET fd == Dev(s, idx).fid
        unmount(t, i) ==
            IF i \notin DOMAIN t.mtab \/ t.mtab[i].storage # fd THEN t
            ELSE [fcb_del(t, t.mtab[i].mountpoint) EXCEPT !.mtab = RemoveAt(@, i)]
        drop(t, f) == fcb_del([t EXCEPT !.fcb[f].nopen = 0], f)
        file(t, f) == IF f \in Fids(t) /\ t.fcb[f].storage = fd THEN drop(t, f) ELSE t
        unmounted == FoldLeft(unmount, s, [i \in DOMAIN s.mtab |-> i])
        closed == FoldLeft(file, unmounted, [i \in 1..s.nfcb |-> i - 1])
    IN  IF idx >= ndev(s) \/ fd = None THEN s
        ELSE Unlist(drop(cache_freeblocks(closed, fd, 0), fd), idx)

-----------------------------------------------------------------------------
\* The mount whose directory is the longest part of a path.
MountOf(s, abs) ==
    LET at == {k \in DOMAIN s.mtab : Under(s.fcb[s.mtab[k].mountpoint].path, abs)}
        len(k) == Len(s.fcb[s.mtab[k].mountpoint].path)
    IN  CHOOSE k \in at : \A j \in at : len(k) > len(j) \/ (len(k) = len(j) /\ k <= j)

\* Enter what locate found, under the path the walk has left.
Fill(t, g, fd, fs, loc) ==
    [t EXCEPT !.fcb[g].fs = fs, !.fcb[g].mode = t.fcb[fd].mode,
              !.fcb[g].storage = fd, !.fcb[g].inode = loc.inode, !.fcb[g].size = loc.size]
Filled(t, fd, fs, loc) == Fill(t, t.ret, fd, fs, loc)
Enter(s, f, fd, fs, loc) ==
    LET p == loc.pre \o loc.path
        abs == IF loc.type = "dir" /\ (p = <<>> \/ Last(p) # "") THEN Append(p, "") ELSE p
        type == IF loc.type \in {"dir", "union"} THEN loc.type ELSE "file"
    IN  Filled(IF f # None THEN Ret(s, f) ELSE fcb_add(s, abs, type), fd, fs, loc)

\* The ramdisk gets one page more when it is full, once for a directory.
CanGrow(s, fd, re) ==
    /\ Last(s.fcb[fd].path) = "root" /\ Dev(s, s.fcb[fd].inode).task = MEMFS_MAJOR
    /\ re # s.loc.inode /\ s.fcb[fd].size + PageSize <= MaxSize
Grow(s, fd) == resizefs([s EXCEPT !.fcb[fd].size = @ + PageSize], fd)

\* Where a link leads, with the rest of the path behind it.
LinkTarget(u) ==
    pathcat(IF u.loc.to.abs THEN canonize(u, u.loc.to)
            ELSE pathcat(Append(Front(u.loc.pre), ""), u.loc.to.segs), u.loc.path)
OrNotFound(z) == IF z.ret = None /\ z.err = "" THEN seterr(z, "ENOENT") ELSE z

RECURSIVE Lookup(_, _, _, _)

\* What becomes of a path p on device fd: found as file control block f or
\* not, or looked up again behind a link, in the members of a union, or
\* after the ramdisk has grown.
Result(u, p, creat, re, f, fd) ==
    LET st == u.loc.status
        no(z, e) == Ret(IF e = "" THEN z ELSE seterr(z, e), None)
        member(z, c) ==
            IF z.ret # None \/ (creat /\ z.err = "EISUNI") THEN z
            ELSE IF creat THEN seterr(z, "EISUNI")
            ELSE Lookup(z, Abs(pathcat(canonize(z, c), u.loc.path)), creat, 0)
        link == st = "SYMINPATH"
    IN  IF u.mode = "hung" \/ u.ackdelayed THEN Ret(u, None)
        ELSE IF link \/ (st = "NOSPACE" /\ CanGrow(u, fd, re))
             THEN Lookup(IF link THEN u ELSE Grow(u, fd), IF link THEN Abs(LinkTarget(u)) ELSE p,
                         creat, IF link THEN re ELSE u.loc.inode)
        ELSE CASE st = "SUCCESS" -> OrNotFound(Enter(u, f, fd, "fsz", u.loc))
               [] st = "NOTFOUND" -> no(u, "ENOENT")
               [] st = "FSERROR" -> no(u, "EBADFS")
               [] st \in {"NOBLOCK", "UPDIR", "FILEINPATH"} -> OrNotFound(no(u, ""))
               [] st = "UNIONINPATH" -> OrNotFound(FoldLeft(member, no(u, ""), u.loc.to))
               [] OTHER -> no(u, "ENOSPC")

\* Go on with file system t.ret of the device mounted on mp.
LocateOn(t, p, creat, re, abs, f, fd, mp) ==
    IF t.ret # "fsz" THEN Ret(seterr(t, "ENOFS"), None)
    ELSE Result(locate(t, fd, mp, SubSeq(abs, Len(mp) + 1, Len(abs)), creat), p, creat, re, f, fd)
LookupAbs(s, p, creat, re, abs, f, m) ==
    IF s.mode = "hung" THEN Ret(s, None)
    ELSE IF creat /\ \E i \in DOMAIN abs : abs[i] = "..." THEN Ret(seterr(s, "ENOENT"), None)
    ELSE IF f # None /\ ~ (f = ROOTFCB /\ s.fcb[f].inode = 0) THEN Ret(s, f)
    ELSE IF m.storage \notin Fids(s) \/ s.fcb[m.storage].type \notin {"dev", "file"}
         THEN Ret(seterr(s, "ENODEV"), None)
    ELSE LocateOn(IF m.fstype = "none" THEN fsdrv_detect(s, m.storage) ELSE Ret(s, m.fstype),
                p, creat, re, abs, f, m.storage, Front(s.fcb[m.mountpoint].path))
LookupIn(s, p, creat, re, abs) ==
    LookupAbs(s, p, creat, re, abs, fcb_get(s, abs), s.mtab[MountOf(s, abs)])

\* Find the file control block of a path: s.ret, None with errno otherwise.
Lookup(s, p, creat, re) == LookupIn(s, p, creat, re, canonize(s, p))

lookup(s, p, creat) == Lookup(s, p, creat, 0)

\* No check of a file system is ever under way, which the first test needs.
dofsck(s, fd) == Ret(seterr(s, "EPERM"), FALSE)

\* What stat reports of a file: s.ret.
OrKnown(t, known) == Ret(t, IF t.ret = NULL THEN known ELSE t.ret)
statfs(s, f) ==
    LET e == s.fcb[f]
        known == [type |-> e.type, size |-> e.size]
    IN  IF ~ Live(s, f) THEN Ret(s, NULL)
        ELSE IF e.type = "dev" \/ e.fs # "fsz" THEN Ret(s, known)
        ELSE OrKnown(stat(s, e.storage, e.inode), known)

\* The place of the joker in the path of a union member, 0 if it has none or
\* nothing is behind it.
Joker(c) ==
    LET at == {k \in 1..Len(c.segs) - 1 : c.segs[k] = "..."}
    IN  IF at = {} THEN 0 ELSE Min(at)

Listed(y) == IF y.ret = None \/ y.ret \in Range(y.list) THEN y ELSE [y EXCEPT !.list = Append(@, y.ret)]

\* Count the members as opened: the zero that ends the list is counted too,
\* as the root directory.
OpenMembers(u, f) ==
    LET open(z, g) == [z EXCEPT !.fcb[g].nopen = @ + 1]
    IN  IF u.list = <<>> THEN Ret([u EXCEPT !.fcb[f].uni = NULL], None)
        ELSE Ret([FoldLeft(open, u, Append(u.list, 0)) EXCEPT !.fcb[f].uni = u.list], None)

\* Go on in each directory among the entries a joker stands for.  A block
\* that is missing does not end this.
Dive(y, c, buf) ==
    LET k == Joker(c)
        under(e) == Abs(SubSeq(c.segs, 1, k - 1) \o <<e.name>> \o SubSeq(c.segs, k + 1, Len(c.segs)))
        enter(z, e) == IF e.dir THEN Listed(lookup(z, under(e), FALSE)) ELSE z
    IN  FoldLeft(enter, y, buf)

\* Look up the members of union f, once each.  For a joker the directory it
\* stands in is read by the caller: s.ret is that directory when buf does not
\* have its entries yet, and None in the end.  The length of an entry then
\* takes the place of the member's: what follows a joker is skipped, as lists
\* are shorter than that.
RECURSIVE Members(_, _, _, _)
AfterMember(y, f, rest, buf) == IF y.ackdelayed THEN Ret(y, None) ELSE Members(Listed(y), f, rest, buf)
AfterJoker(y, f, c, rest, buf) ==
    IF y.ackdelayed THEN Ret(y, None)
    ELSE IF y.ret = None \/ y.fcb[y.ret].fs # "fsz" THEN Members(y, f, rest, buf)
    ELSE IF buf = NULL THEN y
    ELSE OpenMembers(Dive(y, c, buf), f)
Members(z, f, cs, buf) ==
    IF cs = <<>> THEN OpenMembers(z, f)
    ELSE IF Joker(Head(cs)) = 0 THEN AfterMember(lookup(z, Head(cs), FALSE), f, Tail(cs), buf)
    ELSE AfterJoker(lookup(z, Abs(Append(SubSeq(Head(cs).segs, 1, Joker(Head(cs)) - 1), ".")), FALSE),
                    f, Head(cs), Tail(cs), buf)
UnionBlock(t, f, buf) ==
    IF t.blk = None \/ t.ackdelayed THEN Ret(t, None)
    ELSE Members([t EXCEPT !.list = <<>>], f, Content(t, t.fcb[f].storage, t.fcb[f].inode).to, buf)
fcb_unionlist_build(s, f, buf) ==
    IF ~ Live(s, f) \/ s.fcb[f].type # "union" \/ s.fcb[f].fs # "fsz" THEN Ret(s, None)
    ELSE UnionBlock(read(s, s.fcb[f].storage, s.fcb[f].inode, 0, s.fcb[s.fcb[f].storage].blksize), f, buf)
=============================================================================
