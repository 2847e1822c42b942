-------------------------------- MODULE MCFs --------------------------------
(***************************************************************************)
(* A ramdisk with a directory, a file of two blocks, a link and a mount    *)
(* point; a read-only disk with a directory, a file, a link and a union;   *)
(* two tasks and a driver.  Sizes count directory entries and data units;  *)
(* a block has four.                                                       *)
(***************************************************************************)
EXTENDS FsTask

MCPids == {1, 2, 3}
MCBucket == [p \in MCPids |-> p]
Driver == 3

inode(type, size, flag, sec) ==
    [k |-> "inode", type |-> type, size |-> size, flag |-> flag, sec |-> sec,
     ents |-> <<>>, to |-> NULL]
folder(ents) == [inode("dir", Len(ents) + 1, "inline", 0) EXCEPT !.ents = ents]
entry(name, fid, dir) == [name |-> name, fid |-> fid, dir |-> dir]
rel(segs) == [abs |-> FALSE, segs |-> segs]

MCMedia ==
    [root |-> (1 :> folder(<<entry("etc", 2, TRUE), entry("f", 4, FALSE), entry("ln", 5, FALSE),
                             entry("mnt", 6, TRUE)>>)
            @@ 2 :> inode("dir", 2, "direct", 3)
            @@ 3 :> [k |-> "dir", ents |-> <<entry("a", 7, FALSE)>>]
            @@ 4 :> inode("text", 6, "sd", 8)
            @@ 5 :> [inode("link", 5, "inline", 0) EXCEPT !.to = rel(<<"etc", "a">>)]
            @@ 6 :> folder(<<>>)
            @@ 7 :> inode("app", 2, "inline", 0)
            @@ 8 :> [k |-> "sd", next |-> <<9, 10>>]),
     hd   |-> (1 :> folder(<<entry("b", 2, FALSE), entry("u", 4, TRUE), entry("p", 8, TRUE),
                             entry("v", 9, TRUE)>>)
            @@ 2 :> inode("text", 4, "direct", 3)
            @@ 4 :> [inode("union", 1, "inline", 0) EXCEPT !.to = <<Abs(<<"etc", "">>), Abs(<<"mnt", "">>)>>]
            @@ 8 :> folder(<<entry("q", 7, TRUE)>>)
            @@ 7 :> folder(<<entry("x", 12, TRUE), entry("y", 2, FALSE)>>)
            @@ 9 :> [inode("union", 1, "inline", 0) EXCEPT !.to = <<Abs(<<"mnt", "p", "...", "x">>), Abs(<<"etc", "">>)>>]
            @@ 12 :> folder(<<entry("z", 2, FALSE)>>))]

super(numsec, freesec) ==
    [k |-> "super", root |-> 1, bs |-> 4, numsec |-> numsec, freesec |-> freesec]
MCSuper == [root |-> super(13, 12), hd |-> super(13, 13)]
MCFstab == <<[dev |-> <<"dev", "root">>, file |-> <<"">>, pass |-> 1]>>

-----------------------------------------------------------------------------
call(pid, evt) == [pid |-> pid, evt |-> evt]
path(evt, pid, p) == [pid |-> pid, evt |-> evt, p |-> p]
fopen(pid, p, mode, fd) == [pid |-> pid, evt |-> "fopen", p |-> p, mode |-> mode, fd |-> fd]
onfd(evt, pid, fd) == [pid |-> pid, evt |-> evt, fd |-> fd]
mknod(name, mode, bs, cnt) ==
    [pid |-> Driver, evt |-> "mknod", name |-> name, mode |-> mode, blksize |-> bs, blkcnt |-> cnt]
opendir(pid, p) == [pid |-> pid, evt |-> "opendir", p |-> p, fd |-> None, buf |-> NULL]
fread(pid, fd, size) == [pid |-> pid, evt |-> "fread", fd |-> fd, size |-> size]
fseek(pid, fd, offs, whence) ==
    [pid |-> pid, evt |-> "fseek", fd |-> fd, offs |-> offs, whence |-> whence]
setblock(lsn) == [evt |-> "setblock", name |-> "hd", lsn |-> lsn]

Rw == {"r", "w"}
File == Abs(<<"f">>)
Link == Abs(<<"ln">>)
Tty == Abs(<<"dev", "tty">>)
Etc == Abs(<<"etc", "">>)
Mounted == <<call(1, "mountfs")>>
Clients == {1, 2}

\* Opening, duplicating and closing, with a device that has one owner.
Descriptors ==
    [pre |-> Mounted \o <<mknod("tty", Rw \cup {"excl"}, 1, 0)>>, low |-> {FALSE}, max |-> 5,
     calls |-> UNION {{fopen(p, File, Rw, None), fopen(p, Tty, Rw \cup {"excl"}, None),
                       fopen(p, Abs(<<"etc", "a">>), Rw, 0), onfd("fclose", p, 0),
                       onfd("dup", p, 0), onfd("dup2", p, 0) @@ [fd2 |-> 1],
                       call(p, "fcloseall")} : p \in Clients}
               \cup {call(1, "exit"), onfd("ioctl", 2, 0), onfd("fstat", 1, 0), onfd("fwrite", 1, 0)}]

\* Finding files by all kinds of paths, and moving about.
Paths ==
    [pre |-> Mounted, low |-> {FALSE}, max |-> 5,
     calls |-> UNION {{path("chdir", p, Etc), path("chdir", p, Abs(<<"">>)), path("lstat", p, Link),
                       fopen(p, rel(<<"a">>), Rw, None), onfd("fclose", p, 0)} : p \in Clients}
               \cup {path("chroot", 1, Etc), path("realpath", 2, Abs(<<"etc", "..", "f">>)),
                     path("realpath", 1, Abs(<<"...", "a">>)), path("lstat", 1, Abs(<<"f", "x">>)),
                     path("lstat", 2, Abs(<<"dev", "no">>)), path("lstat", 2, Abs(<<"etc">>)), path("lstat", 1, rel(<<".", "..", "f">>)),
                     fopen(1, Abs(<<"new">>), Rw \cup {"creat"}, None), call(1, "getcwd"),
                     opendir(1, Etc), call(2, "fcloseall"), path("fsck", 1, Abs(<<"dev", "root">>))}]

\* Reading files and the device list; a driver that comes and goes.
Reading ==
    [pre |-> Mounted, low |-> {FALSE}, max |-> 6,
     calls |-> {fopen(1, File, Rw, None), fread(1, 0, 3), fread(1, 0, 8), fseek(1, 0, 4, "set"),
                fseek(1, 0, -2, "end"), fseek(1, 0, -9, "cur"), onfd("rewind", 1, 0), onfd("ftell", 1, 0),
                onfd("feof", 1, 0), onfd("ferror", 1, 0), onfd("fclrerr", 1, 0), onfd("fflush", 1, 0),
                opendir(2, Abs(<<"dev", "">>)), onfd("readdir", 2, 0), fread(2, 0, 1),
                mknod("tty", Rw, 1, 0), mknod("lp", {"w"}, 1, 0), call(Driver, "exit"),
                onfd("dstat", 2, 2), path("umount", 2, Abs(<<"mnt", "">>)), call(1, "unknown")}]

\* A disk whose driver has sent a block for each chain, mounted on "/mnt/".
OnDisk(segs) == Abs(<<"mnt">> \o segs)
Disk ==
    [pre |-> Mounted \o <<mknod("hd", {"r"}, 4, 13), setblock(0), setblock(6), setblock(7),
                          setblock(8), setblock(9), path("lstat", 1, OnDisk(<<"">>)),
                          [pid |-> 1, evt |-> "mount", dev |-> <<"dev", "hd">>, file |-> <<"mnt", "">>]>>,
     low |-> {FALSE}, max |-> 5,
     calls |-> UNION {{fopen(p, OnDisk(<<"b">>), {"r"}, None), fread(p, 0, 4), onfd("fclose", p, 0)} : p \in Clients}
               \cup {opendir(1, OnDisk(<<"u">>)), onfd("readdir", 1, 0), onfd("rewind", 1, 0),
                     path("lstat", 2, OnDisk(<<"u", "a">>)), path("lstat", 2, OnDisk(<<"u", "..", "b">>)), path("umount", 2, OnDisk(<<"">>)),
                     path("realpath", 1, OnDisk(<<"...", "a">>)), call(Driver, "exit")}]

\* A union with a joker on that disk, whose directory the caller has to read.
\* Its entry may be used for another file before the entries come.
Jokers ==
    [Disk EXCEPT !.pre = @ \o <<setblock(1), setblock(2), path("lstat", 1, OnDisk(<<"p">>))>>, !.max = 6,
                 !.calls = {opendir(1, OnDisk(<<"v">>)), onfd("readdir", 1, 0), onfd("fclose", 1, 0),
                            path("umount", 2, Etc), path("lstat", 2, File), path("lstat", 2, OnDisk(<<"p", "q">>)),
                            path("lstat", 2, OnDisk(<<"p", "q", "x">>))}]

\* Requests of which any may find that memory is low.
Low ==
    [pre |-> Mounted \o <<mknod("hd", {"r"}, 4, 13), setblock(0), setblock(6)>>, low |-> {TRUE, FALSE}, max |-> 4,
     calls |-> {fopen(1, File, Rw, None), path("lstat", 2, Etc), path("chdir", 2, Etc), onfd("fclose", 1, 0),
                path("umount", 1, Abs(<<"dev", "">>)),
                [pid |-> 2, evt |-> "mount", dev |-> <<"dev", "hd">>, file |-> <<"etc", "">>]}]

MCScenarios ==
    [descriptors |-> Descriptors, paths |-> Paths, reading |-> Reading, disk |-> Disk, jokers |-> Jokers,
     low |-> Low]
=============================================================================
