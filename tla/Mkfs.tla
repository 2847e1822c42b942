-------------------------------- MODULE Mkfs --------------------------------
(***************************************************************************)
(* The image builder (tools/mkfs.c) as operators on an FS/Z image, and the *)
(* reader of the boot image in the core (core/fs.c).                       *)
(*                                                                         *)
(* An image is a function from logical sector numbers to sectors.  Data is *)
(* counted in units: a sector holds secsize of them, and an inode has room *)
(* for inlinesize of them behind its header.  Unit 0 is a zero byte.       *)
(*   [k |-> "super", root, numsec, freesec]                                *)
(*   [k |-> "inode", type, mime, size, flag, sec, numblocks, numlinks,     *)
(*    crc, ents, dcrc, data, next, to]                                     *)
(*   [k |-> "sd", next]  a sector directory   [k |-> "data", data]         *)
(* A checksum is the part of the sector that it was calculated from; ents  *)
(* has an entry [name, fid, dir] for every name, dir if the name ends in a *)
(* slash.  A path is a sequence of names, with "" for a final slash.       *)
(***************************************************************************)
EXTENDS Integers, Sequences, SequencesExt, FiniteSets, FiniteSetsExt

CONSTANTS secsize,      \* units in a sector
          inlinesize,   \* units of inlined data in an inode
          sdinline,     \* entries of an inlined sector directory
          sdmax,        \* entries of a sector directory
          dirmax,       \* entries of an inlined directory
          Order,        \* the names in the order of strcasecmp
          Longer        \* the pairs of names of which the first starts the second

Size(img) == Cardinality(DOMAIN img)
Sealed(in) ==
    [in EXCEPT !.crc = <<in.type, in.mime, in.size, in.flag, in.sec, in.numblocks, in.numlinks>>]
Rank(name) == CHOOSE i \in DOMAIN Order : Order[i] = name
First(S) == IF S = {} THEN 0 ELSE Min(S)

\* Append sectors to an image.
Grown(img, secs) ==
    [n \in 0..Size(img) + Len(secs) - 1 |-> IF n < Size(img) THEN img[n] ELSE secs[n - Size(img) + 1]]

add_superblock == [n \in {0} |-> [k |-> "super", root |-> 0, numsec |-> 0, freesec |-> 0]]

\* Append an inode.  A symbolic link and a union have their text inlined.
add_inode(img, type, mime, to) ==
    Grown(img, <<Sealed([k |-> "inode", type |-> type, mime |-> mime,
                         size |-> IF type = "dir" THEN 1 ELSE Len(to),
                         flag |-> IF type = "dir" THEN "inline" ELSE "direct",
                         sec |-> IF type = "dir" THEN Size(img) ELSE 0,
                         numblocks |-> 0, numlinks |-> 0, crc |-> <<>>, ents |-> <<>>,
                         dcrc |-> <<>>, data |-> <<>>, next |-> <<>>, to |-> to])>>)

\* A directory with one more entry, sorted; an inode with one more link.
WithEntry(in, e) ==
    LET ents == SortSeq(Append(in.ents, e), LAMBDA x, y : Rank(x.name) < Rank(y.name))
    IN  Sealed([in EXCEPT !.ents = ents, !.dcrc = ents, !.size = @ + 1])
Linked(in) == Sealed([in EXCEPT !.numlinks = @ + 1])

\* Register an inode under a path, from directory d on.
RECURSIVE link_inode(_, _, _, _)
link_inode(img, inode, path, d) ==
    LET ents == img[d].ents
        more == Len(path) > 1
        i == First({k \in DOMAIN ents : ents[k].name = Head(path) /\ ents[k].dir = more})
        e == [name |-> Head(path), fid |-> inode, dir |-> more \/ img[inode].type = "dir"]
    IN  IF i # 0 THEN link_inode(img, inode, Tail(path), ents[i].fid)
        ELSE [img EXCEPT ![d] = WithEntry(@, e), ![inode] = Linked(@)]

\* Mutant: the sectors of a file are numbered from the sector directory on.
FirstData_sd(inode, sd) == inode + 1

\* The first data sector of a file that has a sector directory.
FirstData(inode, sd) == inode + 1 + sd

\* What the name and the content say about the type.
FileType(f) ==
    CASE f.ext = "so" -> <<"appl", "sharedlib">>
      [] f.ext \in {"h", "c", "md", "txt", "conf"} -> <<"text", "plain">>
      [] f.ext \in {"htm", "html"} -> <<"text", "html">>
      [] f.ext \in {"svg", "gif", "png"} -> <<"imag", f.ext>>
      [] f.ext = "jpg" -> <<"imag", "jpeg">>
      [] f.ext = "bmp" -> <<"imag", "bitmap">>
      [] OTHER -> IF f.ascii THEN <<"text", "plain">>
                  ELSE <<"appl", IF f.elf THEN "executable" ELSE "octet-stream">>

\* A file that needs a longer sector directory than there is.
TooLong(f) == Len(f.data) > secsize /\ (Len(f.data) + secsize - 1) \div secsize > sdmax

\* Append a file: its data in the inode, in one sector, or in sectors that a
\* directory lists.  Sectors of zeros are left out of the directory unless
\* the image is an initrd; the others keep their place in the file.
add_file(img, f, path, initrd) ==
    LET n == Len(f.data)
        inode == Size(img)
        j == (n + secsize - 1) \div secsize
        block(i) == [x \in 1..secsize |-> IF (i - 1) * secsize + x <= n
                                          THEN f.data[(i - 1) * secsize + x] ELSE 0]
        empty(i) == \A x \in 1..secsize : block(i)[x] = 0
        kept(i) == initrd \/ ~ empty(i)
        data(i) == [k |-> "data", data |-> block(i)]
        sd == IF j > sdinline THEN 1 ELSE 0
        before(i) == Cardinality({x \in 1..i - 1 : kept(x)})
        next == [i \in 1..j |-> IF kept(i) THEN FirstData(inode, sd) + before(i) ELSE 0]
        all == (IF sd = 1 THEN <<[k |-> "sd", next |-> next]>> ELSE <<>>) \o [i \in 1..j |-> data(i)]
        made == add_inode(img, "appl", "octet-stream", <<>>)
        typed == [made[inode] EXCEPT !.type = FileType(f)[1], !.mime = FileType(f)[2], !.size = n]
        in == CASE n <= inlinesize ->
                      [typed EXCEPT !.sec = inode, !.flag = "inline", !.data = f.data]
                [] n > inlinesize /\ n <= secsize ->
                      [typed EXCEPT !.sec = IF empty(1) THEN 0 ELSE inode + 1,
                                    !.numblocks = IF empty(1) THEN 0 ELSE 1]
                [] OTHER -> [typed EXCEPT !.sec = inode + 1, !.numblocks = sd + before(j + 1),
                                          !.flag = IF sd = 1 THEN "sd" ELSE "sdinline",
                                          !.next = IF sd = 1 THEN <<>> ELSE next]
        body == CASE n <= inlinesize -> <<>>
                  [] n > inlinesize /\ n <= secsize -> <<data(1)>>
                  [] OTHER -> SubSeq(all, 1, sd + before(j + 1))
    IN  link_inode(Grown([made EXCEPT ![inode] = Sealed(in)], body), inode, path, made[0].root)

\* The start of an image and its end.
NewImage ==
    LET img == add_inode(add_superblock, "dir", "fs-root", <<>>)
    IN  [img EXCEPT ![0].root = 1, ![1] = Linked(@)]
Finished(img) == [img EXCEPT ![0].numsec = Size(img), ![0].freesec = Size(img)]

-----------------------------------------------------------------------------
(***************************************************************************)
(* Reading an image: mkfs locate and cat, and fs_locate of the core.       *)
(***************************************************************************)
RECURSIVE locate(_, _, _)
locate(img, d, path) ==
    LET ents == IF img[d].k = "inode" THEN img[d].ents ELSE <<>>
        last == Len(path) = 1
        i == First({k \in DOMAIN ents : ents[k].name = Head(path) /\ (last \/ ents[k].dir)})
    IN  IF path = <<>> \/ path = <<"">> THEN d
        ELSE IF i = 0 THEN 0
        ELSE IF last THEN ents[i].fid
        ELSE locate(img, ents[i].fid, Tail(path))

\* What memory holds at an address when the image lies at address 0: other if
\* that is not file data.
other == 99
Unit(img, at) ==
    LET s == IF at \div secsize \in DOMAIN img THEN img[at \div secsize] ELSE [k |-> "none"]
        x == (at % secsize) + 1
        y == x - (secsize - inlinesize)
    IN  CASE s.k = "data" -> s.data[x]
          [] s.k = "inode" -> IF y \in DOMAIN s.data THEN s.data[y] ELSE other
          [] OTHER -> other
Read(img, at, n) == [i \in 1..n |-> Unit(img, at + i - 1)]

\* Where the data of an inode starts.
Start(img, inode) ==
    LET in == img[inode]
    IN  CASE in.flag = "inline" -> inode * secsize + secsize - inlinesize
          [] in.flag = "sdinline" -> in.next[1] * secsize
          [] in.flag = "sd" -> img[in.sec].next[1] * secsize
          [] OTHER -> in.sec * secsize
cat(img, inode) == Read(img, Start(img, inode), img[inode].size)

\* Mutant: the last entry that starts with the name is taken.
NameAt_last(ents, name, more) ==
    LET fits(e) == e.name = name \/ (~ more /\ <<name, e.name>> \in Longer)
        S == {k \in DOMAIN ents : fits(ents[k]) /\ (more => ents[k].dir)}
    IN  IF S = {} THEN 0 ELSE Max(S)

\* The first entry that starts with the name; with more of the path to come
\* the name includes its slash.
NameAt(ents, name, more) ==
    First({k \in DOMAIN ents : /\ ents[k].name = name \/ (~ more /\ <<name, ents[k].name>> \in Longer)
                               /\ more => ents[k].dir})

\* The core looks for a file: its address and size, with size -1 for none.
RECURSIVE Hunt(_, _, _)
Hunt(img, d, path) ==
    LET isdir == img[d].k = "inode" /\ img[d].type = "dir"
        more == Len(path) > 1
        i == NameAt(img[d].ents, Head(path), more)
    IN  IF ~ isdir THEN 0
        ELSE IF i = 0 THEN 0
        ELSE IF ~ more \/ path[2] = "" THEN img[d].ents[i].fid
        ELSE Hunt(img, img[d].ents[i].fid, Tail(path))
fs_locate(img, path) ==
    LET i == Hunt(img, img[0].root, path)
    IN  IF i = 0 THEN [at |-> 0, size |-> -1] ELSE [at |-> Start(img, i), size |-> img[i].size]
=============================================================================
