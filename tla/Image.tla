------------------------------- MODULE Image --------------------------------
(***************************************************************************)
(* From the files of a directory to linked tasks: mkfs creates an image    *)
(* (createimage, one step per directory entry), its commands change it,    *)
(* and if it is an initrd the core boots from it and puts together a task  *)
(* per driver and service (core/service.c, core/x86_64/sys.c).  Or mkfs    *)
(* assembles a disk.                                                       *)
(*                                                                         *)
(* A host entry is [path, t] with t "dir", [path, t, to] for a symbolic    *)
(* link, and [path, t, data, ext, elf, ascii] for a file.                  *)
(***************************************************************************)
EXTENDS Elf, Disk, TLC

CONSTANTS Hosts,      \* directories: [files, drvs, initrd]
          Readdirs,   \* orders in which readdir returns names
          Commands,   \* commands that may follow, each once
          Disks,      \* sizes and boot loaders for a disk
          maxlevel    \* levels of directories that are entered

VARIABLES host, order,       \* what mkfs was given
          img, stack,        \* the image; directories being read
          cmds,              \* commands done
          boot, mem, tasks, irqs, services, halted,   \* the core
          disk, phase
vars == <<host, order, img, stack, cmds, boot, mem, tasks, irqs, services, halted, disk, phase>>
core == <<boot, mem, tasks, irqs, services, halted>>

Entries(dir) == {f \in host.files : Len(f.path) > 0 /\ Front(f.path) = dir}
NoMem == [p \in {} |-> <<>>]

Init ==
    /\ host \in Hosts /\ order \in Readdirs
    /\ img = NewImage /\ stack = <<[left |-> Entries(<<>>)]>>
    /\ cmds = {} /\ disk = <<>> /\ phase = "dirs"
    /\ boot = <<>> /\ mem = NoMem /\ tasks = <<>> /\ irqs = [n \in 0..isr_maxirq - 1 |-> 0]
    /\ services = <<>> /\ halted = FALSE

\* The entry that readdir returns next.
NextEntry(frame) ==
    LET place(f) == CHOOSE i \in DOMAIN order : order[i] = Last(f.path)
    IN  CHOOSE f \in frame.left : \A g \in frame.left : place(f) <= place(g)

Added(f) ==
    LET root == img[0].root
    IN  CASE f.t = "dir" -> link_inode(add_inode(img, "dir", "", <<>>), Size(img), f.path, root)
          [] f.t = "reg" -> add_file(img, f, f.path, host.initrd)
          [] OTHER -> link_inode(add_inode(img, "lnk", "", f.to), Size(img), f.path, root)

\* One turn of the loop of add_dirs; a directory is entered.
AddEntry ==
    /\ phase = "dirs" /\ stack # <<>>
    /\ LET top == Last(stack)
           f == NextEntry(top)
           rest == [stack EXCEPT ![Len(stack)].left = @ \ {f}]
       IN  /\ top.left # {} /\ ~ (f.t = "reg" /\ TooLong(f))
           /\ img' = Added(f)
           /\ stack' = IF f.t = "dir" /\ Len(stack) <= maxlevel
                       THEN Append(rest, [left |-> Entries(f.path)]) ELSE rest
    /\ UNCHANGED <<host, order, cmds, disk, phase, core>>

\* A file that is too big ends mkfs before it writes the image.
TooBigExit ==
    /\ phase = "dirs" /\ stack # <<>> /\ Last(stack).left # {}
    /\ LET f == NextEntry(Last(stack)) IN f.t = "reg" /\ TooLong(f)
    /\ phase' = "exit"
    /\ UNCHANGED <<host, order, img, stack, cmds, disk, core>>

EndDir ==
    /\ phase = "dirs" /\ stack # <<>>
    /\ Last(stack).left = {}
    /\ stack' = Front(stack)
    /\ UNCHANGED <<host, order, img, cmds, disk, phase, core>>

\* The end of createimage.
CreateImage ==
    /\ phase = "dirs" /\ stack = <<>>
    /\ img' = Finished(img) /\ phase' = "image"
    /\ UNCHANGED <<host, order, stack, cmds, disk, core>>

-----------------------------------------------------------------------------
\* The commands.  One that finds no target leaves the image as it is.  A new
\* mime type is written over the old one, of which a longer end stays.
addunion(path, items) == link_inode(add_inode(img, "uni", "", items), Size(img), Append(path, ""), img[0].root)
addsymlink(path, to) == link_inode(add_inode(img, "lnk", "", to), Size(img), path, img[0].root)
addlink(path, target) ==
    LET i == locate(img, img[0].root, target)
    IN  IF i = 0 THEN img ELSE link_inode(img, i, path, img[0].root)
changemime(path, type, mime) ==
    LET i == locate(img, img[0].root, path)
    IN  IF i = 0 \/ img[i].type \in {"dir", "lnk", "uni"} THEN img
        ELSE [img EXCEPT ![i] = Sealed([@ EXCEPT !.type = type,
                                                 !.mime = mime \o SubSeq(@, Len(mime) + 1, Len(@))])]

Command(c) ==
    /\ phase = "image" /\ c \notin cmds
    /\ img' = CASE c.cmd = "union" -> addunion(c.path, c.to)
                [] c.cmd = "symlink" -> addsymlink(c.path, c.to)
                [] c.cmd = "link" -> addlink(c.path, c.to)
                [] c.cmd = "mime" -> changemime(c.path, c.to[1], c.to[2])
    /\ cmds' = cmds \cup {c}
    /\ UNCHANGED <<host, order, stack, disk, phase, core>>

CreateDisk(d) ==
    /\ phase = "dirs" /\ img = NewImage /\ disk = <<>>
    /\ disk' = <<[given |-> d, made |-> createdisk(d.sz, d.s2, d.stage1)]>>
    /\ phase' = "disk"
    /\ UNCHANGED <<host, order, img, stack, cmds, core>>

-----------------------------------------------------------------------------
(***************************************************************************)
(* The core.  The environment lies in the first page after the initrd.     *)
(***************************************************************************)
ImagePages == [p \in DOMAIN img |-> Read(img, p * secsize, secsize)]
EnvPage == Size(img)
NewTask(prio) ==
    [mem |-> mem, pt |-> <<>>, env |-> EnvPage, env_ptr |-> 0, prio |-> prio, who |-> Len(tasks) + 1,
     irqs |-> irqs, scrptr |-> FALSE, panic |-> FALSE]
loadall(L, paths) == FoldLeft(LAMBDA l, p : elf_load(l, img, p), L, paths)
drvpath(d) == <<"sys", "drv">> \o d.path

\* sys_init goes through the list of drivers, then the core starts FS, UI
\* and init.
Start_core ==
    /\ phase = "image" /\ host.initrd
    /\ mem' = WithPages(ImagePages, <<[x \in 1..secsize |-> 7]>>)
    /\ LET devices == SelectSeq(host.drvs, LAMBDA d : d.star /\ d.class \notin {"fs", "inet"})
       IN  boot' = [i \in DOMAIN devices |-> [init |-> "drv", path |-> drvpath(devices[i])]]
                   \o <<[init |-> "fs", path |-> <<"sys", "fs">>],
                        [init |-> "ui", path |-> <<"sys", "ui">>],
                        [init |-> "srv", path |-> <<"sys", "init">>]>>
    /\ phase' = "boot"
    /\ UNCHANGED <<host, order, img, stack, cmds, disk, tasks, irqs, services, halted>>

\* What every task goes through after its files are loaded; r is what the
\* linker made of L.
Registered(L, r, name) ==
    /\ mem' = r.L.mem /\ irqs' = r.L.irqs /\ boot' = Tail(boot)
    /\ halted' = r.L.panic
    /\ tasks' = IF r.L.panic THEN tasks
                ELSE Append(tasks, [pt |-> r.L.pt, prio |-> L.prio, stack |-> r.stack, env_ptr |-> L.env_ptr])
    /\ services' = IF r.L.panic \/ name = "" THEN services
                   ELSE (name :> L.who) @@ services
LinkTask(L, name) == Registered(L, elf_rtlink(L), name)

\* A driver that asked for the screen is the video driver.
RegisteredDriver(L, r) == Registered(L, r, IF r.L.scrptr THEN "video" ELSE "")
LinkDriver(L) == RegisteredDriver(L, elf_rtlink(L))
Refused(panics) ==
    /\ boot' = Tail(boot) /\ halted' = panics
    /\ UNCHANGED <<mem, tasks, irqs, services>>

Booting(init) == phase = "boot" /\ ~ halted /\ boot # <<>> /\ Head(boot).init = init

drv_init ==
    /\ Booting("drv")
    /\ LET L == NewTask("drv")
       IN  IF ~ elf_loads(L, img, <<"sys", "driver">>) THEN Refused(TRUE)
           ELSE LinkDriver(elf_neededso(
                    loadall(task_mapbuf(elf_load(L, img, <<"sys", "driver">>), <<EnvPage>>),
                            <<libcso, Head(boot).path>>), img, TRUE))
    /\ UNCHANGED <<host, order, img, stack, cmds, disk, phase>>

fs_init ==
    /\ Booting("fs")
    /\ LET L == NewTask("srv")
           own == SelectSeq(host.drvs, LAMBDA d : d.star /\ d.class = "fs")
           M == loadall(L, <<<<"sys", "fs">>, libcso>> \o [i \in DOMAIN own |-> drvpath(own[i])])
       IN  IF ~ elf_loads(L, img, <<"sys", "fs">>) THEN Refused(TRUE)
           ELSE LinkTask(elf_neededso(M, img, TRUE), "FS")
    /\ UNCHANGED <<host, order, img, stack, cmds, disk, phase>>

ui_init ==
    /\ Booting("ui")
    /\ LET L == NewTask("srv")
       IN  IF ~ elf_loads(L, img, <<"sys", "ui">>) THEN Refused(TRUE)
           ELSE LinkTask(elf_neededso(elf_load(L, img, <<"sys", "ui">>), img, FALSE), "UI")
    /\ UNCHANGED <<host, order, img, stack, cmds, disk, phase>>

service_init ==
    /\ Booting("srv")
    /\ LET L == NewTask("srv")
           fn == Head(boot).path
           own == SelectSeq(host.drvs, LAMBDA d : d.star /\ d.class = fn[2])
           M == loadall(L, <<fn, libcso>> \o [i \in DOMAIN own |-> drvpath(own[i])])
       IN  IF ~ elf_loads(L, img, fn) THEN Refused(FALSE)
           ELSE LinkTask(elf_neededso(M, img, TRUE), fn[2])
    /\ UNCHANGED <<host, order, img, stack, cmds, disk, phase>>

Step == \/ AddEntry \/ TooBigExit \/ EndDir \/ CreateImage \/ \E c \in Commands : Command(c)
        \/ \E d \in Disks : CreateDisk(d)
        \/ Start_core \/ drv_init \/ fs_init \/ ui_init \/ service_init
Spec == Init /\ [][Step]_vars

-----------------------------------------------------------------------------
(***************************************************************************)
(* Properties.                                                             *)
(***************************************************************************)
Built == phase \in {"image", "boot"}
InImage == {f \in host.files : Len(f.path) <= maxlevel + 1}

\* The sectors of an inode, and its content by the sectors that it lists.
Listed(i) == IF img[i].flag = "sd" THEN img[img[i].sec].next ELSE img[i].next
Blocks(i) == (ToSet(Listed(i)) \cup (IF img[i].flag \in {"sd", "direct"} THEN {img[i].sec} ELSE {})) \ {0}
Content(i) ==
    LET zeros == [x \in 1..secsize |-> 0]
        all == FoldLeft(LAMBDA s, b : s \o (IF b = 0 THEN zeros ELSE img[b].data), <<>>, Listed(i))
    IN  CASE img[i].flag = "inline" -> img[i].data
          [] img[i].flag = "direct" -> SubSeq(img[img[i].sec].data, 1, img[i].size)
          [] OTHER -> SubSeq(all, 1, img[i].size)

\* Type correctness: an image has its superblock first, a root directory,
\* and nothing but inodes, sector directories and data after it.
TypeOK ==
    /\ phase \in {"dirs", "image", "boot", "disk", "exit"} /\ halted \in BOOLEAN /\ cmds \subseteq Commands
    /\ img[0].k = "super" /\ img[img[0].root].type = "dir"
    /\ \A s \in DOMAIN img \ {0} : img[s].k \in {"inode", "sd", "data"}
    /\ \A i \in DOMAIN irqs : irqs[i] \in 0..Len(tasks) + 1

\* A file of the host directory can be found in the image and has its
\* content there: for mkfs itself, by the sectors that the inode lists, and
\* in an initrd for the core, which takes the first name that begins with
\* the one it looks for and reads the sectors as if they were contiguous.
FilesAsOnHost ==
    Built => \A f \in InImage :
        LET i == locate(img, img[0].root, f.path)
            c == fs_locate(img, f.path)
        IN  /\ i # 0
            /\ f.t = "lnk" => img[i].type = "lnk" /\ img[i].to = f.to
            /\ f.t = "reg" => /\ Content(i) = f.data
                              /\ host.initrd => /\ cat(img, i) = f.data
                                                /\ Read(img, c.at, c.size) = f.data

\* Every sector that is not an inode belongs to one inode, numblocks counts
\* the sectors of an inode, and numlinks the names that lead to it.
SectorsOnce ==
    LET inodes == {s \in DOMAIN img : img[s].k = "inode"}
        names(i) == {<<d, k>> \in inodes \X (1..dirmax) : k \in DOMAIN img[d].ents /\ img[d].ents[k].fid = i}
    IN  /\ \A s \in DOMAIN img \ (inodes \cup {0}) : Cardinality({i \in inodes : s \in Blocks(i)}) = 1
        /\ \A i \in inodes :
              /\ Blocks(i) \cap (inodes \cup {0}) = {}
              /\ img[i].numblocks = Cardinality(Blocks(i))
              /\ img[i].numlinks = Cardinality(names(i)) + (IF i = img[0].root THEN 1 ELSE 0)

\* The checksums of inodes and directories are those of what they contain
\* now, and the names of a directory are in order and different.
ChecksumsHold ==
    \A i \in DOMAIN img : img[i].k = "inode" =>
        /\ img[i] = Sealed(img[i]) /\ img[i].dcrc = img[i].ents
        /\ \A k \in 1..Len(img[i].ents) - 1 : Rank(img[i].ents[k].name) < Rank(img[i].ents[k + 1].name)

\* A task as the linker sees it.
Task(t) == [mem |-> mem, pt |-> tasks[t].pt]
Headers(t) == {j \in 0..Len(tasks[t].pt) - 1 : HeaderAt(Task(t), j)}

\* In every task that was started, each place that waits for a symbol has the
\* address of the first definition in the order of loading, an address
\* inside the file was moved exactly once by where the file was loaded, and
\* the objects that the core exports have their values.
Linkage ==
    \A t \in DOMAIN tasks : \A j \in Headers(t) :
        LET T == Task(t)
            e == ElfAt(T, j)
            at(x) == mem[Place(T, j, x).p][Place(T, j, x).x]
        IN  /\ \A k \in DOMAIN e.data :
                  at(e.data[k].at) = IF e.data[k].sym # "" THEN elf_lookupsym(T, e.data[k].sym)
                                     ELSE Unit(img, T.pt[j + 1] * secsize + e.data[k].at) + TEXT_ADDRESS + j * secsize
            /\ \A k \in DOMAIN e.plt : at(e.plt[k].at) = elf_lookupsym(T, e.plt[k].sym)
            /\ \A k \in DOMAIN e.syms :
                  LET s == e.syms[k]
                  IN  (s.kind = "obj" /\ s.value # 0) =>
                      at(s.value) = IF s.name = "_environment" THEN tasks[t].env_ptr ELSE Exports[s.name]

\* Loading and linking write nothing to the initrd but the field e_machine
\* of the header of an ELF file, nothing to the environment or to a page of
\* another task, and what follows a file in the initrd is not taken for a
\* file that was loaded.
PagesApart ==
    phase = "boot" =>
    /\ \A p \in DOMAIN img :
          LET page == Read(img, p * secsize, secsize)
          IN  mem[p] = page \/ (IsElf(page) /\ mem[p] = [page EXCEPT ![e_machine] = noirq])
    /\ mem[EnvPage] = [x \in 1..secsize |-> 7]
    /\ \A t \in DOMAIN tasks :
          LET own(u) == {p \in ToSet(tasks[u].pt) : p > EnvPage}
          IN  /\ \A u \in DOMAIN tasks : u # t => own(t) \cap own(u) = {}
              /\ \A j \in Headers(t) : tasks[t].pt[j + 1] \in DOMAIN img

\* The drivers with a symbol of which P says that it takes a line.
DriversWith(P(_, _)) ==
    {t \in DOMAIN tasks : /\ tasks[t].prio = "drv"
                         /\ \E j \in Headers(t) : \E k \in DOMAIN ElfAt(Task(t), j).syms :
                               /\ ElfAt(Task(t), j).syms[k].value # 0
                               /\ P(ElfAt(Task(t), j).syms[k], tasks[t].pt[j + 1] * secsize)}

\* An interrupt line goes to the first driver that has a handler for its
\* number, and to no other task.  The exception is a driver with a handler
\* that has no number, irq(): no line is known for it, and one that nobody
\* chose for it may be taken from the drivers after it.
IrqsToDrivers ==
    ~ halted => \A n \in DOMAIN irqs :
        LET numbered(s, file) == \/ s.kind = "irq" /\ IrqOf[s.name] = n
                                 \/ s.kind = "irqnum" /\ Unit(img, file + s.value) = n
            any(s, file) == s.kind \in {"autoirq", "irqother"}
            wants == DriversWith(numbered)
            astray == {t \in DriversWith(any) : \A u \in wants : t <= u}
        IN  irqs[n] \in astray \cup (IF wants = {} THEN {0} ELSE {Min(wants)})

\* A task runs the start code of every file it consists of once: the
\* libraries in the order in which they were loaded, the executable last.
LibrariesFirst ==
    \A t \in DOMAIN tasks :
        LET run == Reverse(tasks[t].stack)
        IN  /\ Last(run) = EntryPoint(Task(t), 0)
            /\ Len(run) = Cardinality(Headers(t))
            /\ \A i \in 1..Len(run) - 2 : run[i] < run[i + 1]
            /\ \A i \in 1..Len(run) - 1 : \E j \in Headers(t) \ {0} : run[i] = EntryPoint(Task(t), j)

\* The address of a symbol is looked up as the name of that symbol.
SymbolsAgree ==
    \A t \in DOMAIN tasks : \A j \in Headers(t) :
        LET syms == ElfAt(Task(t), j).syms
        IN  \A k \in DOMAIN syms : syms[k].value # 0 =>
                elf_sym(Task(t), syms[k].value + TEXT_ADDRESS + j * secsize) = syms[k].name

\* On the disk every GPT entry covers the sectors of its partition and no
\* others, both headers and tables are where the headers say, and the boot
\* sector knows where the second stage of the loader is.  Its records of the
\* ESP and of the GPT cover those, and a disk with an ESP starts from the
\* partition that has the copy of the boot code.
DiskLayout ==
    disk # <<>> =>
    LET d == disk[1].made
        given == disk[1].given
        sec(lba) == IF lba + 1 \in DOMAIN d.sectors THEN d.sectors[lba + 1] ELSE [of |-> "none", at |-> 0]
        range(e) == e.start..e.end
    IN  /\ Len(d.entries) = d.numentries
        /\ \A i \in DOMAIN d.entries :
              LET e == d.entries[i]
              IN  /\ {lba \in 0..Len(d.sectors) - 1 : sec(lba).of = e.name} = range(e)
                  /\ range(e) \subseteq d.first..d.last
        /\ sec(d.primary).of = "header" /\ sec(d.backup).of = "header" /\ d.backup = Len(d.sectors) - 1
        /\ sec(d.table) = [of |-> "entries", at |-> 0] /\ sec(d.backuptable) = [of |-> "entries", at |-> 0]
        /\ d.stage2 # 0 => \/ sec(d.stage2) = [of |-> "esp", at |-> given.s2.esp \div 512]
                           \/ sec(d.stage2) = [of |-> "sys1", at |-> given.s2.sys1 \div 512]
        /\ \A i \in DOMAIN d.mbr :
              LET r == d.mbr[i]
                  covers == {sec(lba).of : lba \in r.start..r.start + r.count - 1}
              IN  /\ r.type = "esp" => /\ covers = {"esp"} /\ r.count = given.sz.esp \div 512
                                       /\ r.active /\ (d.vbr # "none" => d.vbr = "esp")
                  /\ r.type = "gpt" => covers = {"header", "entries"} /\ r.start + r.count = d.first

\* The metadata of an image agrees with its contents after every entry and
\* every command (add_inode, link_inode, addunion, addlink).
MetadataTrue == TypeOK /\ SectorsOnce /\ ChecksumsHold

\* A task is linked as its libraries say: symbols, addresses, start code,
\* interrupt handlers and the names of its functions (elf_rtlink, elf_sym).
TasksLinked == Linkage /\ LibrariesFirst /\ IrqsToDrivers /\ SymbolsAgree
=============================================================================
