-------------------------------- MODULE Elf ---------------------------------
(***************************************************************************)
(* The loader and run-time linker of the core (core/elf.c): operators on   *)
(* the record L of what they read and write while a task is put together.  *)
(*   mem    physical pages; the initrd comes first, a sector to a page     *)
(*   pt     the pages of the text segment, in the order of its page table  *)
(*   env    the page of the environment     env_ptr  where libc sees it    *)
(*   prio, who  priority and identity of the task                          *)
(*   irqs   irq_routing_table, 0 for a free line                           *)
(*   scrptr the task asked for the screen   panic    the core has stopped  *)
(* An ELF file starts with a negative unit, which names its entry in Elfs, *)
(* and a unit for the field e_machine of its header:                       *)
(*   text  pages of code       needed  paths of libraries   entry  start   *)
(*   syms  [name, value, kind] with value 0 for one used but not defined;  *)
(*         the kind is "irq" for a function named irq and a number,        *)
(*         "irqnum" for that object, "autoirq" for the function irq,       *)
(*         "irqother" for any other name that begins so, "obj" or "func"   *)
(*   data  [at, sym], sym "" for an address in the file itself             *)
(*   plt   [at, sym]                                                       *)
(***************************************************************************)
EXTENDS Mkfs

CONSTANTS Elfs,          \* what is in the ELF files
          IrqOf,         \* irq number in the name of a function
          TEXT_ADDRESS,
          Exports,       \* what drivers and services import from the core
          maxrelas,      \* room for relocations
          maxtext,       \* pages of a text segment
          isr_maxirq,
          libcso         \* path of libc

PageAt(mem, p) == IF p \in DOMAIN mem THEN mem[p] ELSE [x \in 1..secsize |-> 0]
IsElf(page) == page[1] < 0
WithPages(mem, pages) ==
    LET n == Cardinality(DOMAIN mem)
    IN  mem @@ [p \in n..n + Len(pages) - 1 |-> pages[p - n + 1]]
Pages(units) == (units + secsize - 1) \div secsize

\* The pages of a file that are not code, and one more for its symbols.
DataPages(size, text) == (IF size > text * secsize THEN Pages(size - text * secsize) ELSE 0) + 1

\* Mutant: the pages that are in the initrd are not copied but mapped.
CopyFrom_shared(mem, src, n) ==
    LET new == Cardinality(DOMAIN mem)
    IN  [mem |-> WithPages(mem, [i \in 1..n |-> PageAt(mem, src + i - 1)]),
         pages |-> [i \in 1..n |-> IF i < n THEN src + i - 1 ELSE new + i - 1]]

\* Copies of n pages from src on.
CopyFrom(mem, src, n) ==
    [mem |-> WithPages(mem, [i \in 1..n |-> PageAt(mem, src + i - 1)]),
     pages |-> [i \in 1..n |-> Cardinality(DOMAIN mem) + i - 1]]

\* A page and a unit in it, of an offset in the file loaded at entry j.
Place(L, j, at) == [p |-> L.pt[(at + j * secsize) \div secsize + 1], x |-> (at % secsize) + 1]
Poke(mem, po, v) == [mem EXCEPT ![po.p][po.x] = v]

\* The file at page src, whose first "text" pages are code and whose other
\* pages were copied to data: code is mapped where it is in the initrd, and
\* there the field for an autodetected interrupt is cleared.
e_machine == 2
noirq == 255
Mapped(L, src, text, data) ==
    [L EXCEPT !.mem = Poke(data.mem, [p |-> src, x |-> e_machine], noirq),
              !.pt = @ \o [i \in 1..text |-> src + i - 1] \o data.pages]

\* libc gets the page of the environment behind it.
WithEnv(L) == [L EXCEPT !.pt = Append(@, L.env), !.env_ptr = TEXT_ADDRESS + Len(L.pt) * secsize]

LoadFile(L, src, text, size) ==
    Mapped(L, src, text, CopyFrom(L.mem, src + text, DataPages(size, text)))

\* f is where the initrd has the file.
IsLoadable(L, f) == f.size # -1 /\ IsElf(PageAt(L.mem, f.at \div secsize))
LoadFrom(L, f, src) == LoadFile(L, src, Elfs[- PageAt(L.mem, src)[1]].text, f.size)
TooBig(L, f) == Len(L.pt) > maxtext - Pages(Max({f.size, 0}))
LoadFound(L, f, path) ==
    CASE L.panic -> L
      [] ~ L.panic /\ TooBig(L, f) -> [L EXCEPT !.panic = TRUE]
      [] ~ L.panic /\ ~ TooBig(L, f) /\ ~ IsLoadable(L, f) -> L
      [] ~ L.panic /\ ~ TooBig(L, f) /\ IsLoadable(L, f) /\ path = libcso -> WithEnv(LoadFrom(L, f, f.at \div secsize))
      [] OTHER -> LoadFrom(L, f, f.at \div secsize)

\* Load a file: one that is missing or is not an ELF file changes nothing,
\* and one that does not fit behind what is loaded stops the core.
elf_load(L, img, path) == LoadFound(L, fs_locate(img, path), path)
elf_loads(L, img, path) == IsLoadable(L, fs_locate(img, path))

\* Map a buffer of the core behind what is loaded.
task_mapbuf(L, pages) == [L EXCEPT !.pt = @ \o pages]

\* The ELF file whose header is at entry j of the page table.
HeaderAt(L, j) == j < Len(L.pt) /\ IsElf(PageAt(L.mem, L.pt[j + 1]))
ElfAt(L, j) == Elfs[- PageAt(L.mem, L.pt[j + 1])[1]]

\* Load what is needed by what is loaded, up to a page table of full entries.
Need(acc, img, path) ==
    [L |-> IF path = libcso /\ acc.libc THEN acc.L ELSE elf_load(acc.L, img, path),
     libc |-> acc.libc \/ path = libcso]
RECURSIVE NeededFrom(_, _, _)
NeededFrom(acc, img, j) ==
    IF j >= Len(acc.L.pt) THEN acc.L
    ELSE NeededFrom(IF HeaderAt(acc.L, j)
                    THEN FoldLeft(LAMBDA a, path : Need(a, img, path), acc, ElfAt(acc.L, j).needed)
                    ELSE acc, img, j + 1)
elf_neededso(L, img, libc) == NeededFrom([L |-> L, libc |-> libc], img, 0)

-----------------------------------------------------------------------------
(***************************************************************************)
(* elf_rtlink: collect the addresses to fill in, resolve them symbol by    *)
(* symbol, and stack the entry points.                                     *)
(***************************************************************************)
Rebased(mem, po, base) == Poke(mem, po, mem[po.p][po.x] + base)

\* The file at entry j; acc has L and the list rel of places that wait for a
\* symbol.
Collect(acc, j) ==
    LET e == ElfAt(acc.L, j)
        Wait(a, r) == [a EXCEPT !.rel = Append(@, [po |-> Place(a.L, j, r.at), sym |-> r.sym])]
        Full(a) == Len(a.rel) >= maxrelas
        Data(a, r) ==
            IF Full(a) THEN a
            ELSE IF r.sym # "" THEN Wait(a, r)
            ELSE [a EXCEPT !.L.mem = Rebased(@, Place(a.L, j, r.at), TEXT_ADDRESS + j * secsize)]
        Plt(a, r) == IF Full(a) THEN a ELSE Wait(a, r)
    IN  IF acc.L.panic THEN acc ELSE FoldLeft(Plt, FoldLeft(Data, acc, e.data), e.plt)

isr_installirq(irqs, irq, who) ==
    IF irq \in DOMAIN irqs /\ irqs[irq] = 0 THEN [irqs EXCEPT ![irq] = who] ELSE irqs

\* The line of symbol s of the file at entry j.  A name without a number has
\* the autodetected line, but elf_load has cleared that: the variable still
\* is k, which counted the n places that wait for the symbol before.
Line(L, j, s, k) ==
    LET header == PageAt(L.mem, L.pt[j + 1])
    IN  CASE s.kind = "irq" -> IrqOf[s.name]
          [] s.kind = "irqnum" -> PageAt(L.mem, L.pt[j + 1] + s.value \div secsize)[(s.value % secsize) + 1]
          [] s.kind = "autoirq" /\ header[e_machine] # noirq -> header[e_machine]
          [] OTHER -> k

\* What symbol s of the file at entry j does besides being a definition: a
\* driver's handler gets its line, and an object gets a value of the core.
Install(L, j, s, k) ==
    LET here == Place(L, j, s.value)
        system == L.prio \in {"drv", "srv"}
    IN  CASE s.kind \in {"irq", "irqnum", "autoirq", "irqother"} ->
                 IF L.prio = "drv" THEN [L EXCEPT !.irqs = isr_installirq(@, Line(L, j, s, k) % 256, L.who)] ELSE L
          [] s.kind = "obj" /\ s.name = "_environment" ->
                 IF system THEN [L EXCEPT !.mem = Poke(@, here, L.env_ptr)] ELSE L
          [] s.kind = "obj" /\ s.name = "_screen_ptr" ->
                 IF system THEN [L EXCEPT !.mem = Poke(@, here, Exports[s.name]), !.scrptr = TRUE] ELSE L
          [] s.kind = "obj" /\ s.name = "_osver" -> [L EXCEPT !.mem = Poke(@, here, Exports[s.name])]
          [] s.kind = "obj" /\ s.name \in DOMAIN Exports \ {"_screen_ptr", "_osver"} ->
                 IF system THEN [L EXCEPT !.mem = Poke(@, here, Exports[s.name])] ELSE L
          [] OTHER -> L

\* Mutant: a place that has its symbol is not taken off the list.
Filled_again(acc, name, v) ==
    LET mine == {k \in DOMAIN acc.rel : acc.rel[k].sym = name}
    IN  [acc EXCEPT !.L.mem = FoldSet(LAMBDA k, m : Poke(m, acc.rel[k].po, v), @, mine),
                    !.done = @ \cup mine]

\* Give every place that waits for the symbol its address.
Filled(acc, name, v) ==
    LET mine == {k \in DOMAIN acc.rel \ acc.done : acc.rel[k].sym = name}
    IN  [acc EXCEPT !.L.mem = FoldSet(LAMBDA k, m : Poke(m, acc.rel[k].po, v), @, mine),
                    !.done = @ \cup mine]

Resolve(acc, j) ==
    LET Symbol(a, s) ==
            IF s.value = 0 THEN a
            ELSE Filled([a EXCEPT !.L = Install(@, j, s, Len(a.rel))], s.name, s.value + j * secsize + TEXT_ADDRESS)
    IN  IF acc.L.panic THEN acc ELSE FoldLeft(Symbol, acc, ElfAt(acc.L, j).syms)

\* The libraries from the last page on, and where a file starts to run.
Libraries(L) == SelectSeq(Reverse([i \in DOMAIN L.pt |-> i - 1]), LAMBDA j : j > 1 /\ HeaderAt(L, j))
EntryPoint(L, j) == ElfAt(L, j).entry + TEXT_ADDRESS + j * secsize

\* The linked task: L with the stack of entry points, the next one last.
LinkedTask(r, libs) ==
    [L |-> [r.L EXCEPT !.panic = @ \/ r.done # DOMAIN r.rel \/ ~ HeaderAt(r.L, 0)],
     stack |-> <<EntryPoint(r.L, 0)>> \o [i \in DOMAIN libs |-> EntryPoint(r.L, libs[i])]]
Stacked(r) == LinkedTask(r, Libraries(r.L))
elf_rtlink(L) ==
    LET js == SelectSeq([i \in DOMAIN L.pt |-> i - 1], LAMBDA j : HeaderAt(L, j))
    IN  Stacked(FoldLeft(Resolve, FoldLeft(Collect, [L |-> L, rel |-> <<>>, done |-> {}], js), js))

-----------------------------------------------------------------------------
(***************************************************************************)
(* Names and addresses, as the debugger asks for them.  None is 0 or "".   *)
(***************************************************************************)
Defined(L, j, name) == {k \in DOMAIN ElfAt(L, j).syms : /\ ElfAt(L, j).syms[k].value # 0
                                                       /\ ElfAt(L, j).syms[k].name = name}
elf_lookupsym(L, name) ==
    LET js == {j \in 0..Len(L.pt) - 1 : HeaderAt(L, j) /\ Defined(L, j, name) # {}}
        j == Min(js)
    IN  IF js = {} THEN 0
        ELSE ElfAt(L, j).syms[Min(Defined(L, j, name))].value + TEXT_ADDRESS + j * secsize

\* The header is looked for downwards, the closest symbol is the last one
\* that is not above the address.
elf_sym(L, addr) ==
    LET j == Max({i \in 0..(addr - TEXT_ADDRESS) \div secsize : HeaderAt(L, i) \/ i = 0})
        at == addr - TEXT_ADDRESS - j * secsize
        syms == ElfAt(L, j).syms
        below == {k \in DOMAIN syms : syms[k].value \in 1..at}
        best == {k \in below : \A i \in below : syms[i].value <= syms[k].value}
    IN  IF ~ HeaderAt(L, j) \/ below = {} THEN "" ELSE syms[Min(best)].name
=============================================================================
