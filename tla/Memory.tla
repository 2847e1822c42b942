------------------------------- MODULE Memory -------------------------------
(***************************************************************************)
(* Who owns which page of the machine: the physical memory manager (Pmm),  *)
(* the page tables of the tasks (core/x86_64/vmm.c), the tasks the core    *)
(* starts at boot (core/service.c) and the system calls that map memory    *)
(* (core/msg.c).                                                           *)
(*                                                                         *)
(* A page table has TABLE entries and a slot is mapped by one entry of a   *)
(* page directory, so SLOTPAGES = TABLE.  A virtual address is a page      *)
(* number below TABLE^4.  Access bits other than "present" and PG_SLOT are *)
(* left out.                                                               *)
(***************************************************************************)
EXTENDS Pmm, FiniteSets, Functions

CONSTANTS Tasks,        \* tasks the core starts, in the order of boot
          Kind,         \* [task -> "srv" | "fs" | "ui" | "video"]
          Maps,         \* [map, initrd]: what the loader may hand over
          Framebuffer,  \* physical address of the frame buffer
          environment,  \* physical address of the environment, which the loader filled
          ScreenSlots,  \* slots of a screen buffer
          nrmqmax,      \* pages of a message queue
          HeapAreas,    \* [at, bytes]: what a service may mmap
          RamTop,       \* last address of memory
          MaxCalls      \* bound: calls of mmap, munmap and swapbuf

VARIABLES mode,     \* "boot", "ready" or "panic"
          loader,   \* the member of Maps the machine has started with
          m,        \* pmm, page tables, tcbs, screen buffers
          live,     \* history: <<task, area>> mapped and not yet unmapped
          calls     \* number of calls made

vars == <<mode, loader, m, live, calls>>

Ram == {q \in 0..RamTop : q % PAGESIZE = 0}
TABLE == SLOTPAGES
TEXT_ADDRESS == TABLE               \* second slot
BSS_ADDRESS == TABLE^2              \* second page directory
BUF_ADDRESS == TABLE^3              \* second entry of the PML4

\* A zero entry, and a zeroed page read as a table.
NoEnt == [p |-> 0, slot |-> FALSE]
Zeroed == [i \in 0..TABLE - 1 |-> NoEnt]
Ent(p) == [p |-> p, slot |-> FALSE]

\* Table index of virtual page v at a level: 3 is the PML4, 0 a page table.
Index(v, level) == (v \div TABLE^level) % TABLE

Present(e) == e.p # 0

\* The page at address p read as a table.  Beyond memory nothing is present.
Table(mm, p) == IF p \in Ram THEN mm.tab[p] ELSE Zeroed
Entry(mm, p, i) == Table(mm, p)[i]
SetEntry(mm, p, i, e) == [mm EXCEPT !.tab[p] = [@ EXCEPT ![i] = e]]

PagesFrom(base, n) == {base + k * PAGESIZE : k \in 0..n - 1}

(***************************************************************************)
(* Allocation as its callers see it: what pmm_alloc and pmm_allocslot      *)
(* return is cleared.  m.out is a history of the pages handed out and not  *)
(* given back.                                                             *)
(***************************************************************************)
Taken(mm, p, pages) ==
    LET got == PagesFrom(p.got, pages)
    IN  IF p.panic THEN [mm EXCEPT !.pmm = p]
        ELSE [mm EXCEPT !.pmm = p, !.out = @ \cup got,
                        !.tab = FoldSet(LAMBDA q, acc : [acc EXCEPT ![q] = Zeroed], @, got)]

alloc(mm) == Taken(mm, pmm_alloc(mm.pmm, 1), 1)
allocslot(mm) == Taken(mm, pmm_allocslot(mm.pmm), SLOTPAGES)
free(mm, base, pages) ==
    [mm EXCEPT !.pmm = pmm_free(@, base, pages), !.out = @ \ PagesFrom(base, pages)]

\* op(mm, k) for k = 0, 1, ..., n - 1 in turn; nothing follows a panic.
Upto(n) == [k \in 1..n |-> k - 1]
Each(mm, n, op(_, _)) ==
    IF mm.pmm.panic THEN mm
    ELSE FoldLeft(LAMBDA acc, k : IF acc.pmm.panic THEN acc ELSE op(acc, k), mm, Upto(n))
Charge(mm, t, n) == [mm EXCEPT !.tcb[t].allocmem = @ + n]
Link(mm, t, n) == [mm EXCEPT !.tcb[t].linkmem = @ + n]

\* Pages of the core itself: its bss, and the page of a tcb.
kalloc(mm, pages) ==
    Each(mm, pages, LAMBDA acc, k : LET a == alloc(acc)
                                    IN  [a EXCEPT !.core = @ \cup {a.pmm.got}])

-----------------------------------------------------------------------------
(***************************************************************************)
(* vmm_mapbss                                                              *)
(***************************************************************************)

\* Entry i of table p points to the page that was just allocated.
Hang(mm, t, p, i) ==
    IF mm.pmm.panic THEN mm ELSE Charge(SetEntry(mm, p, i, Ent(mm.pmm.got)), t, 1)

\* Make sure that entry i of table p has a table below it.
Below(mm, t, p, i) ==
    IF mm.pmm.panic \/ Present(Entry(mm, p, i)) THEN mm ELSE Hang(alloc(mm), t, p, i)

\* Write entries i, i+1, ... of table p.
Fill(mm, p, i, n, ents) == Each(mm, n, LAMBDA acc, x : SetEntry(acc, p, i + x, ents[x]))

\* The loop at label "again": w.size bytes from w.phys on are left to map at
\* w.bss, rounded up by the loop that maps them.  An exhausted table sends it round again even when nothing is left.
RECURSIVE MapAgain(_, _, _)

\* Go round again after "step" pages, or leave the loop.
MapRest(mm, t, w, step, again) ==
    IF again THEN MapAgain(mm, t, [bss |-> w.bss + step, phys |-> w.phys + step * PAGESIZE,
                                   size |-> w.size - step * PAGESIZE])
    ELSE mm

\* Map whole slots in entries of directory pd from i on.
MapSlots(mm, t, w, pd, i, slots) ==
    MapRest(Link(Fill(mm, pd, i, slots,
                      [x \in 0..(slots - 1) |-> [p |-> w.phys + x * SLOTSIZE, slot |-> TRUE]]),
                 t, slots * TABLE),
            t, [w EXCEPT !.size = RoundUp(@, SLOTSIZE)], slots * TABLE, i + slots = TABLE)

\* Map pages in entries of page table pt from k on.
MapPages(mm, t, w, pt, k, pages) ==
    IF mm.pmm.panic THEN mm
    ELSE MapRest(Link(Fill(mm, pt, k, pages,
                           [x \in 0..(pages - 1) |-> Ent(w.phys + x * PAGESIZE)]), t, pages),
                 t, [w EXCEPT !.size = RoundUp(@, PAGESIZE)], pages, k + pages = TABLE)

MapInTable(mm, t, w, pd, i, k) ==
    MapPages(mm, t, w, Entry(mm, pd, i).p, k, Min({RoundUp(w.size, PAGESIZE) \div PAGESIZE, TABLE - k}))

MapInDirectory(mm, t, w, pd, i) ==
    CASE mm.pmm.panic -> mm
      [] ~ mm.pmm.panic /\ ~ Present(Entry(mm, pd, i)) /\ w.phys >= SLOTSIZE /\ w.size >= SLOTSIZE ->
            MapSlots(mm, t, w, pd, i, Min({RoundUp(w.size, SLOTSIZE) \div SLOTSIZE, TABLE - i}))
      [] OTHER -> MapInTable(Below(mm, t, pd, i), t, w, pd, i, Index(w.bss, 0))

\* The directory below entry i of pdpt; vmm.c keeps the place of that entry.
MapBelow(mm, t, w, pdpt, i) ==
    MapInDirectory(mm, t, w, Entry(mm, pdpt, i).p, Index(w.bss, 1))
MapFrom(mm, t, w, pdpt, i) ==
    IF mm.pmm.panic THEN mm
    ELSE MapBelow(Below([mm EXCEPT !.pdpe = [tab |-> pdpt, i |-> i]], t, pdpt, i), t, w, pdpt, i)
MapRoot(mm, t, w, root, i) == MapFrom(mm, t, w, Entry(mm, root, i).p, Index(w.bss, 2))

MapAgain(mm, t, w) ==
    LET root == mm.tcb[t].memroot
        i == Index(w.bss, 3)
    IN  MapRoot(Below(mm, t, root, i), t, w, root, i)

vmm_mapbss(mm, t, bss, phys, size) ==
    IF size = 0 \/ mm.pmm.panic THEN mm
    ELSE MapAgain(mm, t, [bss |-> bss, phys |-> phys - (phys % PAGESIZE), size |-> size])

-----------------------------------------------------------------------------
(***************************************************************************)
(* vmm_unmapbss                                                            *)
(***************************************************************************)

\* Mutant: the pages are not freed.
Drop_unfreed(mm, t, p, i, pages) ==
    IF Present(Entry(mm, p, i)) THEN Link(SetEntry(mm, p, i, NoEnt), t, -pages) ELSE mm

\* Free what entry i of a table maps, if anything.
Drop(mm, t, p, i, pages) ==
    LET e == Entry(mm, p, i)
    IN  IF Present(e) THEN Link(SetEntry(free(mm, e.p, pages), p, i, NoEnt), t, -pages) ELSE mm

\* The loop at label "again": [mm, bss] when nothing is left.  An area that
\* is mapped in slots is a whole number of them: the size of another would
\* wrap around below zero.
RECURSIVE UnmapAgain(_, _, _, _)
UnmapAgain(mm, t, bss, n) ==
    LET pdpt == Entry(mm, mm.tcb[t].memroot, Index(bss, 3)).p
        pd == Entry(mm, pdpt, Index(bss, 2)).p
        slot == Entry(mm, pd, Index(bss, 1)).slot
        tab == IF slot THEN pd ELSE Entry(mm, pd, Index(bss, 1)).p
        i == Index(bss, IF slot THEN 1 ELSE 0)
        unit == IF slot THEN TABLE ELSE 1
        k == Min({n \div unit, TABLE - i})
        done == Each(mm, k, LAMBDA acc, x : Drop(acc, t, tab, i + x, unit))
    IN  IF i + k = TABLE THEN UnmapAgain(done, t, bss + k * unit, n - k * unit)
        ELSE [mm |-> done, bss |-> bss + k * unit]

\* Mutant: the cleanup also frees the slots of the directory.
FreeTable_slot(mm, pd, j) ==
    LET e == Entry(mm, pd, j)
    IN  IF Present(e) /\ (e.slot \/ Table(mm, e.p) = Zeroed)
        THEN SetEntry(free(mm, e.p, 1), pd, j, NoEnt) ELSE mm

\* Free page table j of directory pd when it maps nothing.
FreeTable(mm, pd, j) ==
    LET e == Entry(mm, pd, j)
    IN  IF Present(e) /\ ~ e.slot /\ Table(mm, e.p) = Zeroed
        THEN SetEntry(free(mm, e.p, 1), pd, j, NoEnt) ELSE mm

\* Free directory i of pdpt when no page table is left in it.
FreeDirectory(mm, pdpt, i) ==
    LET e == Entry(mm, pdpt, i)
        m1 == Each(mm, TABLE, LAMBDA acc, j : FreeTable(acc, e.p, j))
        tables == {j \in 0..TABLE - 1 : LET d == Entry(m1, e.p, j) IN Present(d) /\ ~ d.slot}
    IN  CASE ~ Present(e) -> mm
          [] Present(e) /\ tables # {} -> m1
          [] OTHER -> SetEntry(free(m1, e.p, 1), pdpt, i, NoEnt)

vmm_unmapbss(mm, t, bss, size) ==
    IF size = 0 THEN mm
    ELSE LET u == UnmapAgain(mm, t, bss, RoundUp(size, PAGESIZE) \div PAGESIZE)
             pdpt == Entry(u.mm, mm.tcb[t].memroot, Index(u.bss, 3)).p
         IN  Each(u.mm, TABLE, LAMBDA acc, i : FreeDirectory(acc, pdpt, i))

-----------------------------------------------------------------------------
(***************************************************************************)
(* The tasks the core starts                                               *)
(***************************************************************************)

\* The address space of a new task: tcb, PML4, first PDPT and directory, the
\* tables of the first two slots, message queue and stack.
task_new(mm, t) ==
    LET n == 7 + nrmqmax
        a == FoldLeft(LAMBDA acc, k :
                         IF acc.mm.pmm.panic THEN acc
                         ELSE LET x == alloc(acc.mm)
                              IN  [mm |-> x, got |-> Append(acc.got, x.pmm.got)],
                      [mm |-> mm, got |-> <<>>], Upto(n))
        p == a.got
        m1 == SetEntry(a.mm, p[2], 0, Ent(p[3]))
        m2 == SetEntry(m1, p[3], 0, Ent(p[4]))
        m3 == Fill(m2, p[4], 0, 2, [x \in 0..1 |-> Ent(p[5 + x])])
        m4 == Fill(m3, p[5], 0, 1 + nrmqmax,
                   [x \in 0..nrmqmax |-> Ent(IF x = 0 THEN p[1] ELSE p[6 + x])])
        m5 == SetEntry(m4, p[5], TABLE - 1, Ent(p[n]))
    IN  IF a.mm.pmm.panic THEN a.mm
        ELSE [m5 EXCEPT !.tcb[t] = [memroot |-> p[2], text |-> p[6],
                                    allocmem |-> 8 + nrmqmax, linkmem |-> 0]]

\* The executable and its libraries are one file here: its text is mapped
\* from the initrd, the page that always follows is copied, and with libc
\* comes the environment.  A driver has a second window on that, which is
\* counted nowhere.
elf_load(mm, t, initrd) ==
    LET text == mm.tcb[t].text
        i == Min({k \in 0..TABLE - 1 : ~ Present(Entry(mm, text, k))})
        m1 == Below(Link(SetEntry(mm, text, i, Ent(initrd.ptr)), t, 1), t, text, i + 1)
    IN  IF mm.pmm.panic \/ m1.pmm.panic THEN m1
        ELSE Link(SetEntry(m1, text, i + 2, Ent(environment)), t, 1)
task_mapbuf(mm, t) ==
    LET text == mm.tcb[t].text
    IN  IF mm.pmm.panic THEN mm
        ELSE SetEntry(mm, text, Min({k \in 0..TABLE - 1 : ~ Present(Entry(mm, text, k))}), Ent(environment))

\* Map a fresh page, or ScreenSlots fresh slots; a screen buffer is found
\* again by the place of its directory.
MapGot(mm, t, bss, size) == vmm_mapbss(mm, t, bss, mm.pmm.got, size)
MapFirstBss(mm, t) == Charge(MapGot(alloc(mm), t, BSS_ADDRESS, PAGESIZE), t, 1)
NoteScreen(mm, which, k) == IF k = 0 THEN [mm EXCEPT !.screen[which] = mm.pdpe] ELSE mm
MapScreen(mm, t, which) ==
    Each(mm, ScreenSlots, LAMBDA acc, k :
         NoteScreen(MapGot(allocslot(acc), t, BUF_ADDRESS + k * TABLE, SLOTSIZE), which, k))
MapFramebuffer(mm, t) ==
    Each(mm, ScreenSlots, LAMBDA acc, k :
         vmm_mapbss(acc, t, BUF_ADDRESS + TABLE^2 + k * TABLE, Framebuffer + k * SLOTSIZE, SLOTSIZE))

\* service_init, fs_init, ui_init and drv_init: what each maps after linking.
Linked(mm, t, initrd) ==
    CASE Kind[t] = "srv"   -> MapFirstBss(mm, t)
      [] Kind[t] = "fs"    -> vmm_mapbss(MapFirstBss(mm, t), t, BUF_ADDRESS,
                                         initrd.ptr, initrd.size)
      [] Kind[t] = "ui"    -> MapScreen(mm, t, 0)
      [] Kind[t] = "video" -> MapFramebuffer(MapScreen(mm, t, 1), t)
Loaded(mm, t, initrd) ==
    IF Kind[t] = "video" THEN task_mapbuf(elf_load(mm, t, initrd), t) ELSE elf_load(mm, t, initrd)
StartTask(mm, t, initrd) == Linked(Loaded(task_new(mm, t), t, initrd), t, initrd)

-----------------------------------------------------------------------------
Areas(t) == IF Kind[t] \in {"srv", "fs"} THEN HeapAreas ELSE {}
NoTcb == [memroot |-> 0, text |-> 0, allocmem |-> 0, linkmem |-> 0]
Started == {t \in Range(Tasks) : m.tcb[t].memroot # 0}

\* pmm_init: the fragments, then the buffers of the core.
pmm_init(l) ==
    LET first == FirstPass(l.mmap)
        m0 == [pmm |-> pmm_record(l.mmap, l.initrd),
               tab |-> [q \in Ram |-> Zeroed],
               tcb |-> [t \in Range(Tasks) |-> NoTcb],
               pdpe |-> [tab |-> 0, i |-> 0],
               screen |-> [w \in 0..1 |-> [tab |-> 0, i |-> 0]],
               core |-> PagesFrom(first.core, nrphymax + 1),
               out |-> {}]
    IN  kalloc(kalloc(kalloc(m0, 2), 1), nrlogmax)

Mode(mm, next) == IF mm.pmm.panic THEN "panic" ELSE next

Init == /\ loader \in Maps
        /\ m = pmm_init(loader)
        /\ mode = Mode(m, "boot")
        /\ live = {}
        /\ calls = 0

\* The core starts the next task; when all are there the first one runs.
Start ==
    /\ mode = "boot"
    /\ LET n == Cardinality(Started)
       IN  /\ m' = StartTask(m, Tasks[n + 1], loader.initrd)
           /\ mode' = Mode(m', IF n + 1 = Len(Tasks) THEN "ready" ELSE "boot")
    /\ UNCHANGED <<loader, live, calls>>

Call == mode = "ready" /\ calls < MaxCalls /\ calls' = calls + 1 /\ UNCHANGED loader

PagesOf(a) == a.at..(a.at + RoundUp(a.bytes, PAGESIZE) \div PAGESIZE - 1)

\* SYS_mmap: whole slots for a request of a slot or more, else pages.
mmap(t, a) ==
    LET unit == IF a.bytes >= SLOTSIZE THEN TABLE ELSE 1
        n == RoundUp(a.bytes, unit * PAGESIZE) \div (unit * PAGESIZE)
    IN  /\ Call
        /\ \A x \in live : x[1] = t => PagesOf(x[2]) \cap PagesOf(a) = {}
        /\ m' = Each(m, n, LAMBDA acc, k :
                      Charge(MapGot(IF unit = 1 THEN alloc(acc) ELSE allocslot(acc),
                                    t, a.at + k * unit, unit * PAGESIZE), t, unit))
        /\ live' = live \cup {<<t, a>>}
        /\ mode' = Mode(m', mode)

\* SYS_munmap of what the task has mapped.
munmap(t, a) ==
    /\ Call
    /\ <<t, a>> \in live
    /\ m' = Charge(vmm_unmapbss(m, t, a.at, a.bytes), t,
                   -(RoundUp(a.bytes, PAGESIZE) \div PAGESIZE))
    /\ live' = live \ {<<t, a>>}
    /\ UNCHANGED mode

\* SYS_swapbuf, which only the UI task may call: exchange the directories of
\* the two screen buffers.
swapbuf(t) ==
    /\ Call
    /\ Kind[t] = "ui"
    /\ LET a == m.screen[0]
           b == m.screen[1]
       IN  m' = SetEntry(SetEntry(m, a.tab, a.i, Entry(m, b.tab, b.i)),
                         b.tab, b.i, Entry(m, a.tab, a.i))
    /\ UNCHANGED <<mode, live>>

Done == (mode = "panic" \/ calls = MaxCalls) /\ UNCHANGED vars

Next == \/ Start
        \/ \E t \in Range(Tasks) : \/ \E a \in Areas(t) : mmap(t, a) \/ munmap(t, a)
                                   \/ swapbuf(t)
        \/ Done

Spec == Init /\ [][Next]_vars

-----------------------------------------------------------------------------
(***************************************************************************)
(* Properties                                                              *)
(***************************************************************************)
\* Type correctness: the manager counts no page below zero, its fragments and
\* the page directories of the tasks lie in the memory of the machine.
TypeOK ==
    /\ mode \in {"boot", "ready", "panic"}
    /\ loader \in Maps
    /\ m.pmm.free \in Nat /\ m.pmm.total \in Nat
    /\ \A i \in DOMAIN m.pmm.entries :
            m.pmm.entries[i].size \in Nat /\ m.pmm.entries[i].base \in Ram
    /\ \A t \in Range(Tasks) : m.tcb[t].memroot \in Ram /\ m.tcb[t].linkmem \in Nat
    /\ calls \in 0..MaxCalls

\* The places <<table, index>> of the present entries of task t: those of
\* the upper tables, and those that map pages.
Sub(mm, p) == {<<p, i>> : i \in {x \in 0..TABLE - 1 : Present(Entry(mm, p, x))}}
Subs(mm, us) == UNION {Sub(mm, Entry(mm, u[1], u[2]).p) : u \in us}
SlotAt(mm, u) == Entry(mm, u[1], u[2]).slot
Directories(mm, t) == Subs(mm, Subs(mm, Sub(mm, mm.tcb[t].memroot)))
Leaves(mm, t) == LET ds == Directories(mm, t)
                     slots == {u \in ds : SlotAt(mm, u)}
                 IN  slots \cup Subs(mm, ds \ slots)
Uses(mm, t) == LET l3 == Sub(mm, mm.tcb[t].memroot)
                   l2 == Subs(mm, l3)
                   l1 == Subs(mm, l2)
               IN  l3 \cup l2 \cup l1 \cup Leaves(mm, t)


\* The number of pages that the entries at the places us use, if each is used once.
PagesAt(mm, us) == Cardinality(us) + (TABLE - 1) * Cardinality({u \in us : SlotAt(mm, u)})
InitrdPages == PagesFrom(loader.initrd.ptr, RoundUp(loader.initrd.size, PAGESIZE) \div PAGESIZE)

\* The pages that the entry at place u uses.  The window of the FS task on
\* the initrd is mapped in whole slots and counts as the initrd alone.
UsedAt(mm, u) ==
    LET e == Entry(mm, u[1], u[2])
        pages == PagesFrom(e.p, IF e.slot THEN SLOTPAGES ELSE 1)
    IN  IF e.p \in InitrdPages THEN pages \cap InitrdPages ELSE pages

AllUses == UNION {Uses(m, t) : t \in Started}
FragPages(e) == PagesFrom(e.base, e.size)
FreePages == UNION {FragPages(m.pmm.entries[i]) : i \in DOMAIN m.pmm.entries}
Roots == {m.tcb[t].memroot : t \in Started}
Owned == m.core \cup Roots \cup UNION {UsedAt(m, u) : u \in AllUses}

\* The free fragments neither overlap each other nor contain a page that is
\* in use: of the core, of the initrd, a table, or a page mapped by a task
\* (pmm_alloc, pmm_allocslot, pmm_free, pmm_init).
FreeIsFree ==
    /\ \A i, j \in DOMAIN m.pmm.entries :
            i # j => FragPages(m.pmm.entries[i]) \cap FragPages(m.pmm.entries[j]) = {}
    /\ FreePages \cap (Owned \cup InitrdPages) = {}

\* No page serves two purposes: two table entries, of one task or of two,
\* share a page only when it is a page of the initrd or the environment, and
\* none of them maps a PML4 or a page of the core (vmm_mapbss, vmm_unmapbss,
\* SYS_swapbuf).
UsedOnce ==
    LET us == {u \in AllUses : Entry(m, u[1], u[2]).p \notin InitrdPages \cup {environment}}
    IN  Cardinality(Roots \cup m.core \cup UNION {UsedAt(m, u) : u \in us})
            = Cardinality(Started) + Cardinality(m.core) + PagesAt(m, us)

\* pmm.freepages counts exactly the pages not handed out, so a page is never
\* freed twice, and the fragments never hold more than it says.
CountsExact ==
    /\ m.pmm.free = m.pmm.total - Cardinality(m.out)
    /\ Cardinality(FreePages) <= m.pmm.free

\* Unmapping leaks nothing: every page handed out is a page of the core, a
\* table that can be reached, or mapped.  (test/mmap.c counts free pages.)
NoLeak == mode # "panic" => m.out \subseteq Owned

\* The physical address of virtual page v of task t, or 0.
Translate(mm, t, v) ==
    LET pdpt == Entry(mm, mm.tcb[t].memroot, Index(v, 3)).p
        pd == Entry(mm, pdpt, Index(v, 2)).p
        e == Entry(mm, pd, Index(v, 1))
    IN  IF e.slot THEN e.p + Index(v, 0) * PAGESIZE ELSE Entry(mm, e.p, Index(v, 0)).p

\* A mapped area keeps its pages until it is unmapped: no mapping or
\* unmapping elsewhere, of this task or another, takes them away.
AreasStay ==
    \A x \in live \cap live' : \A v \in PagesOf(x[2]) :
        Translate(m, x[1], v) # 0 /\ Translate(m', x[1], v) = Translate(m, x[1], v)

\* tcb->linkmem is the number of pages mapped by vmm_mapbss, of text, and of
\* the environment that comes with libc.
LinkmemExact ==
    mode # "panic" =>
        \A t \in Started :
            PagesAt(m, Leaves(m, t)) = m.tcb[t].linkmem + 3 + nrmqmax + (IF Kind[t] = "video" THEN 1 ELSE 0)

ScreenOf(t) == {Translate(m, t, BUF_ADDRESS + k) : k \in 0..ScreenSlots * TABLE - 1}
Screens == {ScreenOf(t) : t \in {x \in Range(Tasks) : Kind[x] \in {"ui", "video"}}}

\* Swapping only exchanges: the two screen buffers stay two, whole and
\* disjoint, and the frame buffer stays where the driver expects it.
ScreensStay ==
    mode = "ready" =>
        /\ Screens' = Screens /\ Cardinality(Screens) = 2
        /\ \A t \in Range(Tasks) : Kind[t] = "video" =>
            \A k \in 0..ScreenSlots * TABLE - 1 :
                Translate(m', t, BUF_ADDRESS + TABLE^2 + k) = Framebuffer + k * PAGESIZE

\* Every page of the machine is accounted for: free once, or in use where it
\* can be found, and counted (pmm_alloc, pmm_free, vmm_mapbss, vmm_unmapbss).
PagesAccounted == TypeOK /\ UsedOnce /\ FreeIsFree /\ CountsExact /\ NoLeak /\ LinkmemExact

\* What is mapped stays as it is while other areas are mapped, unmapped and
\* swapped (vmm_unmapbss, SYS_swapbuf).
MappingsStay == [][AreasStay /\ ScreensStay]_vars
=============================================================================
