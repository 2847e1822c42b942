------------------------------ MODULE MCMemory ------------------------------
(***************************************************************************)
(* Memory with pages of two bytes and tables of four entries, four tasks   *)
(* and 120 pages of memory.                                                *)
(***************************************************************************)
EXTENDS Memory

CONSTANTS fs, ui, video, srv

MCTasks == <<fs, ui, video, srv>>
MCKind == [t \in {fs, ui, video, srv} |-> CASE t = fs -> "fs" [] t = ui -> "ui"
                                            [] t = video -> "video" [] t = srv -> "srv"]

Pg(n) == n * PAGESIZE
FreeArea(from, to) == [ptr |-> Pg(from), size |-> Pg(to - from), free |-> TRUE]
Reserved(from, to) == [ptr |-> Pg(from), size |-> Pg(to - from), free |-> FALSE]

(***************************************************************************)
(* Memory maps: the initrd left out by the loader, its size not a multiple *)
(* of a page; inside a free area; over the boundary of two areas; at the   *)
(* beginning of an area that does not start on a page; too little memory   *)
(* for the core to start, and for its tasks.                               *)
(***************************************************************************)
MCMaps ==
    {[mmap |-> <<FreeArea(0, 30), Reserved(30, 34), FreeArea(34, 35), FreeArea(36, 120)>>,
      initrd |-> [ptr |-> Pg(30), size |-> Pg(3) + 1]],
     [mmap |-> <<Reserved(0, 1), FreeArea(1, 2), FreeArea(3, 120)>>,
      initrd |-> [ptr |-> Pg(50), size |-> Pg(5)]],
     [mmap |-> <<FreeArea(0, 40), FreeArea(40, 119)>>,
      initrd |-> [ptr |-> Pg(38), size |-> Pg(4)]],
     [mmap |-> <<FreeArea(0, 10), [ptr |-> Pg(10) + 1, size |-> Pg(108) + 1, free |-> TRUE]>>,
      initrd |-> [ptr |-> Pg(11), size |-> Pg(2)]],
     [mmap |-> <<FreeArea(0, 8)>>, initrd |-> [ptr |-> Pg(9), size |-> Pg(2)]],
     [mmap |-> <<FreeArea(0, 60)>>, initrd |-> [ptr |-> Pg(60), size |-> Pg(2)]]}

(***************************************************************************)
(* What a service maps: pages in the slot of its first bss page, pages     *)
(* that cross into the next slot, one slot, two slots, and the last slot   *)
(* of the directory.                                                       *)
(***************************************************************************)
MCAreas == {[at |-> 17, bytes |-> Pg(2) - 1],
            [at |-> 23, bytes |-> Pg(2)], [at |-> 20, bytes |-> Pg(4)],
            [at |-> 24, bytes |-> Pg(8)], [at |-> 28, bytes |-> Pg(4)]}
=============================================================================
