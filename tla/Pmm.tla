-------------------------------- MODULE Pmm --------------------------------
(***************************************************************************)
(* The physical memory manager (core/pmm.c): a list of free fragments.     *)
(*                                                                         *)
(* The operators are functions on the pmm record; Memory gives them their  *)
(* steps.  Addresses are bytes of a machine whose pages are PAGESIZE bytes *)
(* and whose slots (2M on x86_64) are SLOTPAGES pages.  The lock of the    *)
(* manager is held over each call and entropy gathering leaves no trace    *)
(* here, so both are left out.                                             *)
(***************************************************************************)
EXTENDS Integers, Sequences, SequencesExt, FiniteSetsExt

CONSTANTS PAGESIZE,     \* bytes in a page
          SLOTPAGES,    \* pages in a slot
          nrphymax,     \* pages reserved for the fragment list
          nrlogmax,     \* pages of the early log
          MaxEntries,   \* fragments that fit in nrphymax pages
          PHYMEM_MIN    \* least upper bound of memory the core starts with

SLOTSIZE == SLOTPAGES * PAGESIZE

\* Round x up to a multiple of s.
RoundUp(x, s) == ((x + s - 1) \div s) * s

(***************************************************************************)
(* pmm.entries as a sequence, pmm.freepages, pmm.totalpages; "got" is the  *)
(* address the last allocation returned and "panic" is set by kpanic,      *)
(* after which nothing runs.                                               *)
(***************************************************************************)
NoPmm == [entries |-> <<>>, free |-> 0, total |-> 0, got |-> 0, panic |-> FALSE]

kpanic(p) == [p EXCEPT !.panic = TRUE]

\* Allocate consecutive pages from the front of the first fragment that is
\* large enough; a fragment that becomes empty is removed.
pmm_alloc(p, pages) ==
    LET i == SelectInSeq(p.entries, LAMBDA e : e.size >= pages)
        e == p.entries[i]
        rest == [base |-> e.base + pages * PAGESIZE, size |-> e.size - pages]
    IN  IF i = 0 THEN kpanic(p)
        ELSE [p EXCEPT !.entries = IF rest.size = 0 THEN RemoveAt(@, i)
                                                    ELSE [@ EXCEPT ![i] = rest],
                       !.free = @ - pages,
                       !.got = e.base]

SlotBase(e) == RoundUp(e.base, SLOTSIZE)

\* Allocate a slot.  A fragment that starts below the slot is split in two;
\* the entry removed when nothing is left above the slot is the i-th, which
\* after a split is the part below.
pmm_allocslot(p) ==
    LET i == SelectInSeq(p.entries, LAMBDA e : e.base + e.size * PAGESIZE >= SlotBase(e) + SLOTSIZE)
        e == p.entries[i]
        b == SlotBase(e)
        s == (b - e.base) \div PAGESIZE
        above == [base |-> b + SLOTSIZE, size |-> e.size - (s + SLOTPAGES)]
        parts == IF b # e.base
                 THEN ReplaceAt(InsertAt(p.entries, i, [e EXCEPT !.size = s]), i + 1, above)
                 ELSE ReplaceAt(p.entries, i, above)
    IN  IF i = 0 \/ (b # e.base /\ Len(p.entries) + 1 > MaxEntries) THEN kpanic(p)
        ELSE [p EXCEPT !.entries = IF above.size = 0 THEN RemoveAt(parts, i) ELSE parts,
                       !.free = @ - SLOTPAGES,
                       !.got = b]

\* Give pages back: to the first fragment that begins where they end or ends
\* where they begin, otherwise as a new fragment.
pmm_free(p, base, numpages) ==
    LET end == base + numpages * PAGESIZE
        Touches(e) == e.base = end \/ e.base + e.size * PAGESIZE = base
        i == SelectInSeq(p.entries, Touches)
        grown == [base |-> IF p.entries[i].base = end THEN base ELSE p.entries[i].base,
                  size |-> p.entries[i].size + numpages]
    IN  [p EXCEPT !.entries = IF i = 0 THEN Append(@, [base |-> base, size |-> numpages])
                                       ELSE [@ EXCEPT ![i] = grown],
                  !.free = @ + numpages]

-----------------------------------------------------------------------------
(***************************************************************************)
(* pmm_init.  The loader's memory map is a sequence of areas [ptr, size,   *)
(* free]; initrd is [ptr, size].                                           *)
(***************************************************************************)

\* First pass: align the large free areas, find the end of memory and take
\* the pages of mcb and of the fragment list from the first of them.
Prealloc(acc, a) ==
    LET skew == a.ptr % PAGESIZE
        al == IF skew = 0 THEN a
              ELSE [a EXCEPT !.ptr = @ - skew + PAGESIZE, !.size = @ - (PAGESIZE - skew)]
        took == (nrphymax + 1) * PAGESIZE
    IN  IF a.free /\ a.size \div PAGESIZE >= nrphymax
        THEN [map |-> Append(acc.map, IF acc.core = -1
                                      THEN [al EXCEPT !.ptr = @ + took, !.size = @ - took]
                                      ELSE al),
              core |-> IF acc.core = -1 THEN al.ptr ELSE acc.core,
              top |-> Max({acc.top, al.ptr + al.size})]
        ELSE [acc EXCEPT !.map = Append(@, a)]

FirstPass(mmap) == FoldLeft(Prealloc, [map |-> <<>>, core |-> -1, top |-> 0], mmap)

\* Second pass: record a free area, without the part the initrd lies in.
Fragments(a, initrd) ==
    LET e == initrd.ptr + RoundUp(initrd.size, PAGESIZE)
        end == a.ptr + a.size
        Frag(base, bytes) == <<[base |-> base, size |-> bytes \div PAGESIZE]>>
    IN  CASE ~ a.free -> <<>>
          [] a.free /\ (\/ a.ptr <= initrd.ptr /\ end > initrd.ptr
                        \/ a.ptr < e /\ end >= e) ->
                (IF initrd.ptr > a.ptr + PAGESIZE
                 THEN Frag(a.ptr, initrd.ptr - a.ptr) ELSE <<>>)
                \o (IF end > e + PAGESIZE
                    THEN Frag(initrd.ptr + initrd.size, end - e) ELSE <<>>)
          [] OTHER -> IF a.size \div PAGESIZE # 0 THEN Frag(a.ptr, a.size) ELSE <<>>

\* The record the second pass leaves.
pmm_record(mmap, initrd) ==
    LET first == FirstPass(mmap)
        frags == FlattenSeq([i \in DOMAIN first.map |-> Fragments(first.map[i], initrd)])
        pages == FoldLeft(LAMBDA n, f : n + f.size, 0, frags)
    IN  [NoPmm EXCEPT !.entries = frags, !.free = pages, !.total = pages,
                      !.panic = first.top < PHYMEM_MIN]
=============================================================================
