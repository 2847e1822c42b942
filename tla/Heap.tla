-------------------------------- MODULE Heap --------------------------------
(***************************************************************************)
(* The allocator of the C library.  An arena has one allocation map, which *)
(* lists chunks of UNITS blocks of one size, the quantum, or one block of  *)
(* ALLOCSIZE or more.  Memory comes from the core page by page and is      *)
(* given back as soon as nothing is allocated in it.                       *)
(*                                                                         *)
(* A call runs with the arena's lock held from its start to its end, so it *)
(* is one step.  The core never refuses memory (it panics instead), and a  *)
(* second allocation map is never made: its test is always true.           *)
(***************************************************************************)
EXTENDS Integers, FiniteSets, SequencesExt

CONSTANTS UNITS,      \* bits in the bitmap of a chunk
          WORD, INT,  \* bits of an uint64_t and of an int
          PAGE,       \* __PAGESIZE
          ALLOCSIZE,  \* size of the arena, of its map and of a slot
          maxchunks,  \* chunks an allocation map has room for
          Sizes, Aligns,
          MaxLive,    \* bound: blocks allocated at a time
          MaxAddr     \* bound: addresses of the arena

VARIABLES chunk,   \* the allocation map: [quantum, ptr, map, size] in order of creation
          mapped,  \* pages of the arena backed by memory
          live,    \* live[p]: size of the block the program has at p
          last     \* what the last call returned, cleared and copied

heap == <<chunk, mapped, live, last>>

NULL == 0
NoCall == [at |-> NULL, align |-> 1, size |-> 0, old |-> 0, copied |-> 0, zero |-> 0]
Area(p, n) == {x \div PAGE : x \in p..p + n - 1}
AllocMap == Area(ALLOCSIZE, ALLOCSIZE)
FirstChunk == 2 * ALLOCSIZE

\* The smallest power of two that is not below s, in units of eight bytes.
Powers == {2^k : k \in 0..12}
Quantum(s) == Min({q \in Powers : q >= s})
chunksize(q) == ((q * UNITS) \div PAGE) * PAGE
End(c) == c.ptr + (IF c.quantum < ALLOCSIZE THEN chunksize(c.quantum) ELSE c.size)
Holds(c, p) == c.ptr <= p /\ p < End(c)

\* The words of a bitmap added up in a variable of the given width.
Added(map, bits) == MapThenSumSet(LAMBDA k : 2^(k % WORD), map) % 2^bits

\* Frees the block at p of chunk j; the chunk goes with its last block, and
\* the allocation map with its last chunk.
Release(h, j, p, bits) ==
    LET o == h.chunk[j]
        map == o.map \ {(p - o.ptr) \div o.quantum}
        empty == o.quantum >= ALLOCSIZE \/ Added(map, bits) = 0
        gone == IF o.quantum >= ALLOCSIZE THEN Area(o.ptr, o.size)
                ELSE IF o.quantum >= PAGE THEN Area(p, o.quantum)
                ELSE IF empty THEN Area(o.ptr, chunksize(o.quantum)) ELSE {}
        left == IF empty THEN RemoveAt(h.chunk, j) ELSE [h.chunk EXCEPT ![j].map = map]
    IN  [h EXCEPT !.chunk = left,
                  !.mapped = @ \ (gone \cup IF left = <<>> THEN AllocMap ELSE {})]

bzt_free(h, p) ==
    LET js == {j \in DOMAIN h.chunk : Holds(h.chunk[j], p)}
    IN  IF js = {} THEN h ELSE Release(h, Min(js), p, WORD)

\* Mutant: any space before the first chunk is taken to be big enough.
Place_any(cs, q, a, s) ==
    LET end == Max({FirstChunk} \cup {End(c) : c \in Range(cs)})
        gap == cs # <<>> /\ FirstChunk < Min({c.ptr : c \in Range(cs)})
        fp == IF gap THEN FirstChunk ELSE end
    IN  IF q < ALLOCSIZE THEN fp ELSE ((fp + a - 1) \div a) * a

\* Where a new chunk for s bytes goes: behind all the others, or between the
\* allocation map and the first of them.
Place(cs, q, a, s) ==
    LET slots == ((s + ALLOCSIZE - 1) \div ALLOCSIZE) * ALLOCSIZE
        end == Max({FirstChunk} \cup {End(c) : c \in Range(cs)})
        gap == /\ cs # <<>> /\ FirstChunk % a = 0
               /\ FirstChunk + slots < Min({c.ptr : c \in Range(cs)})
        fp == IF gap THEN FirstChunk ELSE end
    IN  IF q < ALLOCSIZE THEN fp ELSE ((fp + a - 1) \div a) * a

\* A chunk of the quantum with a free unit at the alignment: the last such.
FreeUnits(c, q, a) ==
    IF c.quantum = q /\ q < ALLOCSIZE /\ c.ptr % a = 0
    THEN {k \in 0..UNITS - 1 : k % (a \div q) = 0} \ c.map ELSE {}

\* The result: the heap, the address, how much was copied and cleared there.
bzt_alloc(h0, align, p, s) ==
    LET q == Quantum(s)
        a == Max({align, q})
        h == [h0 EXCEPT !.mapped = @ \cup AllocMap]
        cs == h.chunk
        fits == {j \in DOMAIN cs : FreeUnits(cs[j], q, a) # {}}
        olds == {j \in DOMAIN cs : p # NULL /\ Holds(cs[j], p)}
        fresh == fits = {}
        n == IF fresh THEN Len(cs) + 1 ELSE Max(fits)
        new == [quantum |-> q, ptr |-> Place(cs, q, a, s), map |-> {}, size |-> 0]
        c == IF fresh THEN new ELSE cs[n]
        k == IF fresh THEN 0 ELSE Min(FreeUnits(c, q, a))
        slots == ((s + ALLOCSIZE - 1) \div ALLOCSIZE) * ALLOCSIZE
        fp == IF q < ALLOCSIZE THEN c.ptr + k * q ELSE c.ptr
        got == IF q >= ALLOCSIZE THEN Area(fp, slots)
               ELSE IF q >= PAGE THEN Area(fp, q)
               ELSE IF fresh THEN Area(c.ptr, chunksize(q)) ELSE {}
        unit == IF q < ALLOCSIZE THEN [c EXCEPT !.map = @ \cup {k}] ELSE [c EXCEPT !.size = slots]
        taken == [h EXCEPT !.chunk = IF fresh THEN Append(cs, unit) ELSE [cs EXCEPT ![n] = unit],
                           !.mapped = @ \cup got]
        oq == IF olds = {} THEN 0 ELSE cs[Max(olds)].quantum
    IN  IF q < ALLOCSIZE /\ ~ fresh /\ n \in olds /\ n = Max(olds)
        THEN [h |-> h, fp |-> p, copied |-> 0, zero |-> 0]
        ELSE IF fresh /\ Len(cs) >= maxchunks
        THEN [h |-> h, fp |-> p, copied |-> 0, zero |-> 0]
        ELSE [h |-> IF olds = {} THEN taken ELSE Release(taken, Max(olds), p, INT),
              fp |-> fp, copied |-> oq, zero |-> IF q > oq THEN q - oq ELSE 0]

-----------------------------------------------------------------------------
HeapInit == chunk = <<>> /\ mapped = {} /\ live = <<>> /\ last = NoCall

Here == [chunk |-> chunk, mapped |-> mapped]
Set(h) == chunk' = h.chunk /\ mapped' = h.mapped

\* malloc, calloc, aligned_alloc; without room NULL is returned.
Alloc(a, s) ==
    /\ Cardinality(DOMAIN live) < MaxLive
    /\ Place(chunk, Quantum(s), Max({a, Quantum(s)}), s) + chunksize(Quantum(s)) <= MaxAddr
    /\ \E r \in {bzt_alloc(Here, a, NULL, s)} :
        /\ Set(r.h)
        /\ live' = IF r.fp = NULL THEN live ELSE (r.fp :> s) @@ live
        /\ last' = [at |-> r.fp, align |-> a, size |-> IF r.fp = NULL THEN 0 ELSE s, old |-> 0,
                    copied |-> r.copied, zero |-> r.zero]

\* realloc; without room the old block is returned as it was.
Realloc(p, s) ==
    /\ Quantum(s) >= Quantum(live[p])
    /\ Place(chunk, Quantum(s), Quantum(s), s) + chunksize(Quantum(s)) <= MaxAddr
    /\ \E r \in {bzt_alloc(Here, 1, p, s)} :
        LET others == [x \in DOMAIN live \ {p} |-> live[x]]
            moved == r.copied > 0
            kept == Quantum(s) = Quantum(live[p])
        IN
        /\ Set(r.h)
        /\ live' = (r.fp :> IF moved \/ kept THEN s ELSE live[p]) @@ others
        /\ last' = IF moved THEN [at |-> r.fp, align |-> 1, size |-> s, old |-> live[p],
                                  copied |-> r.copied, zero |-> r.zero]
                   ELSE NoCall

\* free; realloc to nothing is the same call.
Free(p) ==
    /\ \E h \in {bzt_free(Here, p)} : Set(h)
    /\ live' = [x \in DOMAIN live \ {p} |-> live[x]]
    /\ last' = NoCall

HeapNext == \/ \E a \in Aligns, s \in Sizes : Alloc(a, s)
            \/ \E p \in DOMAIN live : Free(p) \/ \E s \in Sizes : Realloc(p, s)

-----------------------------------------------------------------------------
\* A chunk has one bit for each block the program has in it and no other: a
\* unit is never given out twice and never lost (bzt_alloc, bzt_free).
BitmapExact ==
    /\ \A p \in DOMAIN live :
          Cardinality({j \in DOMAIN chunk : Holds(chunk[j], p)}) = 1
    /\ \A j \in DOMAIN chunk :
          LET c == chunk[j]
              own == {p \in DOMAIN live : Holds(c, p)}
          IN  /\ own # {}
              /\ IF c.quantum < ALLOCSIZE THEN own = {c.ptr + k * c.quantum : k \in c.map}
                                         ELSE own = {c.ptr}

\* Blocks the program has never overlap, in whatever order chunks come and
\* go and the space of freed ones is used again.
BlocksApart ==
    \A p, r \in DOMAIN live : p < r => p + live[p] <= r

\* All memory of a block is backed, and no page is kept that no chunk uses:
\* what is free goes back to the core at once (the design considerations).
MappedExactly ==
    mapped = (IF chunk = <<>> THEN {} ELSE AllocMap)
             \cup UNION {IF c.quantum >= ALLOCSIZE THEN Area(c.ptr, c.size)
                         ELSE IF c.quantum < PAGE THEN Area(c.ptr, chunksize(c.quantum))
                         ELSE UNION {Area(c.ptr + k * c.quantum, c.quantum) : k \in c.map}
                         : c \in Range(chunk)}

\* Clearing and copying into a new block reaches no other block and no page
\* that is not backed (memzero and memcpy of a quantum).
WritesOwn ==
    LET end == last.at + last.copied + last.zero
    IN  last.size > 0 =>
          /\ Area(last.at, last.copied + last.zero) \subseteq mapped
          /\ \A p \in DOMAIN live \ {last.at} : p + live[p] <= last.at \/ end <= p

\* A new block is aligned, holds what the old one held and zeros behind it:
\* none of its bytes is left over from a block that was freed.
BlockReady ==
    last.size > 0 =>
        /\ last.at % Max({last.align, Min({Quantum(last.size), PAGE})}) = 0
        /\ last.copied >= last.old /\ last.copied + last.zero >= last.size
        /\ live[last.at] = last.size
=============================================================================
