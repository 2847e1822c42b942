-------------------------------- MODULE Disk --------------------------------
(***************************************************************************)
(* The disk that tools/mkfs.c puts together from partition images: a boot  *)
(* sector, a GPT, the partitions one after the other, and the GPT again.   *)
(* Sizes are in bytes and whole sectors; s2 says where on the ESP and on   *)
(* the root partition the second stage of the boot loader lies, -1 for     *)
(* nowhere; stage1, whether there is a first stage.                        *)
(***************************************************************************)
EXTENDS Integers, Sequences, SequencesExt, FiniteSets, FiniteSetsExt

\* In the order of the disk; the first five are optional.
Parts == <<"esp", "sys1", "sys2", "usr1", "usr2", "var", "home", "swap">>
gs == 7 * 512
swapsize == 4096
Total(sz) == FoldLeft(LAMBDA n, p : n + sz[p], 0, Parts)

\* Mutant: the sector of the boot record is not counted.
StartLba_norecord(sz, i) == (gs + FoldLeft(LAMBDA n, p : n + sz[p], 0, SubSeq(Parts, 1, i - 1))) \div 512

\* The first and the last sector of partition number i.
StartLba(sz, i) == (gs + FoldLeft(LAMBDA n, p : n + sz[p], 0, SubSeq(Parts, 1, i - 1))) \div 512 + 1
EndLba(sz, i) == (gs + FoldLeft(LAMBDA n, p : n + sz[p], 0, SubSeq(Parts, 1, i))) \div 512

\* The address that is put into the boot sector; the last sector of a
\* partition is not looked at.
Stage2(sz, s2) ==
    CASE s2.esp >= 0 /\ s2.esp < sz.esp - 512 -> (s2.esp + gs) \div 512 + 1
      [] OTHER -> IF s2.sys1 >= 0 /\ s2.sys1 < sz.sys1 - 512
                  THEN (s2.sys1 + gs + sz.esp) \div 512 + 1 ELSE 0

\* The records of the boot sector: a record of the ESP, one that covers the
\* GPT and one of type 0x30, which has as many sectors as the first system
\* partition but begins where that ends.
Records(sz) ==
    (IF sz.esp = 0 THEN <<>>
     ELSE <<[type |-> "esp", active |-> TRUE, start |-> gs \div 512 + 1, count |-> sz.esp \div 512]>>)
    \o <<[type |-> "gpt", active |-> FALSE, start |-> 1, count |-> gs \div 512],
         [type |-> "osz", active |-> sz.esp = 0, start |-> (gs + sz.esp + sz.sys1) \div 512 + 1,
          count |-> sz.sys1 \div 512]>>

\* The partition that gets a copy of the boot code in its first sector.
VBR(sz, stage1) ==
    CASE ~ stage1 -> "none"
      [] stage1 /\ sz.esp > 0 -> "esp"
      [] stage1 /\ sz.esp = 0 -> IF sz.sys1 > 0 THEN "sys1" ELSE "usr1"

\* The sectors that are written, in order.
Written(sz) ==
    LET part(p) == [i \in 1..sz[p] \div 512 |-> [of |-> p, at |-> i - 1]]
        table == [i \in 1..gs \div 512 - 1 |-> [of |-> "entries", at |-> i - 1]]
        head == <<[of |-> "header", at |-> 0]>>
    IN  <<[of |-> "mbr", at |-> 0]>> \o head \o table
        \o FoldLeft(LAMBDA s, p : s \o part(p), <<>>, Parts) \o table \o head

createdisk(sz, s2, stage1) ==
    [sectors |-> Written(sz),
     entries |-> SelectSeq([i \in DOMAIN Parts |-> [name |-> Parts[i], start |-> StartLba(sz, i), end |-> EndLba(sz, i)]],
                           LAMBDA e : sz[e.name] > 0 \/ e.name \in {"var", "home", "swap"}),
     numentries |-> 3 + Cardinality({p \in {"esp", "sys1", "sys2", "usr1", "usr2"} : sz[p] > 0}),
     primary |-> 1, table |-> 2,
     backup |-> (2 * gs + Total(sz)) \div 512,
     backuptable |-> (2 * gs + Total(sz) - gs) \div 512 + 1,
     first |-> gs \div 512 + 1, last |-> (gs + Total(sz)) \div 512,
     stage2 |-> Stage2(sz, s2), mbr |-> Records(sz), vbr |-> VBR(sz, stage1)]
=============================================================================
