-------------------------------- MODULE Fcb --------------------------------
(***************************************************************************)
(* The file control blocks of the FS task.  The memory of the task is one  *)
(* record s that every operator takes and returns; s.ret is the last       *)
(* result, s.err is errno, and s.mode becomes "hung" where the code loops  *)
(* without end.                                                            *)
(*                                                                         *)
(* A path is the sequence of its names; the empty name at the end is the   *)
(* trailing slash of a directory, so "/" is <<"">> and "/dev/" is          *)
(* <<"dev", "">>.  NULL stands for a null pointer.                         *)
(***************************************************************************)
EXTENDS Integers, Sequences, SequencesExt, FiniteSets

CONSTANTS MaxFcb,    \* bound on the number of file control blocks
          Pids,      \* tasks that talk to FS
          Bucket     \* Bucket[pid]: pid & 0xFF

NULL == <<>>
None == -1
ROOTFCB == 0
DEVFCB == 1
AMSK == {"r", "w", "append", "excl"}

Blank == [path |-> NULL, nopen |-> 0, type |-> "file", excl |-> FALSE, fs |-> "none",
          mode |-> {}, storage |-> 0, inode |-> 0, size |-> 0, blksize |-> 0, uni |-> NULL]

Fids(s) == 0..s.nfcb - 1
Live(s, f) == f \in Fids(s) /\ s.fcb[f].path # NULL
seterr(s, e) == [s EXCEPT !.err = e]
Ret(s, r) == [s EXCEPT !.ret = r]
Hang(s) == [s EXCEPT !.mode = "hung", !.blk = None]
FirstOf(S) == IF S = {} THEN None ELSE Min(S)

\* memcmp(q, p, strlen(p)) == 0 for a path p that ends in a slash.
Under(p, q) == IsPrefix(Front(p), q) /\ Len(q) >= Len(p)

\* Look up a path, with or without its trailing slash.
fcb_get(s, p) ==
    FirstOf({f \in Fids(s) : /\ p # NULL
                             /\ \/ s.fcb[f].path = p
                                \/ Last(p) # "" /\ s.fcb[f].path = Append(p, "")})

\* Look up a path and add it to the first free entry when it is not there.
\* What the entry held before stays in nopen and flags.
fcb_add(s, p, type) ==
    LET old == FirstOf({f \in Fids(s) : s.fcb[f].path = p})
        free == FirstOf({f \in Fids(s) : s.fcb[f].path = NULL})
        put(f) == [s EXCEPT !.ret = f, !.nfiles = @ + 1, !.nfcb = Max({@, f + 1}),
                            !.fcb[f].path = p, !.fcb[f].type = type, !.fcb[f].fs = "none"]
    IN  IF old # None THEN Ret(s, old) ELSE put(IF free # None THEN free ELSE s.nfcb)

\* The table ends after the last entry in use.
Trim(s) ==
    LET used == {f \in Fids(s) : s.fcb[f].path # NULL}
    IN  [s EXCEPT !.nfcb = IF used = {} THEN 0 ELSE Max(used) + 1]

RECURSIVE fcb_del(_, _)

\* Drop a reference; the entry goes with the last one, and so do the
\* references of a union to its members.  Of a freed entry only the path, the
\* size and the members are cleared.
fcb_del(s, f) ==
    LET n == Max({s.fcb[f].nopen - 1, 0})
        s1 == [s EXCEPT !.fcb[f].nopen = n]
        members == SelectSeq(s.fcb[f].uni, LAMBDA m : m # f)
        s2 == FoldLeft(fcb_del, s1, members)
    IN  CASE ~ Live(s, f) -> s
          [] Live(s, f) /\ n > 0 -> s1
          [] OTHER -> Trim([s2 EXCEPT !.nfiles = @ - 1,
                                      !.fcb[f].path = NULL, !.fcb[f].size = 0, !.fcb[f].uni = NULL])

\* Delete all unused entries.  An unused entry below a used one is deleted
\* again and again: the loop ends only when nopen is not zero anywhere.
RECURSIVE fcb_free(_)
fcb_free(s) ==
    LET unused(t) == {f \in Fids(t) : t.fcb[f].nopen = 0}
        once(t, f) == IF f - 1 \in unused(t) THEN fcb_del(t, f - 1) ELSE t
        again(t) == IF t = s THEN Hang(s) ELSE fcb_free(t)
    IN  IF unused(s) = {} THEN s ELSE again(FoldLeft(once, s, [f \in 1..s.nfcb |-> f]))
=============================================================================
