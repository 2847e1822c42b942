------------------------------- MODULE Qsort -------------------------------
(***************************************************************************)
(* qsort of the C library (src/lib/libc/qsort.c).  A step is one iteration *)
(* of a loop: of the insertion sort, of the scans from the two ends of the *)
(* part that is being divided, or of the loop around them.  Parts still to *)
(* be sorted are pairs <<a, n>> of an index and a length, in the order of  *)
(* the recursion, the current one first.                                   *)
(*                                                                         *)
(* An element is its key and its place in the original array; pointers are *)
(* indices, and swaptype, the unit in which swap copies, is left out.      *)
(***************************************************************************)
EXTENDS Integers, Sequences

CONSTANT Arrays    \* the sequences of keys to sort

ASSUME ArraysAssumption == Arrays \subseteq Seq(Int)

VARIABLES arr,              \* the array
          todo,             \* the parts to sort
          at,               \* the loop that runs: "loop", "insert", "up", "down" or "gather"
          swap_cnt,         \* what the loops keep: whether an element was moved,
          pa, pb, pc, pd,   \* the bounds of the scans,
          pm                \* and the next element to insert

ptrs == <<pa, pb, pc, pd>>
sort == <<arr, todo, at, swap_cnt, ptrs, pm>>

NotSorting == <<<<>>, <<>>, "loop", 0, <<0, 0, 0, 0>>, 0>>

SortInit ==
    /\ arr = <<>> /\ todo = <<>> /\ at = "loop" /\ swap_cnt = 0
    /\ pa = 0 /\ pb = 0 /\ pc = 0 /\ pd = 0 /\ pm = 0

\* a and n of the C code: where the current part begins, and its length.
Lo == Head(todo)[1]
Size == Head(todo)[2]

cmp(A, i, j) == A[i][1] - A[j][1]

swap(A, i, j) == [A EXCEPT ![i] = A[j], ![j] = A[i]]

\* The r elements at i and the r elements at j change places.
vecswap(A, i, j, r) ==
    [x \in DOMAIN A |-> IF x \in i..i + r - 1 THEN A[x - i + j]
                        ELSE IF x \in j..j + r - 1 THEN A[x - j + i] ELSE A[x]]

med3(A, x, y, z) ==
    IF cmp(A, x, y) < 0
    THEN IF cmp(A, y, z) < 0 THEN y ELSE IF cmp(A, x, z) < 0 THEN z ELSE x
    ELSE IF cmp(A, y, z) > 0 THEN y ELSE IF cmp(A, x, z) < 0 THEN x ELSE z

\* The element at pl moves down past the greater ones before it, which the
\* swaps move up by one.
Sift(A, pl) ==
    LET k == CHOOSE x \in Lo..pl : /\ \A y \in x..pl - 1 : cmp(A, y, pl) > 0
                                   /\ x > Lo => cmp(A, x - 1, pl) <= 0
    IN  [x \in DOMAIN A |-> IF x = k THEN A[pl] ELSE IF x \in k + 1..pl THEN A[x - 1] ELSE A[x]]

InsertionSort == at' = "insert" /\ pm' = Lo + 1 /\ UNCHANGED <<arr, todo, swap_cnt, ptrs>>

\* The current part is done and the recursion goes on with the rest; the
\* locals are forgotten.
Resume(rest) ==
    /\ todo' = rest /\ at' = "loop" /\ swap_cnt' = 0
    /\ pa' = 0 /\ pb' = 0 /\ pc' = 0 /\ pd' = 0 /\ pm' = 0

Insert ==
    /\ at = "insert"
    /\ \/ /\ pm < Lo + Size
          /\ arr' = Sift(arr, pm) /\ pm' = pm + 1
          /\ UNCHANGED <<todo, at, swap_cnt, ptrs>>
       \/ /\ pm >= Lo + Size
          /\ Resume(Tail(todo)) /\ UNCHANGED arr

Pivot(A) ==
    LET mid == Lo + Size \div 2
        pn == Lo + Size - 1
        d == Size \div 8
    IN  IF Size <= 7 THEN mid
        ELSE IF Size <= 40 THEN med3(A, Lo, mid, pn)
        ELSE med3(A, med3(A, Lo, Lo + d, Lo + 2 * d), med3(A, mid - d, mid, mid + d),
                     med3(A, pn - 2 * d, pn - d, pn))

Loop ==
    /\ at = "loop" /\ todo # <<>>
    /\ \/ Size < 7 /\ InsertionSort
       \/ /\ Size >= 7
          /\ arr' = swap(arr, Lo, Pivot(arr)) /\ at' = "up"
          /\ pa' = Lo + 1 /\ pb' = Lo + 1 /\ pc' = Lo + Size - 1 /\ pd' = Lo + Size - 1
          /\ UNCHANGED <<todo, swap_cnt, pm>>

\* The scans: keys equal to the pivot at Lo gather before pa and behind pd,
\* smaller ones stay before pb and greater ones behind pc.
ScanUp ==
    LET r == cmp(arr, pb, Lo)
    IN  /\ at = "up" /\ UNCHANGED <<todo, pc, pd, pm>>
        /\ \/ /\ ~(pb <= pc /\ r <= 0)
              /\ at' = "down" /\ UNCHANGED <<arr, swap_cnt, pa, pb>>
           \/ /\ pb <= pc /\ r < 0
              /\ pb' = pb + 1 /\ UNCHANGED <<arr, at, swap_cnt, pa>>
           \/ /\ pb <= pc /\ r = 0
              /\ arr' = swap(arr, pa, pb) /\ swap_cnt' = 1
              /\ pa' = pa + 1 /\ pb' = pb + 1 /\ UNCHANGED at

ScanDown ==
    LET r == cmp(arr, pc, Lo)
    IN  /\ at = "down" /\ UNCHANGED <<todo, pa, pm>>
        /\ \/ /\ pb > pc
              /\ at' = "gather" /\ UNCHANGED <<arr, swap_cnt, pb, pc, pd>>
           \/ /\ pb <= pc /\ r > 0
              /\ pc' = pc - 1 /\ UNCHANGED <<arr, at, swap_cnt, pb, pd>>
           \/ /\ pb <= pc /\ r = 0
              /\ arr' = swap(arr, pc, pd) /\ swap_cnt' = 1
              /\ pc' = pc - 1 /\ pd' = pd - 1 /\ UNCHANGED <<at, pb>>
           \/ /\ pb <= pc /\ r < 0
              /\ arr' = swap(arr, pb, pc) /\ swap_cnt' = 1
              /\ pb' = pb + 1 /\ pc' = pc - 1 /\ at' = "up" /\ UNCHANGED pd

\* How many of the keys equal to the pivot change places with the smaller ones
\* before pb, and at the end with the greater ones.
LeftEqual == IF pa - Lo < pb - pa THEN pa - Lo ELSE pb - pa
RightEqual_wide == IF pd - pc < Lo + Size - pd THEN pd - pc ELSE Lo + Size - pd
RightEqual == IF pd - pc < Lo + Size - pd - 1 THEN pd - pc ELSE Lo + Size - pd - 1

\* A part of one element is sorted.
part(from, len) == IF len > 1 THEN <<<<from, len>>>> ELSE <<>>

\* The equal keys go to the middle; what is left are two parts to sort.
Gather ==
    /\ at = "gather"
    /\ \/ swap_cnt = 0 /\ InsertionSort
       \/ /\ swap_cnt # 0
          /\ arr' = vecswap(vecswap(arr, Lo, pb - LeftEqual, LeftEqual),
                            pb, Lo + Size - RightEqual, RightEqual)
          /\ Resume(part(Lo, pb - pa) \o part(Lo + Size - (pd - pc), pd - pc) \o Tail(todo))

qsort(keys) ==
    /\ arr' = [i \in DOMAIN keys |-> <<keys[i], i>>]
    /\ todo' = <<<<1, Len(keys)>>>>
    /\ UNCHANGED <<at, swap_cnt, ptrs, pm>>

BeginSort == sort = NotSorting /\ \E keys \in Arrays : qsort(keys)

QsortNext == BeginSort \/ Loop \/ Insert \/ ScanUp \/ ScanDown \/ Gather

\* The place i lies in the part p.
In(p, i) == p[1] <= i /\ i < p[1] + p[2]

\* Every element outside the parts that are still to sort is where it belongs,
\* with no greater key before it and no smaller one behind it, and no element
\* is lost or doubled, so the array is sorted in the end (the parts of the
\* recursion, vecswap).
SortedOutside ==
    LET open(i) == \E k \in DOMAIN todo : In(todo[k], i)
    IN  /\ {arr[i][2] : i \in DOMAIN arr} = DOMAIN arr
        /\ \A i \in DOMAIN arr : open(i) \/ \A j \in DOMAIN arr : /\ j < i => arr[j][1] <= arr[i][1]
                                                                  /\ i < j => arr[i][1] <= arr[j][1]
=============================================================================
