------------------------------ MODULE Strings ------------------------------
(***************************************************************************)
(* Memory and string functions of the library (src/lib/libc/x86_64/        *)
(* string.S, src/lib/libc/string.c) and their twins in the core            *)
(* (src/core/x86_64/libk.S).  Memory is a sequence of bytes, a pointer an  *)
(* index, 0 the null pointer; a string ends with a byte 0.  The functions  *)
(* that do not do what string.h says are left out, but for two: memmem,    *)
(* which strstr is made of, misses a needle at the end of the haystack,    *)
(* and kstrcmp takes a beginning for the whole.                            *)
(***************************************************************************)
EXTENDS Integers, FiniteSets, SequencesExt

CONSTANTS WORDSIZE,     \* bytes that movsq and stosq handle at once
          Memories      \* what memory may hold before a call; it ends with 0

VARIABLE text   \* fn: the function called last, args: its arguments, was: memory
                \* before it, mem: memory after it, ret: what it returned;
                \* p: the place the tokenizer keeps, toks: its tokens so far

Nil == 0
NoText == [fn |-> "none", args |-> <<>>, was |-> <<>>, mem |-> <<>>, ret |-> Nil,
           p |-> Nil, toks |-> <<>>]

TextInit == text = NoText

(***************************************************************************)
(* Copying and filling                                                     *)
(***************************************************************************)

\* rep movs: n units of "size" bytes from s to d, upwards.
RECURSIVE Movs(_, _, _, _, _)
Movs(m, d, s, size, n) ==
    IF n = 0 THEN m
    ELSE Movs([i \in DOMAIN m |-> IF i \in d..d + size - 1 THEN m[i - d + s] ELSE m[i]],
              d + size, s + size, size, n - 1)

\* rep stos: n units of "size" bytes c from d on.
Stos(m, d, c, size, n) ==
    [i \in DOMAIN m |-> IF i \in d..d + size * n - 1 THEN c ELSE m[i]]

\* The bytes that are handled as words.
InWords(n) == (n \div WORDSIZE) * WORDSIZE

memcpy(m, d, s, n) ==
    IF d = Nil \/ s = Nil \/ n = 0 THEN m
    ELSE Movs(Movs(m, d, s, WORDSIZE, n \div WORDSIZE), d + InWords(n), s + InWords(n), 1, n % WORDSIZE)

kmemcpy(m, d, s, n) == memcpy(m, d, s, n)

memset(m, d, c, n) ==
    IF d = Nil \/ n = 0 THEN m
    ELSE Stos(Stos(m, d, c, WORDSIZE, n \div WORDSIZE), d + InWords(n), c, 1, n % WORDSIZE)

kmemset(m, d, c, n) == memset(m, d, c, n)

memzero(m, d, n) == memset(m, d, 0, n)

\* The loop of strcpy and strncpy; it never counts down to 0 from n = 0.
RECURSIVE Chars(_, _, _, _)
Chars(m, d, s, n) ==
    LET copied == [m EXCEPT ![d] = m[s]]
    IN  IF n = 1 \/ m[s] = 0 THEN copied ELSE Chars(copied, d + 1, s + 1, n - 1)

strcpy(m, d, s) == IF d = Nil \/ s = Nil THEN m ELSE Chars(m, d, s, 0)

strncpy(m, d, s, n) == IF n = 0 \/ d = Nil \/ s = Nil THEN m ELSE Chars(m, d, s, n)

kstrcpy(m, d, s) == Chars(m, d, s, 0)

RECURSIVE strlen(_, _)
strlen(m, s) == IF s = Nil \/ m[s] = 0 THEN 0 ELSE 1 + strlen(m, s + 1)

kstrlen(m, s) == strlen(m, s)

\* The end of d is looked for before the pointers are tested.
strcat(m, d, s) == strcpy(m, d + strlen(m, d), s)

strncat(m, d, s, n) == strncpy(m, d + strlen(m, d), s, n)

\* The copy is in a new block, which is after all that was there.
strdup(m, s) ==
    LET i == strlen(m, s) + 1
    IN  memcpy(m \o [k \in 1..i |-> 0], Len(m) + 1, s, i)

(***************************************************************************)
(* Comparing and searching                                                 *)
(***************************************************************************)
memcmp(m, a, b, n) ==
    IF n = 0 \/ a = b THEN 0
    ELSE IF a = Nil \/ b = Nil THEN 1
    ELSE IF \A i \in 0..n - 1 : m[a + i] = m[b + i] THEN 0 ELSE 1

\* The loop of strcmp and strncmp: the difference of the first two bytes that
\* differ, of the n-th ones, or 0 at the end of both.
RECURSIVE Difference(_, _, _, _)
Difference(m, a, b, n) ==
    IF n = 1 \/ m[b] # m[a] \/ m[b] = 0 THEN m[b] - m[a]
    ELSE Difference(m, a + 1, b + 1, n - 1)

strncmp(m, a, b, n) ==
    IF a = b THEN 0 ELSE IF a = Nil \/ b = Nil THEN 1 ELSE Difference(m, a, b, n)

strcmp(m, a, b) == strncmp(m, a, b, 0)

\* The core's memory comparison ends with a string.
RECURSIVE kmemcmp(_, _, _, _)
kmemcmp(m, a, b, n) ==
    IF n = 0 THEN 0
    ELSE IF m[b] = 0 THEN (IF m[a] = 0 THEN 0 ELSE 1)
    ELSE IF m[b] # m[a] THEN m[b] - m[a]
    ELSE kmemcmp(m, a + 1, b + 1, n - 1)

\* It returns the byte of b where they differ, so 0 when b ends there.
RECURSIVE kstrcmp(_, _, _)
kstrcmp(m, a, b) ==
    IF m[b] # m[a] \/ m[b] = 0 THEN m[b] ELSE kstrcmp(m, a + 1, b + 1)

RECURSIVE memchr(_, _, _, _)
memchr(m, s, c, n) ==
    IF s = Nil \/ m[s] = c THEN s ELSE IF n = 1 THEN Nil ELSE memchr(m, s + 1, c, n - 1)

\* The loop of memmem: it ends before the last place where the needle fits.
RECURSIVE Seek(_, _, _, _, _)
Seek(m, c, left, needle, nl) ==
    IF left = 0 THEN Nil
    ELSE IF memcmp(m, c, needle, nl) = 0 THEN c ELSE Seek(m, c + 1, left - 1, needle, nl)

memmem(m, h, hl, needle, nl) ==
    IF h = Nil \/ needle = Nil \/ hl = 0 \/ nl = 0 \/ nl > hl THEN Nil
    ELSE Seek(m, h, hl - nl, needle, nl)

strstr(m, h, needle) == memmem(m, h, strlen(m, h), needle, strlen(m, needle))

(***************************************************************************)
(* The tokenizer                                                           *)
(***************************************************************************)
Bytes(m, s) == SubSeq(m, s, s + strlen(m, s) - 1)

FirstIn(m, from, S) == Min({i \in from..Len(m) : m[i] \in S})
FirstNotIn(m, from, S) == Min({i \in from..Len(m) : m[i] \notin S})

\* Mutant: the place is the delimiter, which the token ends with.
TokenAt_here(m, i, D) ==
    LET e == FirstIn(m, i + 1, D \cup {0})
    IN  [tok |-> i, p |-> IF m[e] = 0 THEN Nil ELSE e, mem |-> [m EXCEPT ![e] = 0]]

\* The token that begins at i, up to a delimiter or the end of the string.
TokenAt(m, i, D) ==
    LET e == FirstIn(m, i + 1, D \cup {0})
    IN  [tok |-> i, p |-> IF m[e] = 0 THEN Nil ELSE e + 1, mem |-> [m EXCEPT ![e] = 0]]

TokenFrom(m, i, D) == IF m[i] = 0 THEN [tok |-> Nil, p |-> Nil, mem |-> m] ELSE TokenAt(m, i, D)

\* s or, if that is null, the place p the last call left.
_strtok_r(m, s, d, p, skip) ==
    IF d = Nil \/ (s = Nil /\ p = Nil) THEN [tok |-> Nil, p |-> p, mem |-> m]
    ELSE LET from == IF s = Nil THEN p ELSE s
             D == ToSet(Bytes(m, d))
         IN  IF skip THEN TokenFrom(m, FirstNotIn(m, from, D), D)
             ELSE IF m[from] \in D THEN [tok |-> from, p |-> from + 1, mem |-> [m EXCEPT ![from] = 0]]
             ELSE TokenFrom(m, from, D)

strtok_r(m, s, d, p) == _strtok_r(m, s, d, p, TRUE)

strsep(m, d, p) == _strtok_r(m, p, d, p, FALSE)

(***************************************************************************)
(* Calls: the functions with arguments that C allows.                      *)
(***************************************************************************)
Called(f, args, m, after, r) ==
    text' = [NoText EXCEPT !.fn = f, !.args = args, !.was = m, !.mem = after, !.ret = r]

Wrote(f, args, m, after) == Called(f, args, m, after, Nil)
Told(f, args, m, r) == Called(f, args, m, m, r)

Fit(m, a, n) == a + n - 1 <= Len(m)
Apart(a, la, b, lb) == a + la <= b \/ b + lb <= a

FillMemory ==
    \E m \in Memories : \E d \in 0..Len(m), c \in {0, 1}, n \in 0..Len(m) :
        /\ Fit(m, d, n)
        /\ \/ Wrote("memset", <<d, c, n>>, m, memset(m, d, c, n))
           \/ Wrote("kmemset", <<d, c, n>>, m, kmemset(m, d, c, n))
           \/ c = 0 /\ Wrote("memzero", <<d, c, n>>, m, memzero(m, d, n))

CopyMemory ==
    \E m \in Memories : \E d, s \in 0..Len(m), n \in 0..Len(m) :
        /\ Fit(m, d, n) /\ Fit(m, s, n)
        /\ Apart(d, n, s, n) \/ Nil \in {d, s}
        /\ \/ Wrote("memcpy", <<d, s, n>>, m, memcpy(m, d, s, n))
           \/ Wrote("kmemcpy", <<d, s, n>>, m, kmemcpy(m, d, s, n))

CopyString ==
    \E m \in Memories : \E d, s \in 0..Len(m), n \in 0..Len(m) :
        LET len == strlen(m, s) + 1
        IN  /\ Fit(m, d, len)
            /\ Apart(d, len, s, len) \/ Nil \in {d, s}
            /\ \/ n = 0 /\ Wrote("strcpy", <<d, s>>, m, strcpy(m, d, s))
               \/ n = 0 /\ Nil \notin {d, s} /\ Wrote("kstrcpy", <<d, s>>, m, kstrcpy(m, d, s))
               \/ Wrote("strncpy", <<d, s, n>>, m, strncpy(m, d, s, n))

DuplicateString ==
    \E m \in Memories : \E s \in DOMAIN m :
        Called("strdup", <<s>>, m, strdup(m, s), Len(m) + 1)

AppendString ==
    \E m \in Memories : \E d, s \in DOMAIN m, n \in 0..Len(m) :
        LET ld == strlen(m, d)
            ls == strlen(m, s)
        IN  /\ Fit(m, d, ld + ls + 1)
            /\ Apart(d, ld + ls + 1, s, ls + 1)
            /\ \/ n = 0 /\ Wrote("strcat", <<d, s>>, m, strcat(m, d, s))
               \/ Wrote("strncat", <<d, s, n>>, m, strncat(m, d, s, n))

CompareMemory ==
    \E m \in Memories : \E a, b \in 0..Len(m), n \in 0..Len(m) :
        /\ Fit(m, a, n) /\ Fit(m, b, n)
        /\ Told("memcmp", <<a, b, n>>, m, memcmp(m, a, b, n))

CompareStrings ==
    \E m \in Memories : \E a, b \in DOMAIN m, n \in 0..Len(m) :
        \/ n = 0 /\ Told("strcmp", <<a, b>>, m, strcmp(m, a, b))
        \/ n > 0 /\ Told("strncmp", <<a, b, n>>, m, strncmp(m, a, b, n))
        \/ Told("kmemcmp", <<a, b, n>>, m, kmemcmp(m, a, b, n))
        \/ n = 0 /\ Told("kstrcmp", <<a, b>>, m, kstrcmp(m, a, b))

Search ==
    \E m \in Memories : \E s \in 0..Len(m), x \in DOMAIN m :
        \/ x = 1 /\ Told("strlen", <<s>>, m, strlen(m, s))
        \/ x = 1 /\ s # Nil /\ Told("kstrlen", <<s>>, m, kstrlen(m, s))
        \/ /\ Fit(m, s, x)
           /\ \E c \in 0..2 : Told("memchr", <<s, c, x>>, m, memchr(m, s, c, x))
        \/ Told("strstr", <<s, x>>, m, strstr(m, s, x))

\* A string is divided with the delimiters at d, one call after the other.
Tokenize(f, m, s, d, r) ==
    text' = [fn |-> f, args |-> <<s, d>>, was |-> m, mem |-> r.mem, ret |-> r.tok, p |-> r.p,
             toks |-> text.toks \o (IF r.tok = Nil THEN <<>> ELSE <<r.tok>>)]

FirstToken ==
    \E m \in Memories : \E s \in DOMAIN m, d \in DOMAIN m :
        /\ Apart(s, strlen(m, s) + 1, d, strlen(m, d) + 1)
        /\ \/ Tokenize("strtok_r", m, s, d, strtok_r(m, s, d, Nil))
           \/ Tokenize("strsep", m, s, d, strsep(m, d, s))

NextToken ==
    /\ text.ret # Nil
    /\ \/ /\ text.fn = "strtok_r"
          /\ Tokenize("strtok_r", text.was, text.args[1], text.args[2],
                      strtok_r(text.mem, Nil, text.args[2], text.p))
       \/ /\ text.fn = "strsep"
          /\ Tokenize("strsep", text.was, text.args[1], text.args[2],
                      strsep(text.mem, text.args[2], text.p))

StringsNext ==
    \/ /\ text = NoText
       /\ FillMemory \/ CopyMemory \/ CopyString \/ DuplicateString \/ AppendString
          \/ CompareMemory \/ CompareStrings \/ Search \/ FirstToken
    \/ NextToken

(***************************************************************************)
(* Correctness                                                             *)
(***************************************************************************)

\* Memory after the call is memory before it with these bytes from d on.
Holding(d, bytes) ==
    text.mem = [i \in DOMAIN text.was |->
        IF i \in d..d + Len(bytes) - 1 THEN bytes[i - d + 1] ELSE text.was[i]]

AtMost(n, bytes) == SubSeq(bytes, 1, Min({n, Len(bytes)}))

\* A copy writes exactly the bytes it should, whatever part of them is moved
\* in words, and null pointers and a length of 0 write nothing (memcpy, memset,
\* strcpy and their kin).
CopiesRight ==
    LET a == text.args
        w == text.was
        str(s) == Append(Bytes(w, s), 0)
    IN  /\ text.fn \in {"memset", "kmemset", "memzero"} =>
            Holding(a[1], IF a[1] = Nil THEN <<>> ELSE [i \in 1..a[3] |-> a[2]])
        /\ text.fn \in {"memcpy", "kmemcpy"} =>
            Holding(a[1], IF Nil \in {a[1], a[2]} THEN <<>> ELSE SubSeq(w, a[2], a[2] + a[3] - 1))
        /\ text.fn \in {"strcpy", "kstrcpy"} =>
            Holding(a[1], IF Nil \in {a[1], a[2]} THEN <<>> ELSE str(a[2]))
        /\ text.fn = "strncpy" =>
            Holding(a[1], IF Nil \in {a[1], a[2]} THEN <<>> ELSE AtMost(a[3], str(a[2])))
        /\ text.fn = "strdup" => text.mem = w \o str(a[1])
        /\ text.fn = "strcat" => Holding(a[1], Bytes(w, a[1]) \o str(a[2]))
        /\ text.fn = "strncat" => Holding(a[1], Bytes(w, a[1]) \o AtMost(a[3], str(a[2])))

\* A comparison says equal for equal bytes, strings or beginnings of strings
\* and for no others.  What kstrcmp says of a string and its beginning is not
\* specified: it only tells strings apart that differ before either ends.
ComparesRight ==
    LET a == text.args
        w == text.was
        equal == text.ret = 0
    IN  /\ text.fn = "memcmp" =>
            (equal <=> a[1] = a[2] \/ a[3] = 0 \/
                (Nil \notin {a[1], a[2]} /\ SubSeq(w, a[1], a[1] + a[3] - 1) = SubSeq(w, a[2], a[2] + a[3] - 1)))
        /\ text.fn = "strcmp" => (equal <=> Bytes(w, a[1]) = Bytes(w, a[2]))
        /\ text.fn \in {"strncmp", "kmemcmp"} =>
            (equal <=> AtMost(a[3], Bytes(w, a[1])) = AtMost(a[3], Bytes(w, a[2])))
        /\ text.fn = "kstrcmp" =>
            LET x == Bytes(w, a[1])
                y == Bytes(w, a[2])
            IN  /\ x = y => equal
                /\ equal => IsPrefix(x, y) \/ IsPrefix(y, x)

\* A search finds the first place there is, and nothing else.  Not specified
\* is whether strstr finds a needle that is nowhere but at the end of the
\* haystack: string.h says that it does, memmem stops one place too early.
SearchesRight ==
    LET a == text.args
        w == text.was
        first(S) == text.ret = IF S = {} THEN Nil ELSE Min(S)
    IN  /\ text.fn \in {"strlen", "kstrlen"} =>
            text.ret = IF a[1] = Nil THEN 0 ELSE Min({i \in a[1]..Len(w) : w[i] = 0}) - a[1]
        /\ text.fn = "memchr" =>
            first(IF a[1] = Nil THEN {} ELSE {i \in a[1]..a[1] + a[3] - 1 : w[i] = a[2]})
        /\ text.fn = "strstr" =>
            LET h == Bytes(w, a[1])
                n == Bytes(w, a[2])
                there == IF a[1] = Nil \/ n = <<>> THEN {}
                         ELSE {k \in 0..Len(h) - Len(n) : SubSeq(h, k + 1, k + Len(n)) = n}
            IN  \/ first({a[1] + k : k \in there})
                \/ text.ret = Nil /\ there = {Len(h) - Len(n)}

\* The parts of a string between the bytes of D.
Parts(str, D) ==
    LET cuts == SelectSeq([i \in 1..Len(str) + 2 |-> i - 1],
                          LAMBDA i : i \in {0, Len(str) + 1} \/ str[i] \in D)
    IN  [k \in 1..Len(cuts) - 1 |-> SubSeq(str, cuts[k] + 1, cuts[k + 1] - 1)]

\* Call by call the tokenizer gives the parts of the string in their order:
\* strtok_r those that are not empty, strsep all but an empty last one.  The
\* tokens given out stay what they were, and bytes outside of the string too.
TokensRight ==
    text.fn \in {"strtok_r", "strsep"} =>
        LET s == text.args[1]
            str == Bytes(text.was, s)
            parts == Parts(str, ToSet(Bytes(text.was, text.args[2])))
            due == IF text.fn = "strtok_r" THEN SelectSeq(parts, LAMBDA x : x # <<>>)
                   ELSE IF Last(parts) = <<>> THEN Front(parts) ELSE parts
            got == [k \in DOMAIN text.toks |-> Bytes(text.mem, text.toks[k])]
        IN  /\ got = SubSeq(due, 1, Len(got))
            /\ text.ret = Nil => got = due
            /\ \A i \in DOMAIN text.was :
                text.mem[i] # text.was[i] => i \in s..s + Len(str) - 1 /\ text.mem[i] = 0
=============================================================================
