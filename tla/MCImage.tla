------------------------------- MODULE MCImage -------------------------------
(***************************************************************************)
(* Small images: sectors of 4 units, of which an inode can hold 3, and     *)
(* sector directories inlined up to 2 entries, so that files of 1 to 4     *)
(* sectors are stored in every way there is.  The initrd has the files     *)
(* that the core starts tasks from, with a driver of each way to ask for   *)
(* an interrupt; one host directory lacks a library, two lack an           *)
(* executable, one makes the text of FS too big, and two are no initrd and *)
(* have a sparse file and directories that are nested too deep, one of     *)
(* them also a file that is too big.                                       *)
(***************************************************************************)
EXTENDS Image

MCOrder == <<"a", "b", "c", "d", "driver", "drv", "fb.so", "fs", "fsz.so", "hl", "init", "lib",
             "libc.so", "link", "m.so", "ps2.so", "sparse", "sys", "ui", "uix">>
MCLonger == {<<"ui", "uix">>, <<"fs", "fsz.so">>, <<"lib", "libc.so">>}
MCReaddirs == {MCOrder, Reverse(MCOrder),
               <<"uix", "ui", "fs", "sys", "m.so", "lib", "libc.so", "driver", "fsz.so", "drv", "init", "fb.so",
                 "ps2.so", "link", "d", "c", "sparse", "b", "a", "hl">>,
               <<"lib", "init", "uix", "sys", "libc.so", "m.so", "drv", "ps2.so", "fb.so", "fsz.so", "ui", "fs",
                 "driver", "sparse", "link", "a", "b", "c", "d", "hl">>}

libc == <<"sys", "lib", "libc.so">>
m == <<"sys", "lib", "m.so">>
Sym(n, v, k) == [name |-> n, value |-> v, kind |-> k]
Rel(at, s) == [at |-> at, sym |-> s]
MCElfs ==
    <<[text |-> 1, needed |-> <<libc>>, entry |-> 2, data |-> <<Rel(4, "")>>, plt |-> <<Rel(5, "puts")>>,
       syms |-> <<Sym("", 0, "func"), Sym("puts", 0, "func"), Sym("main", 3, "func")>>],
      [text |-> 1, needed |-> <<libc, m>>, entry |-> 2, data |-> <<Rel(8, ""), Rel(4, "malloc")>>,
       plt |-> <<Rel(5, "puts"), Rel(6, "sin"), Rel(7, "read")>>,
       syms |-> <<Sym("main", 2, "func"), Sym("sin", 0, "func"), Sym("_initrd_ptr", 9, "obj")>>],
      [text |-> 1, needed |-> <<m, libc>>, entry |-> 3, data |-> <<>>, plt |-> <<Rel(4, "puts")>>,
       syms |-> <<Sym("main", 3, "func"), Sym("_screen_ptr", 5, "obj")>>],
      [text |-> 2, needed |-> <<libc>>, entry |-> 5, data |-> <<Rel(8, "")>>, plt |-> <<Rel(9, "puts")>>,
       syms |-> <<Sym("main", 5, "func")>>],
      [text |-> 1, needed |-> <<>>, entry |-> 3, data |-> <<Rel(4, ""), Rel(5, "malloc")>>, plt |-> <<>>,
       syms |-> <<Sym("puts", 2, "func"), Sym("malloc", 3, "func"), Sym("_environment", 6, "obj")>>],
      [text |-> 1, needed |-> <<libc>>, entry |-> 2, data |-> <<>>, plt |-> <<Rel(5, "malloc")>>,
       syms |-> <<Sym("malloc", 0, "func"), Sym("sin", 2, "func"), Sym("puts", 3, "func"), Sym("irqtab", 4, "irqother")>>],
      [text |-> 1, needed |-> <<libc>>, entry |-> 2, data |-> <<>>, plt |-> <<>>,
       syms |-> <<Sym("irq1", 2, "irq"), Sym("irq", 3, "autoirq")>>],
      [text |-> 1, needed |-> <<m>>, entry |-> 2, data |-> <<>>, plt |-> <<>>,
       syms |-> <<Sym("irq1", 2, "irq"), Sym("irq9", 3, "irq"), Sym("irqnum", 4, "irqnum"), Sym("_screen_ptr", 5, "obj"),
                  Sym("_osver", 6, "obj")>>],
      [text |-> 1, needed |-> <<>>, entry |-> 2, data |-> <<>>, plt |-> <<>>,
       syms |-> <<Sym("read", 2, "func")>>]>>
MCIrqOf == [n \in {"irq1", "irq9"} |-> IF n = "irq1" THEN 1 ELSE 9]
MCExports == [n \in {"_initrd_ptr", "_screen_ptr", "_osver"} |->
                 CASE n = "_initrd_ptr" -> 501 [] n = "_screen_ptr" -> 502 [] OTHER -> 503]

Dir(p) == [path |-> p, t |-> "dir"]
File(p, ext, data) == [path |-> p, t |-> "reg", ext |-> ext, data |-> data, elf |-> data # <<>> /\ data[1] < 0,
                       ascii |-> \A i \in DOMAIN data : data[i] > 6]
ElfFile(p, ext, id, n) == File(p, ext, [i \in 1..n |-> IF i = 1 THEN - id ELSE IF i = 5 THEN 2 ELSE 20 + i])
Initrd ==
    {Dir(<<"sys">>), Dir(<<"sys", "lib">>), Dir(<<"sys", "drv">>),
     ElfFile(<<"sys", "driver">>, "", 1, 7), ElfFile(<<"sys", "fs">>, "", 2, 10),
     ElfFile(<<"sys", "ui">>, "", 3, 6), ElfFile(<<"sys", "init">>, "", 4, 10),
     File(<<"sys", "uix">>, "txt", <<8, 9>>),
     ElfFile(libc, "so", 5, 7), ElfFile(m, "so", 6, 6),
     ElfFile(<<"sys", "drv", "ps2.so">>, "so", 7, 4), ElfFile(<<"sys", "drv", "fb.so">>, "so", 8, 7),
     ElfFile(<<"sys", "drv", "fsz.so">>, "so", 9, 5),
     [path |-> <<"link">>, t |-> "lnk", to |-> <<"sys", "fs">>]}
Usr ==
    {Dir(<<"a">>), Dir(<<"a", "b">>), Dir(<<"a", "b", "c">>), File(<<"a", "b", "c", "d">>, "c", <<1>>),
     File(<<"sparse">>, "", <<1, 2, 3, 4, 5, 6, 7, 8, 0, 0, 0, 0, 0>>),
     File(<<"a", "ui">>, "png", <<>>), File(<<"a", "uix">>, "html", <<9, 9, 9, 9>>),
     File(<<"a", "fs">>, "", <<1, 2, 3, 4, 5, 0, 0, 0, 0>>),
     [path |-> <<"a", "b", "link">>, t |-> "lnk", to |-> <<"a">>]}
Drv(c, f) == [star |-> TRUE, class |-> c, path |-> <<f>>]
MCDrvs == <<Drv("input", "ps2.so"), Drv("fs", "fsz.so"), [Drv("input", "m.so") EXCEPT !.star = FALSE],
            Drv("display", "fb.so"), Drv("inet", "fsz.so")>>
Without(p) == {f \in Initrd : f.path # p}
MCHosts ==
    {[files |-> F, drvs |-> MCDrvs, initrd |-> TRUE] : F \in {Initrd, Without(m), Without(<<"sys", "driver">>)}}
    \cup {[files |-> Without(<<"sys", "init">>), drvs |-> Reverse(MCDrvs), initrd |-> TRUE],
          [files |-> Initrd, drvs |-> <<Drv("fs", "fsz.so"), Drv("fs", "fb.so")>>, initrd |-> TRUE]}
    \cup {[files |-> F, drvs |-> <<>>, initrd |-> FALSE] :
              F \in {Usr, Usr \cup {File(<<"hl">>, "", [i \in 1..17 |-> i])}}}

Cmd(c, p, to) == [cmd |-> c, path |-> p, to |-> to]
MCCommands == {Cmd("union", <<"lib">>, <<"sys", "lib">>), Cmd("link", <<"hl">>, <<"sys", "uix">>),
               Cmd("symlink", <<"b">>, <<"sys">>), Cmd("mime", <<"sys", "uix">>, <<"text", "html">>),
               Cmd("mime", <<"sys">>, <<"text", "html">>)}
MCDisks ==
    {[sz |-> [esp |-> e, sys1 |-> s, sys2 |-> u, usr1 |-> 1024, usr2 |-> w, var |-> 512, home |-> h, swap |-> swapsize],
      s2 |-> [esp |-> x, sys1 |-> y], stage1 |-> b] :
        e \in {0, 1536}, s \in {0, 1024}, u \in {0, 512}, w \in {0, 512}, h \in {0, 1024}, x \in {-1, 512}, y \in {-1, 0},
        b \in BOOLEAN}
=============================================================================
