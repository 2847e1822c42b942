------------------------------- MODULE MCLibc -------------------------------
(***************************************************************************)
(* A slot of four pages of four bytes, chunks of four units; an            *)
(* application and a driver, with FS and UI.  One task calls FS: meminfo   *)
(* loses requests when more do, as LibcLost.cfg shows.                     *)
(***************************************************************************)
EXTENDS Libc

CONSTANTS app, drv, fs, ui, inet

OneOfFs == ({app} \X {fs} \X DOMAIN Stdio) \cup {<<app, ui, "data">>, <<app, ui, "none">>}
           \cup {<<drv, ui, "data">>, <<drv, inet, "plain">>}
TwoOfFs == {app, drv} \X {fs} \X {"fopen", "ftell"}
Ace(group, access) == [begins |-> {group}, access |-> access]
MCAcl == (app :> <<Ace(<<"chroot", fs>>, {"read"}), Ace(<<"mount", fs>>, {"read", "write"})>>)
         @@ (drv :> <<Ace(<<"no", inet>>, {})>>)
MCPrio == (app :> "APP") @@ (drv :> "DRV")
MCOwner == (app :> "user") @@ (drv :> "user")
MCMaxCalls == (app :> 2) @@ (drv :> 1)

\* Every array of up to four elements with three keys, of seven and eight
\* with two, and longer ones, with few and with many different keys.
MCArrays == UNION {[1..n -> 1..3] : n \in 0..4} \cup UNION {[1..n -> 1..2] : n \in 7..8}
            \cup {[i \in 1..n |-> (i * i * k + i) % m] : n \in {9, 13, 41}, k \in 0..3, m \in {2, 5, 23, 97}}

\* Words of four bytes; memory with strings of different lengths, of which
\* some are the beginning or the end of others, and with runs of delimiters.
MCMemories == {<<2, 1, 1, 2, 1, 0, 1, 2, 0>>, <<1, 2, 1, 2, 0, 2, 0, 1, 0>>, <<1, 0, 0, 0, 0, 0, 2, 1, 0>>}

MCMessages == {<<>>, <<1>>, <<2, NL>>, <<3, NL, 3, 3>>, <<4, 4, 4, NL, NL>>, <<NL>>}
=============================================================================
