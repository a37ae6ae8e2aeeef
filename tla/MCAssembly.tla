----------------------------- MODULE MCAssembly -----------------------------
(* TLC instance of Assembly: ten blocks, three of them boot chain and patch *)
(* slots, up to two files of up to two blocks, one mobile blob or none.     *)
EXTENDS Assembly

CONSTANTS n1, n2, x1, x2, c1, c2, o1, o2, b1

MCNames     == {n1, n2, x1, x2}
SameNames   == [n \in MCNames |-> n]
MCXexp      == <<x1, x2>>
MCContents  == {<<>>, <<c1>>, <<c2, c1>>}

File(n, d)  == [name |-> n, data |-> d, deleted |-> FALSE]
MCStaged    ==
    {<<>>} \cup {<<File(n1, d)>> : d \in MCContents}
           \cup {<<File(n1, d), File(n2, e)>> : d, e \in MCContents}

MCOverflows == {<<<<>>, <<>>>>, <<<<o1>>, <<>>>>, <<<<o1, o2>>, <<>>>>, <<<<o1>>, <<o2>>>>}
MCMobiles   == [1..1 -> {Zero, b1}]
MCStarts    == {5, 6}
MCPhys      == {0, 5, 9}

\* The boot chain, a slot in block 2 and a second one, kept for patches or a
\* CF1, in block 3; XeLL behind them; the payloads from where slot 1 ends.
MCBoot      == {0, 2, 3}
MCXell      == {4}
MCMinRoot   == <<3, 4>>
LowPayloads  == {{}, {3}, {3, 5}, {7}}

\* Staged and assembled at the same root.
OneRoot     == {4}
=============================================================================
