--------------------------- MODULE MCFlashFSMount ---------------------------
(* TLC instance of FlashFSMount: one entry per root block, so that the      *)
(* directory of two files is a chain of two blocks.                         *)
EXTENDS FlashFSMount

CONSTANTS n1, n2, n3, c1, c2

MCContents  == {<<>>, <<c2, c1>>}
MCStarts    == {1}
MCNames     == {n1, n2, n3}
\* n2 and n3 agree on their first 22 bytes.
Truncated   == [n \in MCNames |-> IF n = n3 THEN n2 ELSE n]
MCPayloads  == {{4}}
MCStaged    == {<<[name |-> n1, data |-> <<c2, c1>>, deleted |-> FALSE]>>}
=============================================================================
