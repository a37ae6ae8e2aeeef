------------------------------ MODULE MCFlashFS ------------------------------
(* TLC instance of FlashFS: contents of zero to three blocks over two chunk *)
(* values, on an image with at most four allocatable blocks.                *)
EXTENDS FlashFS, TLC

CONSTANTS n1, n2, c1, c2

MCContents == {<<>>, <<c1>>, <<c2, c1, c2>>}
MCDiskName == (n1 :> n1 @@ n2 :> n2)
\* A root in front of the blocks for files, and none yet.
MCRoots    == {0, 2}
MCPayloads == {{}, {4}}

\* One or two entries, live or deleted, the two of one name as well.
MCStaged ==
    LET file == [name : Names, data : MCContents, deleted : BOOLEAN]
    IN  {<<f>> : f \in file} \cup {<<f, g>> : f, g \in file}
==============================================================================
