------------------------------ MODULE MCMobile ------------------------------
(* TLC instance of Mobile: two slots, three blocks of four pages to write    *)
(* to, blobs of the data folder of up to five pages, one more than a block,  *)
(* and one of 13 pages, whose size in 16 bits is that of one page.           *)
EXTENDS Mobile, TLC

CONSTANTS pg1, pg2, part, filled

\* part is a page that is not full; filled is the same, filled up with zeros.
MCPageData == {pg1, pg2, part, filled}
MCPadded   == (pg1 :> pg1 @@ pg2 :> pg2 @@ part :> filled @@ filled :> filled)
MCSlots    == 1..2
Both       == {"Sb", "Bb"}
MCPages    == [l \in Both |-> IF l = "Bb" THEN 4 ELSE 3]
MCVersions == {<<pg1>>, <<pg2, part>>}
MCBlobs    == {<<>>, <<part>>, <<pg1, pg2>>, <<pg2, pg1, part>>, <<pg1, pg2, pg1, pg2>>,
               <<pg1, pg1, pg2, pg2, part>>}
MCLong     == <<pg1, pg2, pg1, pg2, pg1, pg2, pg1, pg2, pg1, pg2, pg1, pg2, pg1>>
MCFolders  == [MCSlots -> MCBlobs \cup {MCLong}]
\* All blocks free; one left; files around a gap; none left.
MCMaps     ==
    {[x \in Blocks |-> IF x \in S THEN Free ELSE IF x < FirstUsable \/ x >= ReserveStart
                                                THEN Reserved ELSE End] :
        S \in {{2, 3, 4}, {4}, {2, 4}, {}}}
=============================================================================
