----------------------------- MODULE MCBadBlocks -----------------------------
(* TLC instance of BadBlocks: five logical blocks - two for files, two for   *)
(* roots - and a reserve of three; bytes hold four values, so that a block   *)
(* number and a sequence number take two of them.                            *)
EXTENDS BadBlocks

CONSTANTS d1, d2

MCRootBlocks  == <<4, 2>>
MCFileBlocks  == {1, 3}
BothFormats   == {"MetaType0", "MetaType1"}
SmallFormat   == {"MetaType1"}
==============================================================================
