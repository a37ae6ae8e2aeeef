------------------------------ MODULE BadBlocks ------------------------------
(***************************************************************************)
(* Parsing a dump with bad blocks (ParseImage on a small-block image): the *)
(* blocks the console moved to the bad-block reserve are found by the      *)
(* logical block number in their spare area and copied back, the spare is  *)
(* stripped, and the FlashFS root is looked for.                           *)
(*                                                                         *)
(* The console that wrote the dump is external: it stores data, writes a   *)
(* new root with the next sequence number, and when a block fails copies   *)
(* what it held to the highest unused reserve block (the order in which    *)
(* the source searches the reserve).                                       *)
(*                                                                         *)
(* A spare area is written in one of two formats, which put the block      *)
(* number and the sequence number into the same bytes in another order.    *)
(* detect() answers Sb for both; promote_layout is to tell them apart.     *)
(***************************************************************************)
EXTENDS Integers, FiniteSetsExt, Sequences

CONSTANTS
    N,              \* physical blocks
    ReserveStart,   \* first block of the reserve
    Span,           \* blocks of the reserve that are searched (0x20)
    Byte,           \* values of a byte of the spare area (256)
    Nibble,         \* values of the four bits the block number has of its second byte (16)
    Data,           \* what the console stores in a block
    Garbage,        \* what a dead block reads as
    Erased,         \* what an erased block reads as
    Fresh,          \* what the console's blocks hold at first
    RootBlocks,     \* the blocks the console puts its roots on, in turn
    FileBlocks,     \* the blocks that hold files
    Formats,        \* formats of the spare area: "MetaType0" (Xsb), "MetaType1" (Sb)
    MaxSequence,    \* bound: last sequence number of a root
    MaxFailures     \* bound: blocks that fail

Blocks  == 0..(N - 1)
Logical == 0..(ReserveStart - 1)
NoBlock == N

ASSUME BadBlocksAssumption ==
    /\ N \in Nat /\ ReserveStart \in 1..N
    /\ Span \in Nat
    /\ Byte \in Nat \ {0, 1} /\ Nibble \in 2..Byte /\ Byte % Nibble = 0
    /\ N <= Byte * Nibble
    /\ Fresh \in Data /\ Garbage \notin Data /\ Erased \notin Data
    /\ RootBlocks \in Seq(Logical \ {0}) /\ RootBlocks # <<>>   \* block 0 is the header
    /\ FileBlocks \subseteq Logical
    /\ \A i \in DOMAIN RootBlocks : RootBlocks[i] \notin FileBlocks
    /\ Formats \subseteq {"MetaType0", "MetaType1"}
    /\ MaxSequence \in 1..(Byte - 1) /\ MaxFailures \in Nat

VARIABLES
    format,     \* format of the dump's spare areas
    dump,       \* the physical blocks
    where,      \* console: physical block of each logical one
    stored,     \* history: what the console last stored in each logical block
    sequence,   \* history: sequence number of the newest root
    lost,       \* history: blocks that failed without a copy
    failures,   \* history: how many blocks have failed
    stage,      \* "console", "healing", "clean" or "scanned"
    remap,      \* ~noremap
    bad,        \* bad blocks still to be healed, the lowest first
    target,     \* resolve_remapped_blocks: reserve block of each bad one
    working,    \* the image that is healed
    root,       \* root block the scan found
    files       \* data of the file blocks as FlashFS read them

console == <<format, dump, where, stored, sequence, lost, failures>>
parser  == <<remap, bad, target, working, root, files>>
vars    == <<console, stage, parser>>

-----------------------------------------------------------------------------
(* Spare areas. *)

Block(id, s, isRoot, d) == [id |-> id, sequence |-> s, root |-> isRoot, data |-> d, good |-> TRUE]

\* All bits of a spare area set, or none; the latter reads as a bad block.
ErasedBlock == Block(Byte * Byte - 1, Byte * Byte - 1, FALSE, Erased)
DeadBlock   == [Block(0, 0, FALSE, Garbage) EXCEPT !.good = FALSE]

\* The bytes that hold the block number and two of the sequence number's (the
\* third is at the same place in both formats).
Bytes(b) ==
    LET id == <<b.id % Byte, b.id \div Byte>>
        s  == <<b.sequence % Byte, b.sequence \div Byte>>
    IN  IF format = "MetaType0" THEN <<id[1], id[2], s[1], s[2]>> ELSE <<s[1], id[1], id[2], s[2]>>

\* The first byte of page 0 decides.  It is a page of block 0: the low byte of
\* its number in the one format, of its sequence number in the other.
promote_layout == IF dump[0].good /\ Bytes(dump[0])[1] # 0 THEN "Xsb" ELSE "Sb"

\* FsSpareData::parse
ParsedId(b, layout) ==
    IF layout = "Xsb" THEN Bytes(b)[1] + Byte * (Bytes(b)[2] % Nibble)
                      ELSE Bytes(b)[2] + Byte * (Bytes(b)[3] % Nibble)
ParsedSequence(b, layout) ==
    IF layout = "Xsb" THEN Bytes(b)[3] + Byte * Bytes(b)[4] ELSE Bytes(b)[1] + Byte * Bytes(b)[4]

-----------------------------------------------------------------------------
(* The console. *)

Stores(l, b) ==
    /\ stage = "console"
    /\ dump[where[l]].good
    /\ dump' = [dump EXCEPT ![where[l]] = b]
    /\ stored' = [stored EXCEPT ![l] = b]
    /\ UNCHANGED <<format, where, lost, failures, stage, parser>>

StoreFile(l, d) ==
    /\ Stores(l, Block(l, 0, FALSE, d))
    /\ UNCHANGED sequence

\* Roots are written to their blocks in turn; older ones stay behind.
StoreRoot ==
    LET l == RootBlocks[(sequence % Len(RootBlocks)) + 1]
    IN  /\ sequence < MaxSequence
        /\ sequence' = sequence + 1
        /\ Stores(l, Block(l, sequence + 1, TRUE, Fresh))

Unused == {r \in ReserveStart..(N - 1) : dump[r] = ErasedBlock}

\* The block where l is kept goes bad - marked, or dead - and what it held is
\* copied to the reserve; without a copy it is lost.
FailBlock(l, dead, copied) ==
    LET p == where[l]
    IN  /\ stage = "console"
        /\ failures < MaxFailures
        /\ dump[p].good
        /\ failures' = failures + 1
        /\ LET failed == IF dead THEN DeadBlock ELSE [dump[p] EXCEPT !.good = FALSE]
           IN  \/ /\ copied /\ Unused # {}
                  /\ dump' = [dump EXCEPT ![p] = failed, ![Max(Unused)] = dump[p]]
                  /\ where' = [where EXCEPT ![l] = Max(Unused)]
                  /\ UNCHANGED lost
               \/ /\ ~copied
                  /\ dump' = [dump EXCEPT ![p] = failed]
                  /\ lost' = lost \cup {l}
                  /\ UNCHANGED where
        /\ UNCHANGED <<format, stored, sequence, stage, parser>>

-----------------------------------------------------------------------------
(* preprocess_nand_with_lba_options. *)

\* is_bad_block on a small-block layout: a marker on any page, or a spare area
\* of zeros.
is_bad_block(b) == ~dump[b].good

\* A slip: every block is searched, not only the reserve.
WindowAll == Blocks

\* The blocks searched for copies.
Window == {r \in Blocks : r \in ReserveStart..(ReserveStart + Span - 1)}

Copies(b) == {r \in Window : ParsedId(dump[r], "Sb") = b}

\* BlockMap::new, and resolve_remapped_blocks from the top of the reserve down.
\* Neither asks promote_layout.
Detect ==
    /\ stage = "console"
    /\ remap' \in BOOLEAN
    /\ bad' = {b \in Blocks : is_bad_block(b)}
    /\ target' = [b \in Blocks |-> IF is_bad_block(b) /\ Copies(b) # {} THEN Max(Copies(b))
                                                                   ELSE NoBlock]
    /\ working' = dump
    /\ stage' = IF remap' THEN "healing" ELSE "clean"
    /\ UNCHANGED <<console, root, files>>

\* A slip: the copy goes the other way.
HealedBackwards(b, r) == [working EXCEPT ![r] = working[b], ![b] = ErasedBlock]

Healed(b, r) == [working EXCEPT ![b] = working[r], ![r] = ErasedBlock]

\* map_and_heal, one bad block; one without a copy is left as it is.
HealNext ==
    /\ stage = "healing"
    /\ UNCHANGED <<console, remap, target, root, files>>
    /\ \/ /\ bad = {}
          /\ stage' = "clean"
          /\ UNCHANGED <<bad, working>>
       \/ /\ bad # {}
          /\ bad' = bad \ {Min(bad)}
          /\ working' = IF target[Min(bad)] = NoBlock THEN working
                        ELSE Healed(Min(bad), target[Min(bad)])
          /\ UNCHANGED stage

-----------------------------------------------------------------------------
(* FlashFS::scan_physical_with_lba, which is given the dump as it was read. *)

\* A slip: blocks of the bad-block list are looked at as well.
RootsAndBad == {b \in Blocks : dump[b].root}

Roots == {b \in Blocks : dump[b].root /\ ~is_bad_block(b)}

\* The first block with the highest sequence number.
Newest(S) ==
    LET s(b) == ParsedSequence(dump[b], promote_layout)
    IN  Min({b \in S : \A c \in S : s(c) <= s(b)})

Scan ==
    /\ stage = "clean"
    /\ root' = IF Roots = {} THEN NoBlock ELSE Newest(Roots)
    /\ files' = [l \in FileBlocks |-> dump[l].data]
    /\ stage' = "scanned"
    /\ UNCHANGED <<console, remap, bad, target, working>>

-----------------------------------------------------------------------------

Init ==
    /\ format \in Formats
    /\ stored = [l \in Logical |-> IF l = RootBlocks[1] THEN Block(l, 1, TRUE, Fresh)
                                  ELSE Block(l, 0, FALSE, Fresh)]
    /\ dump = [b \in Blocks |-> IF b \in Logical THEN stored[b] ELSE ErasedBlock]
    /\ where = [l \in Logical |-> l]
    /\ sequence = 1
    /\ lost = {}
    /\ failures = 0
    /\ stage = "console"
    /\ remap = FALSE
    /\ bad = {}
    /\ target = [b \in Blocks |-> NoBlock]
    /\ working = dump
    /\ root = NoBlock
    /\ files = [l \in FileBlocks |-> Erased]

Console ==
    \/ \E l \in FileBlocks, d \in Data : StoreFile(l, d)
    \/ StoreRoot
    \/ \E l \in Logical, dead, copied \in BOOLEAN : FailBlock(l, dead, copied)

Next == Console \/ Detect \/ HealNext \/ Scan

Spec == Init /\ [][Next]_vars

-----------------------------------------------------------------------------
(* Properties. *)

PhysicalBlock == [id : 0..(Byte * Byte - 1), sequence : Nat, root : BOOLEAN,
                  data : Data \cup {Garbage, Erased}, good : BOOLEAN]

\* Blocks keep their form, and a block is healed from the reserve or not at all.
TypeOK ==
    /\ format \in Formats
    /\ dump \in [Blocks -> PhysicalBlock] /\ working \in [Blocks -> PhysicalBlock]
    /\ where \in [Logical -> Blocks]
    /\ stored \in [Logical -> PhysicalBlock]
    /\ sequence \in 1..MaxSequence
    /\ lost \subseteq Logical
    /\ bad \subseteq Blocks
    /\ \A b \in Blocks : target[b] = NoBlock \/ target[b] \in ReserveStart..(N - 1)
    /\ root \in 0..N

Parsed == stage \in {"clean", "scanned"}

\* No reserve block has gone bad itself.
ReserveIntact == \A r \in ReserveStart..(N - 1) : dump[r].good

\* resolve_remapped_blocks looks at Span blocks; in an image of 0x1000 blocks the
\* reserve has more.
SearchedWhole == N <= ReserveStart + Span

\* With the small-block format and a good reserve that is searched to its end, the
\* clean image holds in every logical block what the console last stored there,
\* however many blocks have failed: what is moved to the reserve is found, copied to
\* the right place and nothing else is touched (resolve_remapped_blocks,
\* map_and_heal).
HealedIsCurrent ==
    Parsed /\ remap /\ ReserveIntact /\ SearchedWhole /\ format = "MetaType1" =>
        \A l \in Logical \ lost : working[l] = stored[l]

\* Whatever the format, a block below the reserve that is good, or whose
\* number no reserve block has, comes through as it is in the dump: in no order
\* of failures does healing one block damage another.
OthersKept ==
    Parsed =>
        \A l \in Logical :
            \/ is_bad_block(l) /\ \E r \in ReserveStart..(N - 1) : ParsedId(dump[r], "Sb") = l
            \/ working[l] = dump[l]

\* The scan comes to the newest root the console wrote, on a good block, unless
\* that root was lost: an older root, and the bad block a root was moved away
\* from, are passed over (scan_physical_with_lba).
RootIsNewest ==
    stage = "scanned" /\ RootBlocks[((sequence - 1) % Len(RootBlocks)) + 1] \notin lost =>
        root # NoBlock /\ dump[root].good /\ dump[root].sequence = sequence

\* The same for the small-block format alone.
SmallBlockRootIsNewest == format = "MetaType1" => RootIsNewest

\* The file system is read "with LBA map awareness": a file whose block was
\* moved to the reserve is read with the content the clean image has.
FilesHealed ==
    stage = "scanned" /\ remap => \A l \in FileBlocks : files[l] = working[l].data
=============================================================================
