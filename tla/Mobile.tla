------------------------------- MODULE Mobile -------------------------------
(***************************************************************************)
(* Mobile blobs (MobileB .. MobileJ): runs of pages anywhere in a block,   *)
(* found by their spare areas alone.  scan_physical walks over a dump page *)
(* by page and keeps the newest blob of each slot; a build takes the blobs *)
(* of the data folder, gives each a block, and types its pages             *)
(* (collect_spare_meta, add_spare); the built image is scanned again.      *)
(*                                                                         *)
(* The console that wrote the dump is external: it appends versions of a   *)
(* blob behind one another, each with a higher sequence number, and may    *)
(* lose power between two pages.                                           *)
(*                                                                         *)
(* Lengths are in pages.  The page count is stored in one byte, counted    *)
(* down from Unit (0x20) or twice that; decode_pagecount tells the two     *)
(* apart by size.                                                          *)
(***************************************************************************)
EXTENDS BlockMap, Sequences

CONSTANTS
    Slots,          \* 1..9 in the source
    Layouts,        \* "Sb", "Bb"
    PagesPerBlock,  \* of each layout: 32 and 256 in the source
    Unit,           \* 0x20
    Byte,           \* values of a byte (256)
    SizePages,      \* pages from which the 16-bit size starts again at 0 (128)
    PageData,       \* what a page can hold
    Padded,         \* a page's data once it is filled up with zeros
    Erased, Blank,  \* an erased page, a zeroed one
    Versions,       \* blobs the console writes
    Folders,        \* blobs of the data folder, <<>> for a missing or an empty file
    Maps,           \* block maps a build may find after the files are placed
    MaxVersions     \* bound: versions the console writes

\* Unit is a small block (32 pages) and Byte a large one (256), and create_defaults
\* leaves nothing free in the reserve.
ASSUME MobileAssumption ==
    /\ Slots = 1..Cardinality(Slots) /\ IsFiniteSet(Slots)
    /\ Layouts \subseteq {"Sb", "Bb"}
    /\ PagesPerBlock \in [{"Sb", "Bb"} -> Nat \ {0}]
    /\ Unit \in Nat \ {0} /\ Byte \in Nat \ {0, 1} /\ SizePages \in Nat \ {0}
    /\ 2 * Unit <= SizePages /\ SizePages <= Byte
    /\ \A l \in Layouts : Unit <= PagesPerBlock[l] /\ PagesPerBlock[l] <= Byte
    /\ Padded \in [PageData -> PageData]
    /\ Erased \notin PageData
    /\ Blank \notin PageData
    /\ Versions \subseteq Seq(PageData) \ {<<>>}
    /\ Folders \subseteq [Slots -> Seq(PageData)]
    /\ Maps \subseteq [Blocks -> Words]
    /\ \A m \in Maps, b \in Blocks : b >= ReserveStart => m[b] # Free
    /\ MaxVersions \in Nat

NoBlob == [sequence |-> 0, start_page |-> 0, data |-> <<>>]

VARIABLES
    layout,
    stage,      \* "console", "scanning", "parsed", "writing", "spare", "rescanning", "done"
    image,      \* what each page holds
    spare,      \* the spare area of each page
    store,      \* MobileStore: the latest blob of each slot, NoBlob for none
    block_map,  \* FlashFS map of the image that is built
    at,         \* page scan_physical, or slot write_logical, is at
    whole,      \* history: blobs in the image of which every page was written
    sequence    \* history: last sequence number the console used

vars == <<layout, stage, image, spare, store, block_map, at, whole, sequence>>

\* The page block b starts with.
FirstPage(b) == b * PagesPerBlock[layout]

Pages == 0..(FirstPage(N) - 1)
BlockOf(p) == p \div PagesPerBlock[layout]

-----------------------------------------------------------------------------
(* Spare areas. *)

Minus(a, b) == IF a >= b THEN a - b ELSE 0

\* The page count byte of a blob of n pages.
Encoded(n) == Minus(IF layout = "Bb" THEN 2 * Unit ELSE Unit, n % Byte)

\* decode_pagecount; 0 when the byte stands for no count.
Decoded(c) ==
    IF c = 0 THEN 0
    ELSE IF c <= Unit THEN Unit - c
    ELSE IF c <= 2 * Unit THEN 2 * Unit - c
    ELSE 0

\* The first byte is the bad-block mark on big blocks, and the low byte of the
\* sequence number on small ones.
FirstByte(s) == IF layout = "Bb" THEN Byte - 1 ELSE s % Byte

\* type is the slot, or 0 for whatever is not a mobile type.
Spare(p, k, s, n) ==
    [first |-> FirstByte(s), block |-> BlockOf(p), type |-> k, sequence |-> s,
     size |-> n % SizePages, count |-> Encoded(n)]

ErasedSpare == [first |-> Byte - 1, block |-> N, type |-> 0, sequence |-> 0,
                size |-> 0, count |-> Byte - 1]

PlainSpare(p) == [ErasedSpare EXCEPT !.first = FirstByte(0), !.block = BlockOf(p)]

-----------------------------------------------------------------------------
(* The console. *)

\* Data d as a scan should give it back: padded to whole pages.
OnFlash(k, s, p, d) ==
    [slot |-> k, blob |-> [sequence |-> s, start_page |-> p,
                           data |-> [i \in 1..Len(d) |-> Padded[d[i]]]]]

\* Where n pages still fit behind what is written in block b.
Room(b, n) ==
    LET last  == FirstPage(b + 1)
        first == CHOOSE p \in Pages \cup {last} :
                    /\ p = last \/ BlockOf(p) = b
                    /\ \A q \in p..(last - 1) : image[q] = Erased
                    /\ p > FirstPage(b) => image[p - 1] # Erased
    IN  IF first + n <= last THEN {first} ELSE {}

\* A version of blob k; power fails after "done" of its pages.
ConsoleWrites(k, d, b, done) ==
    /\ stage = "console"
    /\ sequence < MaxVersions
    /\ sequence' = sequence + 1
    /\ \E p \in Room(b, Len(d)) :
          LET new == p..(p + done - 1)
          IN  /\ image' = [q \in Pages |-> IF q \in new THEN Padded[d[q - p + 1]] ELSE image[q]]
              /\ spare' = [q \in Pages |-> IF q \in new THEN Spare(q, k, sequence + 1, Len(d))
                                                        ELSE spare[q]]
              /\ whole' = IF done < Len(d) THEN whole ELSE whole \cup {OnFlash(k, sequence + 1, p, d)}
    /\ UNCHANGED <<layout, stage, store, block_map, at>>

-----------------------------------------------------------------------------
(* scan_physical. *)

BeginScan ==
    /\ \/ stage = "console" /\ stage' = "scanning"
       \/ stage = "spare" /\ stage' = "rescanning"
    /\ store' = [k \in Slots |-> NoBlob]
    /\ at' = 0
    /\ UNCHANGED <<layout, image, spare, block_map, whole, sequence>>

\* A page that may start a blob.
Starts(p) ==
    LET s == spare[p]
    IN  /\ s.first = Byte - 1
        /\ s.block = BlockOf(p)
        /\ s.count \in 1..(2 * Unit)
        /\ s.type \in Slots
        /\ s.size # 0
        /\ Decoded(s.count) = s.size
        /\ s.size <= PagesPerBlock[layout]
        /\ p + s.size - 1 \in Pages

\* A slip: the other pages are not looked at.
WholeUnchecked(p) == TRUE

\* All its pages say the same.
Whole(p) == \A q \in p..(p + spare[p].size - 1) : spare[q] = spare[p]

\* A slip: the first one found stays.
NewerNever(k, p) == store[k] = NoBlob

\* A blob goes over an older one, and over one of the same age before it.
Newer(k, p) ==
    \/ store[k] = NoBlob
    \/ store[k].sequence < spare[p].sequence
    \/ store[k].sequence = spare[p].sequence /\ store[k].start_page < p

ScanPage ==
    /\ stage \in {"scanning", "rescanning"}
    /\ at \in Pages
    /\ UNCHANGED <<layout, stage, image, spare, block_map, whole, sequence>>
    /\ LET s == spare[at]
       IN  \/ /\ ~(Starts(at) /\ Whole(at))
              /\ at' = at + 1
              /\ UNCHANGED store
           \/ /\ Starts(at) /\ Whole(at)
              /\ at' = at + s.size
              /\ store' = IF Newer(s.type, at)
                          THEN [store EXCEPT ![s.type] =
                                  [sequence |-> s.sequence, start_page |-> at,
                                   data |-> [i \in 1..s.size |-> image[at + i - 1]]]]
                          ELSE store

EndScan ==
    /\ at \notin Pages
    /\ \/ stage = "scanning" /\ stage' = "parsed"
       \/ stage = "rescanning" /\ stage' = "done"
    /\ UNCHANGED <<layout, image, spare, store, block_map, at, whole, sequence>>

-----------------------------------------------------------------------------
(* Building. *)

\* Build: a new store, filled from the data folder, and a new image.
Build ==
    /\ stage = "parsed"
    /\ stage' = "writing"
    /\ \E folder \in Folders :
          store' = [k \in Slots |-> IF folder[k] = <<>> THEN NoBlob
                                    ELSE [sequence |-> 1, start_page |-> 0, data |-> folder[k]]]
    /\ block_map' \in Maps
    /\ image' = [p \in Pages |-> Blank]
    /\ spare' = [p \in Pages |-> ErasedSpare]
    /\ whole' = {}
    /\ sequence' = 0
    /\ at' = 1
    /\ UNCHANGED layout

\* A slip: a protected block counts as free.
RoomProtected == {b \in Blocks : b >= FirstUsable /\ block_map[b] # End}

MapRoom == FreeFrom(block_map, 0)

\* write_logical, one slot: one block, zeroed, whatever the length; a blob
\* that runs over the end of the image keeps the block but is not written.
WriteSlot ==
    /\ stage = "writing"
    /\ at \in Slots
    /\ at' = at + 1
    /\ UNCHANGED <<layout, stage, spare, sequence>>
    /\ LET d == store[at].data
           b == Least(MapRoom)
           p == FirstPage(b)
           zeroed == [q \in Pages |-> IF BlockOf(q) = b THEN Blank ELSE image[q]]
       IN  \/ /\ d = <<>> \/ MapRoom = {}
              /\ UNCHANGED <<image, store, block_map, whole>>
           \/ /\ d # <<>> /\ MapRoom # {}
              /\ block_map' = [block_map EXCEPT ![b] = Reserved]
              /\ store' = [store EXCEPT ![at].start_page = p]
              /\ \/ /\ p + Len(d) - 1 \notin Pages
                    /\ image' = zeroed
                    /\ UNCHANGED whole
                 \/ /\ p + Len(d) - 1 \in Pages
                    /\ image' = [q \in Pages |-> IF q \in p..(p + Len(d) - 1)
                                                 THEN Padded[d[q - p + 1]] ELSE zeroed[q]]
                    /\ whole' = whole \cup {OnFlash(at, store[at].sequence, p, d)}

\* Slots whose blob is said to cover page p (collect_spare_meta).
Covers(p) ==
    {k \in Slots : /\ store[k].start_page # 0
                   /\ p \in store[k].start_page..(store[k].start_page + Len(store[k].data) - 1)}

\* A slip: of two slots the first one keeps a page.
OwnerFirst(p) == CHOOSE j \in Covers(p) : \A i \in Covers(p) : j <= i

\* Of two slots the later one takes the page.
Owner(p) == CHOOSE j \in Covers(p) : \A i \in Covers(p) : i <= j

\* add_spare; the reserve stays erased.
Finalize ==
    /\ stage = "writing"
    /\ at \notin Slots
    /\ stage' = "spare"
    /\ spare' = [p \in Pages |->
                    IF BlockOf(p) >= ReserveStart THEN ErasedSpare
                    ELSE IF Covers(p) = {} THEN PlainSpare(p)
                    ELSE LET k == Owner(p)
                         IN  Spare(p, k, store[k].sequence, Len(store[k].data))]
    /\ image' = [p \in Pages |-> IF BlockOf(p) >= ReserveStart THEN Erased ELSE image[p]]
    /\ UNCHANGED <<layout, store, block_map, at, whole, sequence>>

-----------------------------------------------------------------------------

Init ==
    /\ layout \in Layouts
    /\ stage = "console"
    /\ image = [p \in Pages |-> Erased]
    /\ spare = [p \in Pages |-> ErasedSpare]
    /\ store = [k \in Slots |-> NoBlob]
    /\ block_map = Unformatted
    /\ at = 0
    /\ whole = {}
    /\ sequence = 0

Next ==
    \/ \E k \in Slots, d \in Versions, b \in FirstUsable..(ReserveStart - 1) :
          \E done \in 1..Len(d) : ConsoleWrites(k, d, b, done)
    \/ BeginScan \/ ScanPage \/ EndScan
    \/ Build \/ WriteSlot \/ Finalize

Spec == Init /\ [][Next]_vars

-----------------------------------------------------------------------------
(* Properties. *)

Blob == [sequence : Nat, start_page : Nat, data : Seq(PageData \cup {Blank, Erased})]

\* Types; and a blob that was placed starts with a block, below the reserve.
TypeOK ==
    /\ stage \in {"console", "scanning", "parsed", "writing", "spare", "rescanning", "done"}
    /\ \A p \in Pages : image[p] \in PageData \cup {Blank, Erased}
    /\ store \in [Slots -> Blob]
    /\ block_map \in [Blocks -> Words]
    /\ at \in IF stage \in {"writing", "spare"} THEN 1..(Cardinality(Slots) + 1) ELSE 0..FirstPage(N)
    /\ stage \in {"writing", "spare"} =>
          \A k \in Slots : store[k].start_page # 0 =>
              \E b \in FirstUsable..(ReserveStart - 1) : store[k].start_page = FirstPage(b)

Read == stage \in {"parsed", "done"}

OfSlot(k) == {w.blob : w \in {v \in whole : v.slot = k}}

\* A scan comes to the newest blob of each slot that was written whole,
\* however many older ones and torn ones are around it (scan_physical).
NewestFound ==
    stage = "parsed" =>
        \A k \in Slots :
            IF OfSlot(k) = {} THEN store[k] = NoBlob
            ELSE /\ store[k] \in OfSlot(k)
                 /\ \A b \in OfSlot(k) : b.sequence <= store[k].sequence

\* The same on big blocks.
BigBlockNewestFound == layout = "Bb" => NewestFound

\* What a scan finds was written, whole and for that slot, in every layout:
\* torn blobs, and blobs whose length does not fit the page count or the
\* 16-bit size, are never taken for another one - as long as the number of
\* pages fits a byte (the cast in write_logical; 256 pages and one more read
\* back as one).
NothingInvented ==
    Read => \A k \in Slots :
        /\ store[k] # NoBlob
        /\ \A b \in OfSlot(k) : Len(b.data) < Byte
        => store[k] \in OfSlot(k)

\* On big blocks a blob of fewer than Unit pages that a build has placed is
\* found again when the image is scanned, whatever longer blobs of other slots
\* were placed before and after it (write_logical, collect_spare_meta).
ShortBlobsComeBack ==
    stage = "done" /\ layout = "Bb" =>
        \A k \in Slots : \A b \in OfSlot(k) : Len(b.data) < Unit => store[k] = b
=============================================================================
