------------------------------- MODULE FlashFS -------------------------------
(***************************************************************************)
(* FlashFS on a raw NAND image (layouts Xsb, Sb and Bb): the in-memory     *)
(* FileSystemRoot (directory entries, block map, root block) and the       *)
(* logical image it is edited against.                                     *)
(*                                                                         *)
(* inject_file, replace_file and delete_file are one action each.          *)
(* write_logical, which visits every entry before it writes the directory, *)
(* is one action per iteration (WriteEntry) and one for the directory      *)
(* (WriteRoot); "writing" is its loop index and no other operation starts  *)
(* before it returns.                                                      *)
(*                                                                         *)
(* A behaviour starts with one of the roots the code makes: a new one      *)
(* (create_defaults), one without a root block (FlashFS::new), or the copy *)
(* assemble_logical makes of an older root to write it to a new image -    *)
(* its entries kept, their blocks forgotten, its map made afresh with the  *)
(* payloads protected - just when write_logical is called on it.           *)
(*                                                                         *)
(* File data is a sequence of chunks, one per block.                       *)
(***************************************************************************)
EXTENDS BlockMap, Sequences

CONSTANTS
    Names,              \* file names
    DiskName,           \* the name write_into leaves of a name: its first 22 bytes
    Chunk,              \* what a block of file data can hold
    Zero,               \* a zeroed block
    Contents,           \* file data the callers pass in
    Starts,             \* root blocks a file system is created or rebuilt at;
                        \* 0 for one created without a root block
    Payloads,           \* sets of blocks a rebuild protects (KHV, payloads, bootchain)
    Staged,             \* lists of entries a rebuild starts from, without blocks
    EntriesPerRoot,     \* directory entries one root block holds
    MaxEntries          \* bound: entries (live and deleted) kept in memory

ASSUME FlashFSAssumption ==
    /\ DiskName \in [Names -> Names]
    /\ Contents \subseteq Seq(Chunk)
    /\ Zero \notin Chunk
    /\ Starts \subseteq Blocks
    /\ Payloads \subseteq SUBSET Blocks
    /\ EntriesPerRoot \in Nat \ {0}
    /\ MaxEntries \in Nat
    /\ Staged \subseteq Seq([name : Names, data : Contents, deleted : BOOLEAN])

VARIABLES
    block_number,   \* root block; 0 stands for "none" (a negative number in the code)
    entries,        \* FileSystemRoot.entries
    block_map,      \* FileSystemRoot.block_map
    image,          \* what each logical block of the image holds
    writing,        \* write_logical: entry it is at, 0 when it is not running
    result          \* what the last operation returned

vars == <<block_number, entries, block_map, image, writing, result>>

-----------------------------------------------------------------------------
(* Data. *)

Entry == [name : Names, block_number : Blocks, size : Nat,
          deleted : BOOLEAN, data : Seq(Chunk)]

\* A directory entry as write_into lays it out.
DiskEntry == [name : Names, block_number : Blocks, size : Nat, deleted : BOOLEAN]

\* A block of the image: file data, or a root block with its share of the
\* block map and of the directory.
DataBlock(c)   == [chunk |-> c, map |-> <<>>, files |-> <<>>]
RootBlock(m, f) == [chunk |-> Zero, map |-> m, files |-> f]

\* Empty data still takes one (zeroed) block.
BlocksNeeded(d) == IF d = <<>> THEN 1 ELSE Len(d)

\* A slip: the data is copied from one block too far.
ChunkAfter(d, k) == IF k + 1 \in 1..Len(d) THEN d[k + 1] ELSE Zero

ChunkAt(d, k)   == IF k \in 1..Len(d) THEN d[k] ELSE Zero

Live == {i \in 1..Len(entries) : ~entries[i].deleted}
LiveNamed(n) == {i \in Live : entries[i].name = n}

\* The k-th of a set of numbers.
InOrder(S, k) == CHOOSE x \in S : Cardinality({y \in S : y < x}) = k - 1

Zeroed(img, S) == [x \in Blocks |-> IF x \in S THEN DataBlock(Zero) ELSE img[x]]

\* The image after every block of the chain of b in m got its chunk of d.
Stored(img, m, b, d) ==
    [x \in Blocks |-> IF x \in Chain(m, b)
                      THEN DataBlock(ChunkAt(d, Position(m, b, x)))
                      ELSE img[x]]

-----------------------------------------------------------------------------
(* set_entry_data / set_chain_data. *)

\* A slip: the search for a block stops short of the last free one.
FirstBlockEarly(b) ==
    IF b # 0 THEN b
    ELSE LET avail == FreeFrom(block_map, block_number)
         IN  IF Cardinality(avail) <= 1 THEN 0 ELSE Least(avail)

\* The first block of an entry: allocated when the entry has none; 0 when the
\* image is full.
FirstBlock(b) ==
    IF b # 0 THEN b
    ELSE LET avail == FreeFrom(block_map, block_number)
         IN  IF avail = {} THEN 0 ELSE Least(avail)

\* Bring the data of an entry whose first block is b to d: the new first
\* block, map and image, and whether it worked.  A failure leaves the blocks
\* taken so far linked and zeroed.
SetEntryData(b, d) ==
    LET first == FirstBlock(b)
        need  == BlocksNeeded(d)
        map0  == IF b = 0 /\ first # 0 THEN [block_map EXCEPT ![first] = End] ELSE block_map
        map1  == IF first = 0 THEN map0 ELSE Resize(map0, first, need, block_number)
        img1  == Zeroed(image, {x \in Blocks : block_map[x] = Free /\ map1[x] # Free})
        ok    == first # 0 /\ CanResize(map0, first, need, block_number)
    IN  [ok    |-> ok,
         first |-> first,
         map   |-> map1,
         image |-> IF ok THEN Stored(img1, map1, first, d) ELSE img1]

-----------------------------------------------------------------------------
(* The operations. *)

Idle == writing = 0

\* A slip: no look for an existing file first.
InjectFileUnchecked(n, d) ==
    /\ Idle
    /\ Len(entries) < MaxEntries
    /\ UNCHANGED <<block_number, writing>>
    /\ LET s == SetEntryData(0, d)
       IN  /\ block_map' = s.map
           /\ image' = s.image
           /\ result' = IF s.ok THEN "ok" ELSE "err"
           /\ entries' = IF s.ok
                         THEN Append(entries, [name |-> n, block_number |-> s.first,
                                               size |-> Len(d), deleted |-> FALSE,
                                               data |-> d])
                         ELSE entries

InjectFile(n, d) ==
    /\ Idle
    /\ Len(entries) < MaxEntries
    /\ UNCHANGED <<block_number, writing>>
    /\ LET s == SetEntryData(0, d)
       IN  \/ /\ LiveNamed(n) # {}                       \* FileExists
              /\ result' = "err"
              /\ UNCHANGED <<entries, block_map, image>>
           \/ /\ LiveNamed(n) = {}
              /\ block_map' = s.map
              /\ image' = s.image
              /\ result' = IF s.ok THEN "ok" ELSE "err"
              /\ entries' = IF s.ok
                            THEN Append(entries, [name |-> n, block_number |-> s.first,
                                                  size |-> Len(d), deleted |-> FALSE,
                                                  data |-> d])
                            ELSE entries

\* position() finds the first live entry of that name.
First(S) == CHOOSE i \in S : \A j \in S : i <= j

\* A slip: the entry is updated before its blocks are known to be there.
ReplaceFileEagerly(n, d) ==
    /\ Idle
    /\ LiveNamed(n) # {}
    /\ UNCHANGED <<block_number, writing>>
    /\ LET i == First(LiveNamed(n))
           s == SetEntryData(entries[i].block_number, d)
       IN  /\ block_map' = s.map
           /\ image' = s.image
           /\ result' = IF s.ok THEN "ok" ELSE "err"
           /\ entries' = [entries EXCEPT ![i].block_number = s.first,
                                         ![i].size = Len(d), ![i].data = d]

ReplaceFile(n, d) ==
    /\ Idle
    /\ UNCHANGED <<block_number, writing>>
    /\ \/ /\ LiveNamed(n) = {}                           \* FileNotFound
          /\ result' = "err"
          /\ UNCHANGED <<entries, block_map, image>>
       \/ /\ LiveNamed(n) # {}
          /\ LET i == First(LiveNamed(n))
                 s == SetEntryData(entries[i].block_number, d)
             IN  /\ block_map' = s.map
                 /\ image' = s.image
                 /\ result' = IF s.ok THEN "ok" ELSE "err"
                 /\ entries' = IF s.ok
                               THEN [entries EXCEPT ![i].block_number = s.first,
                                                    ![i].size = Len(d),
                                                    ![i].data = d]
                               ELSE entries

DeleteFile(n) ==
    /\ Idle
    /\ UNCHANGED <<block_number, image, writing>>
    /\ \/ /\ LiveNamed(n) = {}
          /\ result' = "err"
          /\ UNCHANGED <<entries, block_map>>
       \/ /\ LiveNamed(n) # {}
          /\ LET i == First(LiveNamed(n))
                 b == entries[i].block_number
             IN  /\ block_map' = IF b # 0 THEN FreeChain(block_map, b) ELSE block_map
                 /\ entries' = [entries EXCEPT ![i].deleted = TRUE]
                 /\ result' = "ok"

-----------------------------------------------------------------------------
(* write_logical. *)

BeginWrite ==
    /\ Idle
    /\ writing' = 1
    /\ result' = "running"
    /\ UNCHANGED <<block_number, entries, block_map, image>>

WriteEntry ==
    /\ writing \in 1..Len(entries)
    /\ UNCHANGED block_number
    /\ LET e == entries[writing]
           s == SetEntryData(e.block_number, e.data)
       IN  \/ /\ e.deleted
              /\ writing' = writing + 1
              /\ UNCHANGED <<entries, block_map, image, result>>
           \/ /\ ~e.deleted
              /\ entries' = [entries EXCEPT ![writing].block_number = s.first]
              /\ block_map' = s.map
              /\ image' = s.image
              /\ writing' = IF s.ok THEN writing + 1 ELSE 0
              /\ result' = IF s.ok THEN result ELSE "err"

\* The map of a raw layout always fits the first root block, so the number
\* of root blocks is set by the live entries alone.
RootBlocksNeeded ==
    LET n == Cardinality(Live)
    IN  IF n <= EntriesPerRoot THEN 1
        ELSE (n + EntriesPerRoot - 1) \div EntriesPerRoot

\* The entries the directory lists, in their order: deleted ones are skipped.
DiskEntries ==
    [k \in 1..Cardinality(Live) |->
        LET e == entries[InOrder(Live, k)]
        IN  [name |-> DiskName[e.name], block_number |-> e.block_number,
             size |-> e.size, deleted |-> e.deleted]]

\* A slip: the map is written out before the root chain is linked.
RootShareStale(m, k) ==
    LET lo == (k - 1) * EntriesPerRoot + 1
        hi == IF k * EntriesPerRoot < Len(DiskEntries) THEN k * EntriesPerRoot
                                                       ELSE Len(DiskEntries)
    IN  RootBlock(IF k = 1 THEN block_map ELSE <<>>, SubSeq(DiskEntries, lo, hi))

\* What the k-th root block holds under map m.
RootShare(m, k) ==
    LET lo == (k - 1) * EntriesPerRoot + 1
        hi == IF k * EntriesPerRoot < Len(DiskEntries) THEN k * EntriesPerRoot
                                                       ELSE Len(DiskEntries)
    IN  RootBlock(IF k = 1 THEN m ELSE <<>>, SubSeq(DiskEntries, lo, hi))

\* A slip: the first block of the root chain is freed with the rest.
RootCutFreesRoot ==
    IF block_number = 0 THEN block_map ELSE FreeChain(block_map, block_number)

\* The map once the old root chain is cut back to its first block.
RootCut ==
    IF block_number = 0 THEN block_map
    ELSE [x \in Blocks |-> IF x = block_number THEN End
                           ELSE IF x \in Chain(block_map, block_number) THEN Free
                           ELSE block_map[x]]

\* The blocks the new root chain takes, in the order it links them.
RootGrowth ==
    Lowest(FreeFrom(RootCut, block_number),
           RootBlocksNeeded - (IF block_number = 0 THEN 0 ELSE 1))

WriteRoot ==
    /\ writing = Len(entries) + 1
    /\ writing' = 0
    /\ UNCHANGED entries
    /\ LET held == IF block_number = 0 THEN 0 ELSE 1
           root == IF block_number = 0 THEN Least(RootGrowth) ELSE block_number
           map1 == Extend(RootCut, root, RootGrowth)
       IN  \/ /\ Cardinality(RootGrowth) + held < RootBlocksNeeded
              /\ block_map' = RootCut
              /\ image' = Zeroed(image, RootGrowth)
              /\ result' = "err"
              /\ UNCHANGED block_number
           \/ /\ Cardinality(RootGrowth) + held >= RootBlocksNeeded
              /\ block_number' = root
              /\ block_map' = map1
              /\ image' = [x \in Blocks |->
                              IF x \in Chain(map1, root)
                              THEN RootShare(map1, Position(map1, root, x))
                              ELSE image[x]]
              /\ result' = "ok"

-----------------------------------------------------------------------------

\* A new root, or FlashFS::new() with nothing allocated yet.
Fresh ==
    /\ block_number \in Starts
    /\ block_map = IF block_number = 0 THEN Unformatted ELSE Defaults(block_number)
    /\ entries = <<>>
    /\ writing = 0
    /\ result = "ok"

\* assemble_logical: a root whose entries have no blocks on a map made afresh.
Rebuild ==
    /\ \E b \in Starts \ {0}, P \in Payloads :
          /\ block_number = b
          /\ block_map = [x \in Blocks |-> IF x \in P THEN Reserved ELSE Defaults(b)[x]]
    /\ \E list \in Staged :
          entries = [i \in 1..Len(list) |->
                        [name |-> list[i].name, block_number |-> 0,
                         size |-> Len(list[i].data), deleted |-> list[i].deleted,
                         data |-> list[i].data]]
    /\ writing = 1
    /\ result = "running"

Init ==
    /\ Fresh \/ Rebuild
    /\ image = [x \in Blocks |-> DataBlock(Zero)]

Edit ==
    \/ \E n \in Names, d \in Contents : InjectFile(n, d) \/ ReplaceFile(n, d)
    \/ \E n \in Names : DeleteFile(n)

Write == BeginWrite \/ WriteEntry \/ WriteRoot

Next == Edit \/ Write

Spec == Init /\ [][Next]_vars

-----------------------------------------------------------------------------
(* Properties. *)

\* The variables keep their types: a block map of legal words, entries whose
\* first block is a block or 0, and a loop index within the entries.
TypeOK ==
    /\ block_number \in Blocks
    /\ entries \in Seq(Entry)
    /\ block_map \in [Blocks -> Words]
    /\ DOMAIN image = Blocks
    /\ writing \in 0..(Len(entries) + 1)
    /\ result \in {"ok", "err", "running"}

\* First blocks of the live files that have one, and the root.
Holders == {i \in Live : entries[i].block_number # 0}
FileChain(i) == Chain(block_map, entries[i].block_number)
RootChain == IF block_number = 0 THEN {} ELSE Chain(block_map, block_number)

\* No block belongs to two live files, or to a live file and the directory,
\* whatever sequence of injects, replaces, deletes, rebuilds and failed
\* allocations came before (get_block_chain on block_map).
ChainsDisjoint ==
    /\ \A i, j \in Holders : i # j => FileChain(i) \cap FileChain(j) = {}
    /\ \A i \in Holders : FileChain(i) \cap RootChain = {}

\* No chain of a live file runs into a block the allocator may hand out again
\* or into a protected one; the directory's blocks are never free either
\* (allocate_new_block, free_block_chain).
ChainsHeld ==
    /\ \A i \in Holders : \A x \in FileChain(i) : InUse(block_map[x])
    /\ \A x \in RootChain : block_map[x] # Free

\* The image holds the live file i on its chain, chunk by chunk.
OnImage(i) ==
    /\ entries[i].block_number # 0
    /\ Cardinality(FileChain(i)) >= Len(entries[i].data)
    /\ \A x \in FileChain(i) :
          LET p == Position(block_map, entries[i].block_number, x)
          IN  p <= Len(entries[i].data) => image[x].chunk = entries[i].data[p]

\* A file that is on the image stays there, whatever happens to other files
\* and even if a replace of it fails half way, until it is deleted or
\* replaced (set_chain_data, free_block_chain, write_logical).
KeepsOnImage ==
    [][\A i \in Live : OnImage(i) /\ i \in Live' => OnImage(i)']_vars

\* When write_logical reports success every live file is on the image.
WriteStoresAll ==
    [][~Idle /\ result' = "ok" => \A i \in Live' : OnImage(i)']_vars

\* A block in use that no live file and no directory chain reaches.
Lost == {x \in Blocks : InUse(block_map[x])} \
            ((UNION {FileChain(i) : i \in Holders}) \cup RootChain)

\* An operation that reports success loses no block; only an operation that
\* fails half way (inject_file, replace_file on a full image) may.
NoLossOnSuccess == [][result' = "ok" => Lost' \subseteq Lost]_vars

\* What the caller can extract: extract_asset finds the first live entry.
Extract(n) ==
    IF LiveNamed(n) = {} THEN <<"none">> ELSE <<"some", entries[First(LiveNamed(n))].data>>

\* An operation that reports failure leaves every file as it was
\* (inject_file, replace_file, delete_file, write_logical).
FailureKeepsFiles ==
    [][result' = "err" => \A n \in Names : Extract(n)' = Extract(n)]_vars

\* A call or an entry of write_logical that is refused a block has used up
\* every block the allocator could still give, whether it took some first or
\* none at all; a root chain is refused only when the free blocks are too few
\* for it (allocate_new_block, set_chain_data, write_logical).
FailsOnlyWhenFull ==
    [][/\ \/ WriteEntry /\ writing' = 0
          \/ /\ result' = "err"
             /\ \E n \in Names, d \in Contents :
                   \/ LiveNamed(n) = {} /\ InjectFile(n, d)
                   \/ LiveNamed(n) # {} /\ ReplaceFile(n, d)
         => FreeFrom(block_map', block_number') = {}
       /\ WriteRoot /\ result' = "err"
         => Cardinality(FreeFrom(block_map', block_number'))
               + (IF block_number = 0 THEN 0 ELSE 1) < RootBlocksNeeded]_vars

UniqueNames == \A i, j \in Live : entries[i].name = entries[j].name => i = j

\* No operation gives two live entries the same name (inject_file's check).
NamesStayUnique == [][UniqueNames => UniqueNames']_vars

\* A block that is protected (KHV, payloads, boot loaders, configuration, bad
\* block reserve) is never handed out and never written, unless the root was
\* placed on it (allocate_new_block, set_chain_data, write_logical).
ReservedUntouched ==
    [][\A x \in Blocks : block_map[x] = Reserved /\ x # block_number =>
          block_map'[x] = Reserved /\ image'[x] = image[x]]_vars
=============================================================================
