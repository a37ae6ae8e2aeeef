# gxBuild in TLA+

gxBuild takes NAND dumps of a console apart and builds new ones: boot chain,
patch slots, payloads, the FlashFS file system and mobile blobs, with or
without spare areas. This directory models the parts of it that keep state over
many steps, checks them with TLC and proves with TLAPS what matters most about
six of them: the FlashFS file system, which everything else is built on, the
assembly of an image around it, the command session, which decides what is built,
the search, which decides what it is built from, the healing of bad blocks, which
decides what is read, and the mobile store, which is found by its pages alone.

Paths are relative to the repository; `src/...` means `src/src/...` of the tree
this project was written against.

## 1. The system

### Components

| component | state | operations | modelled by |
|---|---|---|---|
| FlashFS (`builder/filesystem/flashfs.rs`) | `FileSystemRoot`: root block, directory entries, block map; the logical image | create_defaults, inject_file, replace_file, delete_file, write_logical, read, scan_physical(_with_lba) | `BlockMap`, `FlashFS`, `FlashFSMount`, `FileStore` |
| Command session (`core/interface/handler.rs`, `cli.rs`, `data/mod.rs`, `rhai.rs`) | `Session`: active NAND, pending key, options, assets, output file | 21 internal commands sorted by priority; batches of the command line, the shell, a library user | `Session` |
| Image assembly (`builder/nand/builder.rs`) | image under construction, root, CF block lists | prepare_for_assembly, assemble_logical, Build's finalisation | `Assembly` |
| Bad blocks and spare areas (`core/images/blocks.rs`) | dump, list of bad blocks, remap targets | detect, promote_layout, resolve_remapped_blocks, map_and_heal, add_spare | `BadBlocks`, `Mobile` |
| Mobile store (`builder/filesystem/mobile.rs`) | latest blob of each of nine slots | scan_physical, apply_data_folder_tier, write_logical, collect_spare_meta | `Mobile`, placed beside files in `Assembly` |
| NAND parser (`builder/nand/parser.rs`) | - | parse_clean, parse_bootloader_chain | its FlashFS part in `Assembly` and `Session` |
| Corona slots (`builder/filesystem/corona.rs`) | two eMMC anchor slots | load, write_back | no (see 6) |
| Search tiers and options (`core/interface/data/*.rs`) | the INI, the search and its result, the build assets | IniSearch through its tiers, ParseIni and Build as its callers, applying an INI to a skeleton | `Search` |
| ECC donor merge (`builder/nand/ecc.rs`) | - | overlay of one skeleton on another | one step of `Session` |
| Boot chain sections (`builder/chain/*.rs`) | - | binary formats, RC4, HMAC, RSA | no |
| Patches and containers (`core/images/{gxpatch,stfs,signature}.rs`) | - | parsing | no |
| crate `lzxc` | match finder's history, repeated offsets, last trees, the writer's buffer | encode_chunk, set_strategy, EncoderWriter | `Lzx`, `LzxTrees` |
| crates `stfs`, `xenon_types` | - | package reader, key and version types | no |
| program shell, scripts | - | entry point, logging, helpers | no |

### How they interact

A caller (command line, shell, script, library) hands a batch of commands to
`execute_internal_commands`, which sorts it and runs it on the caller's
thread. ParseImage runs the bad-block code over the dump, then scans it for
FlashFS and for mobile blobs and parses the boot chain. ParseIni replaces the
NAND by a skeleton for the target; the Finalize commands fill in files and
blobs; ParseIni and Build both search the files an INI lists (`IniSearch`) in
folders, update containers and the dump, as does the command line before the batch
is made; Build makes a new skeleton, calls `build_in_place` (assembly) and
`finalize_nand` (spare areas) and writes the file. Assembly calls
`FileSystemRoot::write_logical`, then `MobileStore::write_logical`, which takes
its blocks from the block map of the first.

All of it is one thread; there is no lock and no callback. What is hard about it
is sequence: one operation after another on the same block map; loops that fail
in the middle; commands that are executed in another order than submitted; what
is written by one part and read by another with a formula of its own; and what
the console, which is not in this repository, may have left in a dump
(remapped, torn, stale).

### What makes each part correct

* FlashFS: no block has two owners, no owned block is free, a file that is on
  the image stays there, a failed operation loses no file, a successful one
  loses no block, protected blocks stay as they are, an image reads back as it
  was written.
* Session: no command of a batch the program makes itself is silently skipped,
  Build starts from a complete NAND, the sort loses no patch and no key, the
  output is written last, a batch ends.
* Assembly: a built image reads back; boot chain and payloads are whole; the
  space check agrees with the placement.
* Bad blocks: healing restores what was moved, touches nothing else; the newest
  root is found.
* Mobile: the newest whole blob is found, nothing is invented, no file is
  overwritten, what is built is found again.
* Search: an image holds what the INI lists, a search fails only for what is nowhere,
  an image is paired with the console whose dump lies in the data folder.
* lzxc: a decoder gets back the bytes, across chunks, trimmed history and changed trees.

## 2. Modules

```
BlockMap ── FlashFS ── FlashFSMount ── Assembly          FileStore
   │           │            │  └─ implements FileStore
   │           │            │             └─────────────┐
   ├── BlockMapProofs ─── FlashFSProofs ─── AssemblyProofs
   │                └─────────────────────┐
   └── Mobile ─────────────────────── MobileProofs

Session ── SessionProofs      BadBlocks ── BadBlocksProofs

Search ── SearchProofs        LzxTrees ── Lzx ── LzxProofs
```

`MC*.tla` and `MC*.cfg` instantiate them. Every definition that stands for code
is listed with its lines in `PROJECT.json`, under "map". Operators introduced by
"A slip:" are wrong variants of the definition that follows them; nothing but the
mutants of `PROJECT.json` uses them. Each mutant puts one in the place of the
right definition, and TLC must then refute the property that names it.

**BlockMap** - the map as a function from blocks to 15-bit words. `Chain` is the
set `get_block_chain` visits, in closed form (least set closed under links),
`Position` its order; `Resize` is set_chain_data, `FreeFrom` and `Lowest` are
allocate_new_block, `Defaults` is create_defaults.

**FlashFS** - `block_number`, `entries`, `block_map`, `image` are the fields of
`FileSystemRoot` and the image passed along. InjectFile, ReplaceFile, DeleteFile
are one action each. `write_logical` can fail at any entry after the earlier ones
were given blocks, so each iteration is an action (WriteEntry) and the directory
another (WriteRoot); `writing` is its loop index, and nothing else starts until
it returns. `block_number = 0` stands for the negative "no root". A file is a
sequence of chunks, one per block; an empty file still holds one zeroed block, as
in the code. A behaviour starts with a new root, a root not yet allocated, or the
rebuild of assemble_logical (entries without blocks on a fresh map with payloads
protected).

**FlashFSMount** - adds `Load`, FileSystemRoot::read: the directory is read along
the root chain (`Slots` are its places, `Listed` what stands in them), names
de-duplicated (`Kept`: the first wins), file data read along the map on disk. Names
are cut to 22 bytes (`DiskName`). An image is read back only while nothing was edited
since it was written (`synced`). **FileStore** is what a
caller is promised; the run `mount` shows that FlashFSMount implements it for
names that stay their own on disk, with `Extract` as the refinement mapping.

**Session** - a command is a record of operation, file and key; `queue` is the
rest of the batch, sorted by `Rank` (the priority table; the sort is stable), and
`Execute` runs its head. The NAND is reduced to
where its parts come from. A command whose success depends on file contents may
fail. A library user's session starts with any two keys (`GivenKeys`: BuildConfig's
fields are public), and its batches may have a Build in them.

**Assembly** - `stage` is the program counter of prepare_for_assembly,
assemble_logical and the Build handler, followed by the scan and read a later
ParseImage does. Files are placed by FlashFS's own WriteEntry and WriteRoot.
`target` is target_fs_block, `Lowered` the space check that moves it, at the lowest to
the end of the patch slots that hold a CF (`SlotsCounted`), `FreshMap` the map with the protected ranges, `SpareType` what add_spare writes.

**BadBlocks** - the console's flash driver is external: it stores files, writes
roots in turn with rising sequence numbers, and moves a failed block to the
reserve. Detect, HealNext (one bad block per step, in place, the lowest first) and
Scan follow the code. The two spare formats put the block and sequence numbers into one another's
bytes; both are modelled byte by byte because the code confuses them.

**Mobile** - page-granular. The console appends versions of a blob and may lose
power between two pages; ScanPage is one iteration of scan_physical. Then Build,
WriteSlot (one iteration of write_logical), Finalize (collect_spare_meta and
add_spare), and a second scan of the result. Encoded and Decoded are the two
page-count formulas of the code, which are not inverse to one another.

**Search** - `caller` is who searches (the command line, ParseIni or Build), `stage`
and `at` the list of the INI and the line in it, one line per step; `found` is
IniSearchResult. A boot section is the type and version in its header, whether its
bytes are sound, whether the automatic patch is in it, and its per-console fields; a
file is a name and its contents. Tiers are sets or sequences of copies, and `Take`
picks the first that passes the line's checks. `pool` holds the FlashFS files of the
containers that were read for update lines, one set for each. EndIni and EndBuild apply the result
to a skeleton. A dump is what parse_clean lets through (`IsDump`: CB_A, CD and CE are
there, the deleted files have other names); a NAND in memory may have been edited since.
EndBuild pairs the image twice, as the code does: with the dump's fields (`Paired`), then
in sync_options_to_nand with those found in the image itself (`Synced`). `ReplaceDump`
puts another console's dump in the data folder between two builds.

**LzxTrees** - path lengths from frequencies (Huffman, and package-merge when a code
gets too long) and the ops that send a tree as the difference from the one before,
with what a decoder makes of them. It declares no state; `TreesComeBack` of Lzx
compares the two ends. **Lzx** - the encoder's state from chunk to chunk, and a
decoder (external: the lzxd crate) that sees the blocks alone. A chunk is parsed,
encoded and written in one step; `WriteFails` is the sink refusing it, after which
the writer's buffer is encoded again. `stale` notes in what the encoder has lost
step with the stream, so that each property says which of these it excludes.

## 3. Runs

Bounds are chosen so that the boundary each property is about lies inside.

| run | question | bounds, and why they suffice |
|---|---|---|
| `edits` | do chains, files and protected blocks survive any sequence of edits and rebuilds? | 7 blocks of which at most 4 can be allocated; files of 0, 1 and 3 blocks, two names, one entry per root block, two entries in memory. Two files and a two-block directory do not fit together, so every allocation can fail at its first, a middle and its last block; free blocks fragment, chains grow, shrink and run backwards. Roots: given (2), or still to be allocated (0). |
| `mount` | does a written image read back, and is the whole a file store? | 7 blocks, three names of which two agree on disk, a directory of two root blocks; a new root, or a rebuild with one file around a payload. The operations go on after a read, so that a map or a directory read wrongly would show in what is done next. |
| `session` | does the sort, in whatever state the session is, keep batches meaningful? | all 1536 command lines over two dumps (of different layouts), one ECC image, one patch, two keys; then any sequence of shell commands; library sessions that start with no key, one or two, and batches of two of the eleven commands that change the session, of Build and one of six others, or of three out of five, two batches in a row. Priorities matter pairwise; three are needed for two keys around a user of the key. |
| `assembly` | does a built image read back, with boot chain and payloads whole? | 10 blocks, up to two files of up to two blocks, four combinations of CG overflow, boot chain and patch slots in blocks 0, 2 and 3, XeLL in block 4, payloads in none, in 3, in 3 and 5, or in 7; roots 5 and 6, requested root absent, 5, or 9 in the reserve. Lowered roots end at block 3 or 4, where the counted slots end, so that the root lands on slots, XeLL and payloads; one blob or none. |
| `assembly_cg` (violation) | does a CF list its own blocks? | one root |
| `bad_blocks` | is what the console moved restored, and the newest root found? | 5 logical blocks (2 files, 2 roots), reserve of 3, up to three failures in any order - including of a block that was moved before and of reserve blocks - three roots; bytes of four values so that numbers need two bytes. |
| `files_healed` (violation) | are files read from the healed image? | as above, one format |
| `mobile` | are blobs found, kept apart from files and found again? | three versions of two blobs of one and two pages, any of them torn after any page; blobs to build of 0 to 5 pages and of 13, four-page blocks, maps with free, broken, one and no free block. Unit = 3, 16-bit size = 12 pages and a byte = 24 keep the source's ratios 32 : 128 : 256; lengths 1 and 2 are below the base, 3 is the base itself, 4 a full block above it, 5 more than a block, 13 the first length whose size wraps to that of one page. |
| `search` | does an image hold what its INI lists, does a search miss a copy, is the image paired with the right console? | four families of INIs: a patched glitch chain of three sections; two update slots; security and FlashFS files; build types with payloads. Each with its folders, containers and dumps whose copies are absent, good, damaged or of another version, and with the options that matter to its lines; the three callers in any order, two images, between them another console's dump in the data folder. Sections in folders carry another console's fields; NANDs in memory have a deleted file, alone or in front of a live one of its name. What the families leave out of one another is independent in the code: boot sections, files and security files are searched in lists of their own. |
| `lzx` | does a decoder get the bytes back, whatever chunks and strategies? | 8 byte values, 8 position slots (offsets up to 13), chunks of up to 28 bytes, code lengths up to 4; four chunks, so that the history (trimmed when it reaches 82 bytes) is trimmed and used again; one switch of strategy or failed write. The chunks compress with one or with several matches, would need a code deeper than 4, or are a single byte. |
| `lzx_fallback`, `lzx_path_lengths` (violations) | after an uncompressed block? when all deltas of a tree are the same? | three chunks of Greedy, two of LiteralOnly |

Deadlock is checked where the system never stops (`edits`, `mount`); the other
runs come to an end by design (a program that exits, an image that is parsed or
built, a stream that is finished), and their cfg says so.

What no bound hides: `MaxEntries`, `MaxBatches`, `MaxSequence`, `MaxFailures`,
`MaxVersions`, `MaxBuilds`, `MaxChunks` and `MaxUpsets` only stop counters, each in a
guard; none of the properties mentions them.

**Properties, by module**

* FlashFS: `ChainsDisjoint`, `ChainsHeld` (ownership); `KeepsOnImage`,
  `WriteStoresAll` (content on the image against what memory says);
  `FailureKeepsFiles`, `NoLossOnSuccess`, `FailsOnlyWhenFull` (partial failure);
  `NamesStayUnique`; `ReservedUntouched`.
* FlashFSMount: `LoadIsGenuine`, `LoadKeepsMap`, `ImplementsFileStore`.
* Session: `NothingSkipped`, `ReadyToBuild`, `PatchesSurvive`,
  `OneKeyPerImage`, `ImageWrittenLast`, `BatchEnds`.
* Assembly: `FilesReadBack`, `BootIntact`, `MobileKept`, `RoomIsEnough`.
* BadBlocks: `HealedIsCurrent`, `OthersKept`, `SmallBlockRootIsNewest`.
* Mobile: `BigBlockNewestFound`, `NothingInvented`, `ShortBlobsComeBack`.
* Search: `ImageAsListed`, `FailsOnlyForMissing`, `PairedWithDump`.
* Lzx: `RoundTrip`, `TreesComeBack`.

**Fairness.** `BatchEnds` is the only liveness property. It assumes
`WF_vars(Execute)`: the loop over a batch runs on the caller's own thread without
waiting for anything, so a command that can be executed is. Nothing is assumed of
the caller. The other modules state no fairness and no liveness.

## 4. What the runs found

Each violation run contradicts a sentence of the source, quoted in `PROJECT.json`.

* `assembly_cg`: a CF lists the blocks of a first placement of its overflow file;
  the rebuild places all files anew, and the parser appends another file's
  blocks to the CG.
* `files_healed`: FlashFS is read from the raw dump, so a file on a remapped block
  reads as the bad block's contents.
* `lzx_fallback`: a chunk of one symbol goes out as an uncompressed block, which sets
  the repeated offsets to 1 in the stream and not in the encoder; a later match with
  a remembered offset is decoded with another one. In bytes: 128 literals and 127
  times a pattern of 257 bytes that does not repeat itself fill the first chunk; the
  second goes on with the pattern, so that all its matches have one symbol, and
  falls back; the third starts the pattern anew, and its second match takes the
  offset 257 from the encoder's R1, where the decoder has 1.
* `lzx_path_lengths`: ensure_multi_symbol replaces four equal deltas by a run of one
  length, where the lengths differ. In bytes: LiteralOnly, twice a chunk of 32 KB in
  which bytes 0 to 255 occur 256, 128, 64, 64, 256, 128, 64, 64, ... times: the trees
  are equal, every delta is 0, and no four lengths in a row are equal.

Seen while modelling and left without a run of their own.

Session and Build:

* The image named with `-l` is loaded by the batch, and Build looks for a dump on disk
  again (handler.rs:1385).
* Addon patches and an ECC overlay change the session's NAND, but Build starts from
  a blank skeleton (handler.rs:1506), so they do not reach the image, which the
  options' help (cli.rs:122, 142) implies.
* Build fills the mobile store from the data folder although the dump may have
  blobs of its own; blobs in built images always have sequence 1.
* A library user whose session has a key and who submits Clear and ParseKey has two keys:
  Clear forgets the pending one and leaves the options' (handler.rs:2430), Build writes
  the image under the pending one, and sync_options_to_nand puts the options' into its
  NAND. `OneKeyPerImage` says that the two differ exactly then, and never in a
  session of the command line.
* ParseIni takes the NAND out of the session before it applies the INI, and returns
  without putting it back when that fails (handler.rs:1995-2014).

Assembly:

* The space check lowers the root to the end of the patch slots that hold a CF, without a
  look at the payloads that start there, or at a slot kept for patches only
  (builder.rs:953-966). The block the directory is put on is then lost to them;
  `BootIntact` says that this one is, and that nothing else is which a map keeps.
* The KHV patch stream lies inside patch slot 1 (builder.rs:1271), and XeLL is
  protected by no map; that files stay clear of it is by their position alone.

Dumps:

* promote_layout looks at a byte that is 0 in both spare formats (blocks.rs:849); no
  dump is recognised as the older one, and on such a dump an old root may be taken.
* scan_physical wants 0xFF in the first spare byte, which on small blocks is the
  sequence number: blobs of small-block dumps are not found (mobile.rs:137).
* mobile.rs:339 allocates one block for a blob of any length. A longer one is
  written over what follows, and on big blocks a blob of 32 pages or more is not
  found again (mobile.rs:371, 47); one of 257 pages reads back as one page, as
  its page count is cast to a byte. The properties of Mobile say for which
  lengths they hold.
* An image of 0x1000 small blocks has a reserve of 0x80 blocks (blocks.rs:163), of which
  resolve_remapped_blocks looks at the first 0x20 (blocks.rs:1231). Copies behind them
  are not found; `HealedIsCurrent` says so (`SearchedWhole`).
* The deleted marker 0x05 that flashfs.rs:868 and 882 describe is never written.

Search:

* The automatic patch's KHV part is put into IniSearch's own copy of the INI
  (filesearch.rs:706); the callers apply theirs (xeini.rs:719). A patch file that
  cannot be read patches nothing and says so only in the log (filesearch.rs:704).
* The option nofcrt keeps fcrt.bin out of the search, but the dump's is inserted by
  Build (handler.rs:1650) and by BuildAssets::new (data/mod.rs:236); the dump's keyvault
  is taken also with nosecurity (handler.rs:1541).
* ParseIni's tier "dump" is the skeleton it made before, whose empty keyvault it
  accepts (filesearch.rs:434).
* FlashFS files inside update containers are found only when a CF or CG line has made
  the search look through them (filesearch.rs:874); `FailsOnlyForMissing` says so.
* IniSearch takes the first entry of a name in a NAND, deleted or not
  (filesearch.rs:1138-1142); NandSearch skips deleted ones (170). In a dump that makes no
  difference, as reading one renames its deleted entries (flashfs.rs:162-166). In a NAND
  edited in memory a deleted entry hides the live one behind it;
  `FailsOnlyForMissing` says so.
* IniSearch takes a NAND slot from the number in a line's name
  (filesearch.rs:931-953), NandSearch from its chain (123-136).
* With gxunsafe a wrong copy in an early tier wins over a good one in a later tier.
* What is found is kept by file name (filesearch.rs:980, 1166). Two lines of one name with
  different hashes - the same CF for both chains, say - share one entry, the second
  line's, which apply_xe_ini then puts into both slots.
* The profile onef clears FlashFS (xeini.rs:721-737), and Build packs the files again
  (handler.rs:1677-1739).
* Build takes the CF lock-down value from cf_0 also where cf_1's is higher
  (handler.rs:1573-1579).

lzxc:

* A failed write leaves the encoder one chunk ahead of the stream, and the same bytes
  are encoded again (lib.rs:523); a comment there expects the writer to be "poisoned".
  A strategy other than Greedy does not feed the history, so that a switch in
  mid-stream loses step as well.
* The tables of footer bits and base positions end at slot 50 (verbatim.rs:17-28):
  a match further away than about 2 MB panics in windows of 4 MB and more.
* Whether a chunk has two symbols is decided before long matches are split
  (verbatim.rs:211). That is safe because the longest match, 257, leaves 1 when it is
  divided by 8, and so is split into pieces of two lengths.

## 5. Proofs

The proofs hold for every size of image, every set of names and contents, every
list of entries and every starting root (FlashFS), for every layout, list of staged
files, patch overflow, set of payloads, root and set of blobs (Assembly), for every set of images,
patches and keys, every environment and every batch (Session), and for every size of
image and reserve, every placement of roots and files and every order of failures
(BadBlocks), for every number of slots, image, block map, data folder and history
of the console (Mobile), for every INI, set of options, contents of folders and
containers, dump and order of callers (Search), and for every window of up to 2 MB, alphabet, hash,
longest match, list of chunks and order of strategies and failed writes (Lzx).

| theorem | module | property |
|---|---|---|
| `TypeSafety` | `FlashFSProofs` | `Spec => []TypeOK` |
| `NoSharedBlocks` | | `Spec => []ChainsDisjoint` |
| `ChainsStayHeld` | | `Spec => []ChainsHeld` |
| `FilesStay` | | `Spec => KeepsOnImage` |
| `WriteIsComplete` | | `Spec => WriteStoresAll` |
| `NothingLost` | | `Spec => NoLossOnSuccess` |
| `FailuresHarmless` | | `Spec => FailureKeepsFiles` |
| `NeverGivesUpEarly` | | `Spec => FailsOnlyWhenFull` |
| `NamesUnique` | | `Spec => NamesStayUnique` |
| `ReservedStays` | | `Spec => ReservedUntouched` |
| `ReadsBackFiles` | | `MountSpec => LoadIsGenuine` |
| `ReadsBackMap` | | `MountSpec => LoadKeepsMap` |
| `FileStoreRefined` | | `MountSpec => ImplementsFileStore` |
| `AssemblyTypes` | `AssemblyProofs` | `AssemblySpec => []AssemblyTypeOK` |
| `StagedFilesReadBack` | | `AssemblySpec => []FilesReadBack` |
| `BlobsKept` | | `AssemblySpec => []MobileKept` |
| `BootStays` | | `AssemblySpec => []BootIntact` |
| `SpaceCheckIsRight` | | `AssemblySpec => []RoomIsEnough` |
| `SessionTypesHold` | `SessionProofs` | `Spec => []TypeOK` |
| `NoCommandSkipped` | | `Spec => []NothingSkipped` |
| `BuildIsReady` | | `Spec => []ReadyToBuild` |
| `ImageIsLast` | | `Spec => ImageWrittenLast` |
| `KeysAgree` | | `Spec => OneKeyPerImage` |
| `PatchesAreKept` | | `Spec => []PatchesSurvive` |
| `TypesHold` | `BadBlocksProofs` | `Spec => []TypeOK` |
| `HealingIsCurrent` | | `Spec => []HealedIsCurrent` |
| `HealingKeepsOthers` | | `Spec => []OthersKept` |
| `ScanFindsNewestRoot` | | `Spec => []SmallBlockRootIsNewest` |
| `MobileTypes` | `MobileProofs` | `Spec => []TypeOK` |
| `NewestFoundOnBigBlocks` | | `Spec => []BigBlockNewestFound`, if every version has fewer than `Unit` pages |
| `NoBlobInvented` | | `Spec => []NothingInvented`, if no file of the data folder has more than `Byte` pages |
| `ShortBlobsFound` | | `Spec => []ShortBlobsComeBack` |
| `SearchTypes` | `SearchProofs` | `Spec => []TypeOK` |
| `SearchMissesNothing` | | `Spec => []FailsOnlyForMissing` |
| `ImageHoldsIni` | | `Spec => [](Strict => ImageAsListed)` |
| `PairedAsItsDump` | | `Spec => []PairedWithDump` |
| `LzxTypes` | `LzxProofs` | `Spec => []TypeOK` |
| `StreamDecodes` | | `Spec => []RoundTrip` |

These are all the properties of the runs `edits`, `mount`, `assembly`, `bad_blocks`,
`mobile` and `search`, all the safety properties of the run `session`, and those of the
run `lzx` but `TreesComeBack`.

**Assumptions.** `SizeAssumption`: the image has no more blocks than the smallest
sentinel (0x1FFB), which holds for raw NAND of at most 4096 blocks and not for
eMMC images; the allocator starts above block 0. `FlashFSAssumption`: types of the
remaining constants. `MountAssumption`: a name cut to 22 bytes stays as it is when it
is cut again, and a rebuild starts from entries with distinct names, as both ways of
making one (read, inject_file) give. `AssemblyAssumption`: the blocks of the header, of the
CFs, of boot chain, XeLL and payloads are blocks of the image; every root the code may
choose or be given is one the allocator may use; what Build stages is live, under names
of its own (the keys of a map). `SessionAssumption`: types of the constants, and that the values
standing for "none" are none of the others. `BadBlocksAssumption`: every block number fits
a byte and a nibble, and a nibble divides a byte; roots and files are on different
blocks below the reserve, and roots not on block 0, which is the header; a sequence
number fits a byte. `MobileAssumption`: a page count fits the 16-bit size and that fits
a byte's count of pages, a block has from `Unit` to `Byte` pages (32 and 256 in the code,
64 pages being twice `Unit` and 128 the pages of the size), an erased and a blank page
are no data, and the map a build finds has nothing free in the reserve (create_defaults).
`SearchAssumption`: types of what a search is given (`Ini`, `World`, `Options`, `Nand`);
what lies in the data folder is a dump that parse_clean lets through (`IsDump`); 0
and 1 are no versions; fcrt.bin is packed into the FlashFS and the keyvault is not; the
values standing for "none" are none of the others. `LzxAssumption`: a chunk is not empty,
of bytes, and no longer than the chunk size (the writer's buffer); the window has from 4 to 50
position slots (the last one the tables have; the code's smallest window has 30); the
longest match leaves 1 when it is divided by 8, as 257 does, and the length tree has a symbol
for it; bytes and length symbols are enough for a run of zeros with room to take one
off (256 and 249 in the code). `CodeLenAssumption`: a code is of 1 to 16 bits.
TLC evaluates all of them in the runs.

**Blocks that nobody shares** (`BlockMapProofs`, `FlashFSProofs`). That chains are
disjoint is not inductive: from two disjoint chains one cannot tell that a new link does not lead into a third, orphaned one that is
later freed, nor that following links comes to an end. The inductive invariant
`IInv` is about single links instead:

* `TypeOK`;
* `Sound(block_map)`: no two blocks link to the same block, and a link leads to a
  block that is in use;
* `RootOK`: the root block is not free, and no link leads to it;
* `HeadsOK`: the first block of every live file is in use, no link leads to it,
  and it differs from the root and from the other first blocks.

Then chains are paths of an injective function from points without a
predecessor: such paths cannot merge (`ChainsApart`) or close (`NoCycle`), and
every block on one is in use (`ChainInUse`). `BlockMapProofs` shows that cutting a
chain (`CutSound`), freeing one (`FreeChainSound`), appending the lowest free
blocks (`ExtendSound`) and hence `Resize` (`ResizeSound`) keep `Sound`, leave
other chains and heads alone and what the chain's head becomes. `FlashFSProofs`
has one lemma per action (`InjectIInv`, `ReplaceIInv`, ...), each reduced to
these facts; `NextIInv` collects what is common to them.

`Chain` is defined as an intersection of closed sets, not by recursion, so that it
can be reasoned about without induction over data.

**What a step does to files** (`BlockMapProofs`, `FlashFSProofs`). Here the whole chain
of a file matters and not single links. `BlockMapProofs` says when chains are equal: two
maps that agree on the blocks of a chain have that chain, with the same places
(`ChainSame`); a chain that is extended keeps its blocks at their places and gets the
new ones behind them, in order (`ExtendPlaces`); one that is cut keeps exactly its
first blocks (`CutChain`); the allocator hands out as many blocks as were asked for,
or all there are (`LowestCount`). From these, `SetEntrySteps` says of set_entry_data,
which inject, replace and write_logical all call, everything that a caller needs: the
map and the image stay as they are on every other chain and on protected blocks; on
success the file is on the image and every block in use is the file's or was in use
before; on failure the image is full and the old file is still there. The seven
theorems are then a case for each action and for each way it ends. `NeverGivesUpEarly`
covers every refused call and every refused entry, whether it was given blocks before it
was refused or none.
`WriteIsComplete` needs one more invariant, as write_logical is a loop: `WritingOK`,
while the loop runs every live entry before `writing` is on the image.

**What is read back** (`FlashFSProofs`, its third part). `Load` looks at the image and not at the
state it was written from, so the inductive invariant `MountInv` carries what the image
says: while the image is in step (`synced`) it is `Readable`, that is, its map is the
map in memory, each place of its directory names a chain of its own that holds as much
as its size says, and its names and contents are those of the live files. Three facts
meet in it. `WriteRootReadable`: write_logical, when it succeeds, leaves a readable
image, because every live file is on it (`WriteIsComplete`), because the root chain
has as many places as there are live files (`RoomForAll`) and because dividing a place by
the entries per block finds the block it was written to (`ListedWritten`). `ReadsBack`:
following a file's chain gives the data that is on it. `LoadStep`: what a readable image
gives satisfies the invariants of FlashFS and is readable again. The k-th of a set of
numbers (`InOrder`), by which entries are laid out and picked up, is shown by counting to
be a bijection (`RankFacts`). The refinement then follows action by action: with
distinct names (`UniqueNames`, invariant as well) extract_asset finds the only live
entry of a name, so that inject, replace and delete are Create, Replace and Remove, and
every other step leaves what is found as it was.

**A build from its first file to its last spare area** (`AssemblyProofs`). Between the
files that were staged and the image they are read from lie eleven stages, and the
inductive invariant `AInv` says of each what holds there:

* until the root is chosen, the entries carry the staged files, whatever blocks an
  earlier placement gave them (`Carries`, `EarlyOK`): the overflow of a patch slot is put
  in front of an entry of the two overflow names only, and taking the blocks away
  (`Unplaced`) leaves names and contents;
* while files are placed, `IInv` and `WritingOK` of FlashFS hold at the chosen root, and
  the reserve is protected (`PlacingOK`), so that each step is FlashFS's own and its
  lemmas apply;
* afterwards there are two maps, the one in memory and the one that was written with the
  directory (`DiskMap`). They differ in nothing but blocks that are free on disk and
  protected in memory, those of blobs (`DirectoryOK`);
* a blob is on a block below the reserve that the map in memory protects (`BlobsOK`);
* `Held`, the blocks of boot chain, XeLL and payloads that a map protects or that lie below
  the root, are as they were written (`HeldOK`).

What connects the last file with the read is `ReadableKept`: that an image is readable
depends only on the blocks its own map has in use. Blobs go to blocks that are free in
that map, and the spare areas of a built image name exactly one root, the target
(`SpareType`: directory before file), so the scan finds it and `LoadFiles` gives back what
`WriteRootReadable` put there.

`SpaceCheckIsRight` needs a second invariant, as the space check is made four stages
before the last block is handed out: `RoomOK` counts. Until the root is chosen the check's
sum, over files, directory and the overflow of CG0, is at most the distance from the
target to the config blocks; when the overflow was prepended the entries have grown by
just what was counted for it (`PrependedBlocks`); in the fresh map all blocks from the
target on are free but for those protected there; and each placed file leaves at least as
many free blocks as the entries behind it and the directory need (`LowestAtMost`,
`PlaceFileRoom`). A sum over entries is the number of pairs of an entry and one of
its blocks (`DataBlocks`), so that it can be reasoned about by counting.

None of the five theorems has a hypothesis about where a root may be, as no comparison in
the code ensures one: the file system's own root is taken as it is (builder.rs:859), and a
lowered one may be on a payload. `BootIntact` says instead what a build loses, and
only that: the block the directory is put on is lost, whatever was on it; what
no map keeps may be lost at or above the root - that is XeLL, which
builder.rs:1238-1265 writes without a protect_range, and the boot chain when there is no
file system; and blocks of the reserve may be. `HeldOK` carries both directions through
the stages: everything in `Held` is intact, and from the moment the directory is written
its block holds it. `RoomIsEnough` excepts the two things the space check does not count,
the overflow of CG1 and what lies above the root already; `RoomOK` counts only where neither is
there (`Counted`, `Clear`).

**Batches** (`SessionProofs`). What a batch can rely on depends on what was executed
before it, by this batch or an earlier one, and the inductive invariant says so by
the rest of the queue:

* `InOrder`: while a batch runs nothing in it has failed, and the queue falls in
  priority;
* `KeyKnown`: a build's key is set and is the one of the options; no command that
  changes a key comes in a batch of a session that is not a library user's;
* `SourceThere`: a batch of the program's own has a NAND, or a command that makes one
  is still to come;
* `Complete`: as long as Build is to come, each thing ReadyToBuild asks of the NAND
  is either done by a command still to come, or true with nothing left in the queue
  that would undo it.

The sort enters as a lemma: the rank of a command is a bijection, so that the sorted
batch is a permutation of the batch by falling priority. `PatchesAreKept` holds for
any batch, the program's own or not, and has an invariant beside these (`PatchOrder`):
once a patch is applied and until the first Build is executed, no command of a higher
priority is to come, so nothing that makes a new NAND, and the NAND has the patches.
That the sort neither adds nor loses a Build is counted (`SortedBuilds`).

`ImageIsLast` and `KeysAgree` cover the Builds of library users, whose batches are in any
order and start from any keys. For these `KeysAgree` is not that the keys agree, which they
need not, but exactly when they do not: when the pending key and the options' differ and both
are set. That this is never so on the command line is `KeyKnown`.

**What is moved is found** (`BadBlocksProofs`). Two inductive invariants, one for each
side. `ConsoleOK` is what the console leaves behind: a block that was not lost holds
what was stored in it, in its own place or, when that has failed, in the reserve; no
two blocks are kept in the same place; a good block of the reserve is kept for
somebody or erased; the newest root is where its turn says. `ParserOK` is what the
code makes of it: a block that is still to be healed is intact in the reserve, every
other block is healed or was never bad. Between the two stand the numbers in the spare
areas (`ReadBack`: what is written is what is parsed; `ErasedIsNone`: an erased spare
area is no block's) and `OneCopy`: of a bad block that was not lost, exactly the place
it is kept in reads as it. `Max` and `Min` of the community modules are `CHOOSE`s; that
a finite set of numbers has a greatest is shown by counting (`MaxExists`), without
induction.

**Found by its pages** (`MobileProofs`). A scan sees spare areas and not who wrote them,
so no statement about the store alone is inductive. The invariant is that there is a set
of *runs* - blobs put on flash, whole or only their first pages - with `FlashOK`: every
page with a mobile type is of the run of its slot and sequence number; in the block the
run starts in, a whole run still has its data; a short whole run has all its pages, in
one block; what was written whole is known. The console adds one run, on erased pages,
which are nobody's (`ConsoleFlash`). A build starts over (`Writing`): slots get higher and
higher blocks, so nothing written later reaches the first block of an earlier blob, and
the last slot to cover a page there is the one it belongs to (`FinalizeFlash`). For the
scan two lemmas say what one step does: where it takes pages for a blob there is that
whole blob, because the page count byte and the size agree for no length but their own
(`CountFacts`, `FoundIsThere`), and it never steps over the start of a short one
(`NotPassedOver`). `Found` carries this from page to page. The two hypotheses are those
the code needs: a version of `Unit` pages or more is not found again (section 4), and of
a file of more than 256 pages that runs over the end of the image the scan can make a
short blob.

**Passed lines** (`SearchProofs`). What a search promises at its end, or when it gives up,
rests on what it did at every line before, so the inductive invariant `SInv` is about the
lines it has passed (`PassedBoot`, `PassedFiles`): each has an entry in `found`
(`FoundOK`); each entry is what its line asks for (`ListedOK`); and for each update line
that was in no folder and no update file every container has been read, so that the FlashFS
files inside are in `pool` (`PoolOK`). The last is what connects the search for FlashFS
files with the one for boot sections two stages earlier, and without it `FileCopies`
could not be shown empty when a file's tiers are. The tiers enter by two facts: what
`FirstOf` returns is of some tier, and it is empty only if all are (`FirstOfFacts`,
`FirstOfBoth`). A copy that was let through is what the line asks for also after
patching (`GoodIsListed`), because the line patched as target CB is none of a CD
(`TargetCbIsCb`); pairing changes no field that is compared (`PairedFacts`); and of a
listed file there is one entry in the image, as the assets are a map (`FreshFilesListed`).

`ImageHoldsIni` has the hypothesis `Strict`, of two parts. With gxunsafe any copy of the
right type and version will do, also one that is patched already where no patch is meant to
go. And lines of one name have to ask for the same bytes (`NamesAgree`): a copy is kept by
name, so that of two such lines the second replaces what the first found (section 4).

**Paired with its dump** (`SearchProofs`). `PairedWithDump` is a fact about EndBuild, for
any state that `SInv` allows (`BuildPairs`). What the first pass writes into every CB and
CF is the dump's own (`FieldsOfDump`): pairing data is reversed when it is read and again
when it is written (`TwiceReversed`), and the dump's CBs and CFs are looked at in an order
in which the first with a value decides. The second pass looks at the new image alone. It
starts from its first CB, which has what the first pass wrote (`FirstCbPaired`), and from
its first CF, which is there whenever there is any (`FirstCfThere`, from the clause
`ChainsBegin` that an INI's second slot has a first one before it); so it writes the same
fields a second time (`SecondPass`), but for a CF's lock-down value, which the options may
give. The property is stated for images with a first CB: without
one the second pass takes the pairing of the first CF, or a default.

**A stream that decodes** (`LzxProofs`). The inductive invariant has three parts. `Typed`:
repeated offsets are ones of the window, trees are of the right width, symbols are sound
(`Sound`). `Window`: the match finder's history is bytes, the chains point into it, and
what was trimmed is further away than any offset. `InStep`: as long as nothing has put the
two out of step, the decoder is exactly in the encoder's state - offsets, trees, the bytes
fed - and the history is the end of what was fed. The last clause is why `RoundTrip` is not
inductive: a later chunk copies from the history, and the decoder from what it has decoded.

What connects the two ends is that everything the encoder makes is a walk. A sequence
`Leads` from a to b when its elements fit end to end: pretree ops through the path lengths
of a tree (`Sends`), tokens through the bytes (`Copies`). Each transformation keeps the walk:
the plan of a tree run by run (`ZeroOps`, `SameOps`), the op ensure_multi_symbol takes apart
(its case that makes one run of four deltas does not, and is the lapse "trees"), the greedy parse
(`ProcessedFact`), the cut of long matches into pieces of 2 to 8 (`AvoidFact`, which is
where the remainder of 1 matters). A decoder on a walk has the right bytes in front of it at every
step: `DecodedFact` for trees, `StepFact` for symbols, where the decoder's copy of an
overlapping match is the periodic continuation of its last bytes (`PeriodFact`), and where
`position_slot_for` and the tables of base positions and footer bits agree (`SlotFact`, over
all slots of the tables). That path lengths are in range (`TreesWide`) needs Huffman's tree
and package-merge: each symbol with a frequency is in exactly one of the subtrees still to be
merged, and among the lightest 2n - 2 packages at most once for each bit of a code.

Folds are recursive functions, about which the prover knows nothing but their equation.
`ClimbExists` gives one for every step function that stays in its set, from the
well-foundedness of < on Nat (`LeastFact`), and `FollowsFact` that there is only one; the
lemma on each fold is then about a single step.

**Only model-checked.** `TreesComeBack`: that the trees of a block are complete, so that a
decoder can build them. For Huffman's and package-merge's lengths that is Kraft's equality, a
sum over the symbols of a tree that is carried through every merge and every level of
packages; the lemmas of `LzxProofs` on the two bound the lengths and stop short of it.
The provers know powers of two for given exponents only, and in Huffman's unlimited tree
the exponents have no bound.
`BatchEnds`, as liveness under fairness and `ENABLED` are out of the prover's reach. The
properties of the four runs that expect a violation are false.

## 6. What is not modelled

* FlashFS: the eMMC root layout; apply_and_load's search for a root's block
  offset; versions and timestamps; bytes within a block.
* Session: file contents, the `.ecc` path of extract, option values other than the
  key, the allowlist.
* Assembly: byte addresses, header fields, the noflashfs option, encryption, the
  limit of 223 blocks per CF, Corona write-back, blobs longer than one block (those
  are in Mobile).
* BadBlocks: big-block spares, per-page differences inside a block, the alternative
  root type 0x2C, the parser's fallback root. LbaMap's own lookups are not called
  by anything.
* Mobile: a library user who writes a scanned store again (its blobs have a page and
  are not given blocks), the nomobile option (in Session), Xsb, eMMC (where blobs are
  dropped).
* Search: the text of INIs and option files, option values, directory listings, the
  keyvault's overrides and the SMC configuration's, which sync_options_to_nand applies after
  pairing; tiers of the four families are not mixed in one INI. A built image is not
  parsed again here: what comes back depends on the boot chain's encryption, the layout
  and the CG's overflow (`assembly_cg`).
* lzxc: the bits (bitstream.rs, canonical code values), the E8 preprocessing, the 4 GiB
  limit of positions in the chains, the tables' short end.
* Corona slots: both are written once, with the same root, at the end of a build, and
  read once, at the start of a parse; what could go wrong between the two is eMMC
  layout, which FlashFS, Assembly and Mobile leave out.
* ECC donor merge: one step of Session; which parts win is a table of assignments.
* Boot chain formats, cryptography, patch and package parsing: functions of bytes that
  tests cover better.

Hazards in `PROJECT.json` that no property covers say why in their note.

## 7. Plan

Done, in this order: BlockMap, FlashFS, FlashFSMount and FileStore; Session;
Assembly; BadBlocks; Mobile; proofs of the FlashFS invariants; Search; LzxTrees and
Lzx; proofs of the action properties of FlashFS, of Session and of BadBlocks; of reading
back and of the refinement of FileStore; of Mobile; of Assembly; of Search and of
pairing; of Lzx.

What is left, by what it would add:

1. The eMMC layout in BlockMap and FlashFS (a directory beside the map, blocks of 512
   bytes, map words too short for the image), and with it the Corona slots.
2. Editing an image that was read back (builder.rs:1482): Assembly with a second round,
   in which the block of a mobile blob is free in the map.
3. Region layout and parser: the addresses of boot chain and patch slots, and
   parse_bootloader_chain as the inverse of assemble_logical.
