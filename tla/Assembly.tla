------------------------------ MODULE Assembly ------------------------------
(***************************************************************************)
(* Building an image and reading it back: build_in_place                   *)
(* (prepare_for_assembly, then assemble_logical), the spare areas the      *)
(* Build command adds to it, and the scan a later ParseImage does.         *)
(*                                                                         *)
(* The Build command stages the files of the new file system without       *)
(* blocks.  prepare_for_assembly stores what a CG does not fit in its      *)
(* patch slot as a file and notes the blocks in the CF; assemble_logical   *)
(* chooses the root block, writes boot chain, patch slots and payloads,    *)
(* then places the file system (WriteEntry and WriteRoot of FlashFS) and   *)
(* the mobile blobs.  "stage" is the program counter; the stages run one   *)
(* after the other on one thread.                                          *)
(*                                                                         *)
(* Granularity is one block.  A mobile blob takes one block.               *)
(***************************************************************************)
EXTENDS FlashFSMount

CONSTANTS
    Boot,           \* blocks of SMC, key vault, boot chain and the slots a profile keeps
    Xell,           \* blocks of the XeLL payload, which no map protects
    BootChunk,      \* what a boot block or a payload block holds
    Erased,         \* an erased block
    MinRoot,        \* first block behind one and behind two patch slots
    ForcedRoot,     \* 0x110: root used when the target lies in the reserve
    PhysRoots,      \* what layout_calculator gives as root block; 0 for none
    Overflows,      \* what does not fit of CG0 and CG1, one sequence of chunks each
    XexpName,       \* sysupdate.xexp1, sysupdate.xexp2
    MobileSlots,    \* number of mobile slots (9 in the source)
    Mobiles         \* for each slot its blob, or Zero for none

\* Every root the code names (0x361, 0x37D, 0x391, 0x4E, 0x110, the old one)
\* is a block of the file system; Build stages live files only.
ASSUME AssemblyAssumption ==
    /\ Boot \subseteq Blocks /\ Xell \subseteq Blocks
    /\ MinRoot \in [1..2 -> Blocks] /\ BootChunk # Zero
    /\ ForcedRoot \in FirstUsable..(ReserveStart - 1)
    /\ Starts \ {0} \subseteq FirstUsable..(N - 1)
    /\ PhysRoots \ {0} \subseteq FirstUsable..(N - 1)
    /\ PhysRoots \subseteq Blocks
    /\ Overflows \subseteq [1..2 -> Seq(Chunk)]
    /\ XexpName \in [1..2 -> Names]
    /\ MobileSlots \in Nat
    /\ Mobiles \subseteq [1..MobileSlots -> Chunk \cup {Zero}]
    /\ \A list \in Staged : \A i \in DOMAIN list : ~list[i].deleted

VARIABLES
    stage,      \* where the build is
    job,        \* what is built: files, CG overflow, second slot, payload blocks,
                \* root, blobs
    cf,         \* first entry of cg_block_numbers of each CF; 0 for none
    target,     \* target_fs_block
    roomy,      \* the space check found the file system to fit
    slot,       \* mobile slot write_logical is at
    mobile,     \* block of each slot's blob; 0 while it has none
    spare       \* type in the spare area of each block of the finished image

buildVars == <<stage, job, cf, target, roomy, slot, mobile, spare>>
allVars   == <<mountVars, buildVars>>

-----------------------------------------------------------------------------
(* Staging (Build command). *)

Staging ==
    /\ job \in [files : Staged, overflow : Overflows, cf1 : BOOLEAN,
                payloads : Payloads, phys : PhysRoots, blobs : Mobiles]
    /\ job.overflow[2] # <<>> => job.cf1
    /\ block_number \in Starts \ {0}
    /\ block_map = Defaults(block_number)
    /\ entries = [i \in 1..Len(job.files) |->
                     [name |-> job.files[i].name, block_number |-> 0,
                      size |-> Len(job.files[i].data), deleted |-> FALSE,
                      data |-> job.files[i].data]]
    /\ image = [x \in Blocks |-> DataBlock(Erased)]
    /\ writing = 0
    /\ result = "running"
    /\ synced = FALSE
    /\ stage = "split1"
    /\ cf = <<0, 0>>
    /\ target = 0
    /\ roomy = FALSE
    /\ slot = 1
    /\ mobile = [k \in 1..MobileSlots |-> 0]
    /\ spare = [x \in Blocks |-> "none"]

-----------------------------------------------------------------------------
(* prepare_for_assembly: the overflow of CG0, then of CG1, becomes a file. *)

Split(k, here, next) ==
    /\ stage = here
    /\ UNCHANGED <<block_number, writing, synced, job, target, roomy, slot, mobile, spare>>
    /\ LET s == SetEntryData(0, job.overflow[k])
       IN  \/ /\ job.overflow[k] = <<>>
              /\ stage' = next
              /\ UNCHANGED <<entries, block_map, image, result, cf>>
           \/ /\ job.overflow[k] # <<>>
              /\ block_map' = s.map
              /\ image' = s.image
              /\ stage' = IF s.ok THEN next ELSE "failed"
              /\ result' = IF s.ok THEN result ELSE "err"
              /\ cf' = IF s.ok THEN [cf EXCEPT ![k] = s.first] ELSE cf
              /\ entries' = IF s.ok
                            THEN Append(entries,
                                        [name |-> XexpName[k], block_number |-> s.first,
                                         size |-> Len(job.overflow[k]), deleted |-> FALSE,
                                         data |-> job.overflow[k]])
                            ELSE entries

Split1 == Split(1, "split1", "split2")
Split2 == Split(2, "split2", "place")

-----------------------------------------------------------------------------
(* assemble_logical, up to the file system. *)

MaxOf(a, b) == IF a >= b THEN a ELSE b
Minus(a, b) == IF a >= b THEN a - b ELSE 0

ConfigStart == Minus(ReserveStart, ConfigBlocks)

\* The sum over the live entries: one pair for each block one of them takes.
BlocksOf(list, i) == {i} \X (1..BlocksNeeded(list[i].data))

DataBlocks(list) ==
    Cardinality(UNION {BlocksOf(list, i) : i \in {j \in 1..Len(list) : ~list[j].deleted}})

XexpAt(list, k) == {i \in 1..Len(list) : ~list[i].deleted /\ list[i].name = XexpName[k]}

\* What the space check adds for the overflow of CG0 that is prepended later.
ExtraBlocks ==
    IF job.overflow[1] = <<>> THEN 0
    ELSE LET old == entries[First(XexpAt(entries, 1))].data
         IN  BlocksNeeded(job.overflow[1] \o old) - BlocksNeeded(old)

\* A slip: the overflow is not counted.
RequiredWithoutExtra == DataBlocks(entries) + RootBlocksNeeded

Required == DataBlocks(entries) + ExtraBlocks + RootBlocksNeeded

\* The root before the space check.
Wanted ==
    LET t == IF job.phys > 0 THEN job.phys ELSE block_number
    IN  IF t >= ReserveStart THEN ForcedRoot ELSE t

\* A slip: the root may go down into the patch slots.
LoweredAnywhere == Minus(ConfigStart, Required)

\* A slot a profile keeps for the patches of the hypervisor is not counted.
SlotsCounted == IF job.cf1 THEN 2 ELSE 1

\* The root may go down to where the slots that hold a CF end, which is where
\* KHV stream and payloads begin when there is no CF1.
Lowered == MaxOf(MaxOf(Minus(ConfigStart, Required), MinRoot[SlotsCounted]), FirstUsable)

\* The root is moved down when the files do not fit above it.
Place ==
    /\ stage = "place"
    /\ LET short == Required > Minus(ConfigStart, Wanted)
           here  == IF entries # <<>> /\ short /\ Lowered < Wanted THEN Lowered ELSE Wanted
       IN  /\ target' = here
           /\ roomy' = (Required <= Minus(ConfigStart, here))
    /\ stage' = "boot"
    /\ UNCHANGED <<mountVars, job, cf, slot, mobile, spare>>

\* list with the overflow of CG k in front of the file that holds it.
Prepended(list, k) ==
    IF job.overflow[k] = <<>> THEN list
    ELSE IF XexpAt(list, k) = {}
    THEN Append(list, [name |-> XexpName[k], block_number |-> 0,
                       size |-> Len(job.overflow[k]), deleted |-> FALSE,
                       data |-> job.overflow[k]])
    ELSE LET i == First(XexpAt(list, k))
             d == job.overflow[k] \o list[i].data
         IN  [list EXCEPT ![i].data = d, ![i].size = Len(d)]

Written(img, S) == [x \in Blocks |-> IF x \in S THEN DataBlock(BootChunk) ELSE img[x]]

\* Boot chain, SMC, key vault, both patch slots and XeLL.
WriteBoot ==
    /\ stage = "boot"
    /\ image' = Written(image, Boot \cup Xell)
    /\ entries' = Prepended(Prepended(entries, 1), 2)
    /\ stage' = "payloads"
    /\ UNCHANGED <<block_number, block_map, writing, result, synced,
                   job, cf, target, roomy, slot, mobile, spare>>

\* KHV patch stream and payloads, with their blocks marked in the old map.
WritePayloads ==
    /\ stage = "payloads"
    /\ image' = Written(image, job.payloads)
    /\ block_map' = [x \in Blocks |-> IF x \in job.payloads THEN Reserved ELSE block_map[x]]
    /\ stage' = "root"
    /\ UNCHANGED <<block_number, entries, writing, result, synced,
                   job, cf, target, roomy, slot, mobile, spare>>

-----------------------------------------------------------------------------
(* assemble_logical: file system and mobile blobs. *)

\* A slip: the blocks given in prepare_for_assembly are kept.
UnplacedNone(list) == list

Unplaced(list) ==
    [i \in 1..Len(list) |-> IF list[i].deleted THEN list[i]
                            ELSE [list[i] EXCEPT !.block_number = 0]]

\* A slip: payloads are not protected again after create_defaults.
FreshMapUnprotected == Defaults(target)

\* create_defaults at the target, then protect_range of all that was written.
FreshMap ==
    [x \in Blocks |-> IF x \in Boot \cup job.payloads THEN Reserved ELSE Defaults(target)[x]]

StartRoot ==
    /\ stage = "root"
    /\ \/ /\ entries = <<>>
          /\ stage' = "mobile"
          /\ UNCHANGED <<block_number, entries, block_map, writing>>
       \/ /\ entries # <<>>
          /\ block_number' = target
          /\ block_map' = FreshMap
          /\ entries' = Unplaced(entries)
          /\ writing' = 1
          /\ stage' = "fs"
    /\ UNCHANGED <<image, result, synced, job, cf, target, roomy, slot, mobile, spare>>

PlaceFile ==
    /\ stage = "fs"
    /\ WriteEntry
    /\ stage' = IF result' = "err" THEN "failed" ELSE "fs"
    /\ UNCHANGED <<synced, job, cf, target, roomy, slot, mobile, spare>>

PlaceRoot ==
    /\ stage = "fs"
    /\ WriteRoot
    /\ stage' = IF result' = "err" THEN "failed" ELSE "mobile"
    /\ UNCHANGED <<synced, job, cf, target, roomy, slot, mobile, spare>>

MobileRoom == FreeFrom(block_map, 0)

\* MobileStore::write_logical, one slot: a blob without a block is skipped
\* with no more than a message, and the directory written before is not
\* written again.
PlaceMobile ==
    /\ stage = "mobile"
    /\ slot \in 1..MobileSlots
    /\ slot' = slot + 1
    /\ UNCHANGED <<block_number, entries, writing, result, synced,
                   stage, job, cf, target, roomy, spare>>
    /\ \/ /\ job.blobs[slot] = Zero \/ MobileRoom = {}
          /\ UNCHANGED <<block_map, image, mobile>>
       \/ /\ job.blobs[slot] # Zero /\ MobileRoom # {}
          /\ LET b == Least(MobileRoom)
             IN  /\ mobile' = [mobile EXCEPT ![slot] = b]
                 /\ block_map' = [block_map EXCEPT ![b] = Reserved]
                 /\ image' = [image EXCEPT ![b] = DataBlock(job.blobs[slot])]

-----------------------------------------------------------------------------
(* The Build command: spare areas, and what a scan makes of them. *)

\* collect_spare_meta: a slot without a block is passed over.
HoldsBlob(x) == x # 0 /\ \E k \in 1..MobileSlots : mobile[k] = x

\* A slip: the type of a file block goes over that of a mobile blob.
SpareTypeFilesFirst(x) ==
    IF x >= ReserveStart THEN "erased"
    ELSE IF x = block_number /\ entries # <<>> THEN "root"
    ELSE IF entries # <<>> /\ x >= block_number /\ block_map[x] # Free THEN "file"
    ELSE IF HoldsBlob(x) THEN "mobile"
    ELSE "plain"

\* add_spare: a reserve block stays erased, a mobile page goes before a block
\* of the file system.
SpareType(x) ==
    IF x >= ReserveStart THEN "erased"
    ELSE IF HoldsBlob(x) THEN "mobile"
    ELSE IF x = block_number /\ entries # <<>> THEN "root"
    ELSE IF entries # <<>> /\ x >= block_number /\ block_map[x] # Free THEN "file"
    ELSE "plain"

Finalize ==
    /\ stage = "mobile"
    /\ slot = MobileSlots + 1
    /\ spare' = [x \in Blocks |-> SpareType(x)]
    /\ image' = [x \in Blocks |-> IF x >= ReserveStart THEN DataBlock(Erased) ELSE image[x]]
    /\ result' = "ok"
    /\ stage' = "built"
    /\ UNCHANGED <<block_number, entries, block_map, writing, synced,
                   job, cf, target, roomy, slot, mobile>>

\* scan_physical_with_lba: no block of a built image is bad.
Scan ==
    /\ stage = "built"
    /\ LET roots == {x \in Blocks : spare[x] = "root"}
       IN  \/ /\ roots = {}
              /\ block_number' = 0
              /\ stage' = "bare"
              /\ UNCHANGED synced
           \/ /\ roots # {}
              /\ block_number' = Least(roots)
              /\ stage' = "scanned"
              /\ synced' = TRUE
    /\ entries' = <<>>
    /\ UNCHANGED <<block_map, image, writing, result,
                   job, cf, target, roomy, slot, mobile, spare>>

ReadBack ==
    /\ stage = "scanned"
    /\ Load
    /\ stage' = "loaded"
    /\ UNCHANGED <<job, cf, target, roomy, slot, mobile, spare>>

AssemblyNext ==
    \/ Split1 \/ Split2 \/ Place \/ WriteBoot \/ WritePayloads \/ StartRoot
    \/ PlaceFile \/ PlaceRoot \/ PlaceMobile \/ Finalize
    \/ Scan \/ ReadBack

AssemblySpec == Staging /\ [][AssemblyNext]_allVars

-----------------------------------------------------------------------------
(* Properties. *)

\* The build walks its stages, keeps its variables' types, and puts the root
\* on a block of the file system, below the reserve.
AssemblyTypeOK ==
    /\ stage \in {"split1", "split2", "place", "boot", "payloads", "root", "fs",
                  "mobile", "built", "bare", "scanned", "loaded", "failed"}
    /\ cf \in [1..2 -> Blocks]
    /\ \/ stage \in {"split1", "split2", "place", "failed"} /\ target \in Blocks
       \/ target \in FirstUsable..(ReserveStart - 1)
    /\ roomy \in BOOLEAN
    /\ slot \in 1..(MobileSlots + 1)
    /\ mobile \in [1..MobileSlots -> Blocks]
    /\ DOMAIN spare = Blocks

Assets ==
    {i \in 1..Len(job.files) :
        job.files[i].name \in OwnNames \ {XexpName[1], XexpName[2]}}

\* Reading back a built image gives every file that was staged, with its
\* content, under a name that stays its own on the image, whatever payloads,
\* blobs and patch slots went into the image and wherever the root had to go
\* (assemble_logical, add_spare, read).
FilesReadBack ==
    stage = "loaded" =>
        \A i \in Assets : Extract(job.files[i].name) = <<"some", job.files[i].data>>

\* What no map keeps of boot chain and XeLL: XeLL never is in a map, and the
\* boot chain only is in the map of a new directory.
Unkept(x) == x \notin job.payloads /\ (entries = <<>> \/ x \notin Boot)

\* A finished image has lost a block of boot chain, patch slots, XeLL or
\* payloads where the directory was put on it, which the choice of the root
\* does not rule out; and otherwise at most in the reserve, or at or above
\* the root when no map keeps it.  No file, no further block of the directory
\* and no mobile blob goes over a block that a map keeps (protect_range,
\* allocate_new_block).
BootIntact ==
    stage = "built" =>
        \A x \in Boot \cup Xell \cup job.payloads :
            LET lost == image[x].chunk # BootChunk
            IN  /\ entries # <<>> /\ x = target => lost
                /\ lost => \/ entries # <<>> /\ x = target
                           \/ Unkept(x) /\ x >= block_number
                           \/ x >= ReserveStart

\* A mobile blob that got a block is there in the finished image and typed
\* as one; it is missing only when no block was left for it.
MobileKept ==
    stage = "built" =>
        \A k \in 1..MobileSlots :
            IF mobile[k] = 0 THEN job.blobs[k] = Zero \/ MobileRoom = {}
            ELSE image[mobile[k]].chunk = job.blobs[k] /\ spare[mobile[k]] = "mobile"

\* When the space check finds that the files fit, placing them does not run
\* out of blocks.  It counts neither what lies above the root already nor the
\* overflow of CG1.
RoomIsEnough ==
    stage = "failed" /\ writing = 0 /\ target # 0 =>
        \/ ~roomy
        \/ job.overflow[2] # <<>>
        \/ \E x \in Boot \cup job.payloads : x > target

\* What parse_bootloader_chain appends to the part of CG k in its slot.
FetchedOverflow(k) ==
    LET n == Len(job.overflow[k])
        d == ChainData(block_map, cf[k])
    IN  SubSeq(d, 1, IF n <= Len(d) THEN n ELSE Len(d))

\* The blocks a CF lists hold the rest of its CG: a build says the CG
\* "overflowed to sysupdate.xexp1" in those blocks.
CgRecovered ==
    stage = "loaded" =>
        \A k \in 1..2 : cf[k] # 0 => FetchedOverflow(k) = job.overflow[k]
=============================================================================
