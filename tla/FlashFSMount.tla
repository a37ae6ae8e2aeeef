---------------------------- MODULE FlashFSMount ----------------------------
(***************************************************************************)
(* FlashFS together with FileSystemRoot::read: an image whose directory    *)
(* has been written can be read back into a root, as parsing the built     *)
(* image does.                                                             *)
(***************************************************************************)
EXTENDS FlashFS

\* Names are cut once; what a rebuild starts from was read by Load or made by
\* InjectFile, neither of which gives two live entries one name.
ASSUME MountAssumption ==
    /\ \A n \in Names : DiskName[DiskName[n]] = DiskName[n]
    /\ \A list \in Staged : \A i, j \in DOMAIN list :
          ~list[i].deleted /\ ~list[j].deleted /\ list[i].name = list[j].name => i = j

VARIABLE synced     \* the image is what the last successful write_logical left

mountVars == <<vars, synced>>

\* The map of a raw layout is whole in the first root block.
DiskMap == image[block_number].map

\* The places of the directory: EntriesPerRoot in each block of the root chain, of
\* which those are in use that come before the first empty name.
RootOf(p) == Nth(DiskMap, block_number, ((p - 1) \div EntriesPerRoot) + 1)
PlaceIn(p) == ((p - 1) % EntriesPerRoot) + 1

Slots ==
    {p \in 1..(EntriesPerRoot * Cardinality(Chain(DiskMap, block_number))) :
        PlaceIn(p) <= Len(image[RootOf(p)].files)}

Listed(p) == image[RootOf(p)].files[PlaceIn(p)]

\* A name that was listed before is skipped.
Kept == {p \in Slots : \A q \in Slots : q < p => Listed(q).name # Listed(p).name}

\* get_chain_data.
ChainData(m, b) ==
    [k \in 1..Cardinality(Chain(m, b)) |-> image[Nth(m, b, k)].chunk]

\* A slip: the whole chain is taken for the file.
DiskDataWhole(e) == ChainData(DiskMap, e.block_number)

\* The data of a disk entry: nothing for an empty file, else its chain cut to
\* its size.
DiskData(e) ==
    IF e.block_number = 0 \/ e.size = 0 THEN <<>>
    ELSE LET raw == ChainData(DiskMap, e.block_number)
         IN  IF Len(raw) >= e.size THEN SubSeq(raw, 1, e.size) ELSE raw

Load ==
    /\ Idle
    /\ synced
    /\ entries' = [k \in 1..Cardinality(Kept) |->
                      LET e == Listed(InOrder(Kept, k))
                      IN  [name |-> e.name, block_number |-> e.block_number,
                           size |-> e.size, deleted |-> e.deleted,
                           data |-> DiskData(e)]]
    /\ block_map' = [DiskMap EXCEPT ![LastOf(DiskMap, block_number)] = End]
    /\ result' = "ok"
    /\ UNCHANGED <<block_number, image, writing, synced>>

MountInit == Init /\ synced = FALSE

\* An image that was edited but not written is never read back.
MountNext ==
    \/ /\ Next
       /\ synced' = \/ ~Idle /\ result' = "ok"
                    \/ synced /\ UNCHANGED <<entries, block_map, image>>
    \/ Load

MountSpec == MountInit /\ [][MountNext]_mountVars

-----------------------------------------------------------------------------

\* Reading back a written image gives, under the name the directory keeps of
\* it, the content of a file that was live; a file is missing only when
\* another live file has the same name on the image (write_into, read).
LoadIsGenuine ==
    [][Load =>
        /\ \A i \in Live' : \E j \in Live :
              /\ DiskName[entries[j].name] = entries'[i].name
              /\ entries[j].data = entries'[i].data
        /\ \A j \in Live : \E i \in Live' :
              DiskName[entries[j].name] = entries'[i].name]_mountVars

\* Reading back the image recovers the block map the root was written with,
\* so that nothing is lost or handed out twice later on.
LoadKeepsMap == [][Load => block_map' = block_map]_mountVars

\* The names that stay their own on the image.
OwnNames == {n \in Names : DiskName[n] = n /\ \A o \in Names \ {n} : DiskName[o] # n}

\* What a caller sees of them is a store of names and contents: partial
\* failures, write_logical and read are invisible to it.
Store == INSTANCE FileStore WITH Names <- OwnNames, store <- [n \in OwnNames |-> Extract(n)]

ImplementsFileStore == Store!Spec
=============================================================================
