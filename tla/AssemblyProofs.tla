--------------------------- MODULE AssemblyProofs ---------------------------
(***************************************************************************)
(* What a build guarantees for every image size, layout, list of files,    *)
(* overflow, set of payloads and blobs: the files that were staged are     *)
(* read back from the finished image, boot chain, payloads and blobs stay  *)
(* as written, and the space check is right when it finds room.            *)
(*                                                                         *)
(* The inductive invariant says, stage by stage, what the build has done   *)
(* so far.  Before the root is chosen the entries carry the staged files,  *)
(* whatever their blocks; while files are placed the invariant of FlashFS  *)
(* holds at the root that was chosen; afterwards the map in the root block *)
(* and the map in memory differ only where a blob was put, and that the    *)
(* image is readable needs no block but those the map in the root block    *)
(* has in use.                                                             *)
(***************************************************************************)
EXTENDS Assembly, FlashFSProofs

-----------------------------------------------------------------------------
(* An image stays readable while nothing writes to a block its map uses. *)

LEMMA NthSame ==
    ASSUME NEW m, Sound(m), NEW h \in Blocks, Unlinked(m, h), InUse(m[h]), NEW img, NEW new,
           \A x \in Blocks : InUse(m[x]) => new[x] = img[x],
           NEW k \in 1..Cardinality(Chain(m, h))
    PROVE  new[Nth(m, h, k)] = img[Nth(m, h, k)]
<1>1. Nth(m, h, k) \in Chain(m, h) /\ Chain(m, h) \subseteq Blocks
  BY NthExists, ChainFacts DEF Sound
<1>2. InUse(m[Nth(m, h, k)])
  BY <1>1, ChainInUse
<1> QED
  BY <1>1, <1>2

LEMMA ReadDataKept ==
    ASSUME NEW m, Sound(m), NEW img, NEW new,
           \A x \in Blocks : InUse(m[x]) => new[x] = img[x],
           NEW e, e.block_number \in Blocks, Unlinked(m, e.block_number),
           InUse(m[e.block_number])
    PROVE  ReadData(new, m, e) = ReadData(img, m, e)
<1> DEFINE h == e.block_number
           c == Cardinality(Chain(m, h))
<1>1. \A k \in 1..c : new[Nth(m, h, k)] = img[Nth(m, h, k)]
  BY NthSame
<1>2. [k \in 1..c |-> new[Nth(m, h, k)].chunk] = [k \in 1..c |-> img[Nth(m, h, k)].chunk]
  BY <1>1
<1> QED
  BY <1>2 DEF ReadData

\* The directory block of a place is one of the root chain.
LEMMA PlaceBlock ==
    ASSUME NEW c \in Nat, NEW p \in 1..(EntriesPerRoot * c)
    PROVE  ((p - 1) \div EntriesPerRoot) + 1 \in 1..c
<1>0. EntriesPerRoot \in Nat \ {0}
  BY FlashFSAssumption
<1> PICK e \in Nat \ {0} : e = EntriesPerRoot
  BY <1>0
<1> PICK d : d = (p - 1) \div e
  OBVIOUS
<1> PICK t : t = (p - 1) % e
  OBVIOUS
<1>1. e * c \in Nat
  OBVIOUS
<1>2. d \in Nat /\ t \in 0..(e - 1) /\ p - 1 = e * d + t
  BY <1>1
<1>3. e * d < e * c
  BY <1>1, <1>2
<1>4. d < c
  BY <1>2, <1>3
<1> QED
  BY <1>2, <1>4

LEMMA ReadableKept ==
    ASSUME NEW m, Sound(m), NEW b \in Blocks, Unlinked(m, b), InUse(m[b]), NEW es,
           NEW img, NEW new, \A x \in Blocks : InUse(m[x]) => new[x] = img[x],
           Readable(img, m, b, es)
    PROVE  Readable(new, m, b, es)
<1> DEFINE c == Cardinality(Chain(m, b))
           k(p) == ((p - 1) \div EntriesPerRoot) + 1
<1>1. c \in Nat
  BY PositionStep
<1>2. \A p \in 1..(EntriesPerRoot * c) : k(p) \in 1..c
  BY <1>1, PlaceBlock
<1>3. \A p \in 1..(EntriesPerRoot * c) : new[Nth(m, b, k(p))] = img[Nth(m, b, k(p))]
  BY <1>2, NthSame
<1>4. SlotsIn(new, m, b) = SlotsIn(img, m, b)
  BY <1>3 DEF SlotsIn
<1>5. \A p \in SlotsIn(img, m, b) : ListedIn(new, m, b, p) = ListedIn(img, m, b, p)
  BY <1>3 DEF ListedIn, SlotsIn
<1>6. KeptIn(new, m, b) = KeptIn(img, m, b)
  BY <1>4, <1>5 DEF KeptIn
<1>7. ASSUME NEW p \in SlotsIn(img, m, b)
      PROVE  /\ FileEntry(img, m, b, ListedIn(img, m, b, p))
             /\ ReadData(new, m, ListedIn(img, m, b, p)) = ReadData(img, m, ListedIn(img, m, b, p))
  <2>1. PICK e : e = ListedIn(img, m, b, p)
    OBVIOUS
  <2>2. FileEntry(img, m, b, e)
    BY <2>1 DEF Readable
  <2>3. e.block_number \in Blocks
    BY <2>2 DEF FileEntry, DiskEntry
  <2> QED
    BY <2>1, <2>2, <2>3, ReadDataKept DEF FileEntry
<1>8. \A p \in SlotsIn(img, m, b) : FileEntry(new, m, b, ListedIn(img, m, b, p))
  BY <1>7 DEF FileEntry
<1>9. new[b] = img[b]
  OBVIOUS
<1>10. KeptIn(img, m, b) \subseteq SlotsIn(img, m, b)
  BY KeptFacts
<1> HIDE DEF k, c
<1> QED
  BY <1>4, <1>5, <1>6, <1>7, <1>8, <1>9, <1>10 DEF Readable

-----------------------------------------------------------------------------
(* The invariant. *)

\* The staged files are the first entries, the others hold overflow.
Carries(es) ==
    /\ es \in Seq(Entry) /\ Len(es) >= Len(job.files)
    /\ \A i \in 1..Len(es) : ~es[i].deleted
    /\ \A i \in 1..Len(es) : es[i].size = Len(es[i].data)
    /\ \A i \in 1..Len(job.files) :
          /\ es[i].name = job.files[i].name
          /\ i \in Assets => es[i].data = job.files[i].data
    /\ \A i \in 1..Len(es) : i > Len(job.files) => es[i].name \in {XexpName[1], XexpName[2]}

JobOK == job \in [files : Staged, overflow : Overflows, cf1 : BOOLEAN,
                  payloads : Payloads, phys : PhysRoots, blobs : Mobiles]

VarsOK ==
    /\ block_number \in Blocks /\ DOMAIN image = Blocks /\ IsMap(block_map)

Early == {"split1", "split2", "place", "boot", "payloads", "root"}

\* A map with the payloads protected.
Marked(m) == [x \in Blocks |-> IF x \in job.payloads THEN Reserved ELSE m[x]]

EarlyOK == stage \in Early =>
    /\ block_number \in Starts \ {0} /\ writing = 0 /\ result = "running"
    /\ Carries(entries)
    /\ stage \in {"split1", "split2"} => IInv
    /\ stage \in {"split2", "place", "boot"} /\ job.overflow[1] # <<>> =>
          XexpAt(entries, 1) # {}
    /\ entries = <<>> =>
          block_map = IF stage = "root" THEN Marked(Defaults(block_number))
                                        ELSE Defaults(block_number)

PlacingOK == stage = "fs" =>
    /\ IInv /\ WritingOK /\ Carries(entries) /\ entries # <<>>
    /\ writing \in 1..(Len(entries) + 1) /\ block_number = target
    /\ \A x \in Blocks : x >= ReserveStart => block_map[x] = Reserved

\* The image holds the files of es, in a directory at the target.
OnDisk(es) ==
    /\ block_number = target /\ Carries(es)
    /\ Sound(DiskMap) /\ Unlinked(DiskMap, target) /\ InUse(DiskMap[target])
    /\ Readable(image, DiskMap, target, es)
    /\ \A x \in Blocks : x >= ReserveStart => DiskMap[x] = Reserved

Late == {"mobile", "built"}

DirectoryOK ==
    /\ stage \in Late /\ entries # <<>> =>
          /\ OnDisk(entries)
          /\ \A x \in Blocks : \/ block_map[x] = DiskMap[x]
                               \/ DiskMap[x] = Free /\ block_map[x] = Reserved
    /\ stage = "built" => \A x \in Blocks : spare[x] = "root" => x = target /\ entries # <<>>
    /\ stage = "scanned" => \E es : OnDisk(es)

BlobOK(k) ==
    /\ mobile[k] = 0 /\ k < slot => job.blobs[k] = Zero \/ MobileRoom = {}
    /\ mobile[k] # 0 =>
          /\ k < slot /\ mobile[k] < ReserveStart
          /\ block_map[mobile[k]] = Reserved
          /\ image[mobile[k]].chunk = job.blobs[k]
          /\ entries # <<>> => mobile[k] # target
          /\ stage = "built" => spare[mobile[k]] = "mobile"

NoBlobYet == slot = 1 /\ \A k \in 1..MobileSlots : mobile[k] = 0

BlobsOK ==
    /\ stage \in Early \cup {"fs"} => NoBlobYet
    /\ stage \in Late =>
          /\ writing = 0
          /\ \A x \in Blocks : block_map[x] = Free => x < ReserveStart
          /\ \A k \in 1..MobileSlots : BlobOK(k)
          /\ stage = "built" => slot = MobileSlots + 1

\* What the map protects of boot chain, XeLL and payloads: the boot chain
\* only once a root was chosen, XeLL only below the root.
Held ==
    {x \in job.payloads \cup Boot \cup Xell :
        /\ entries # <<>> => x # block_number
        /\ \/ x \in job.payloads \/ x < block_number
           \/ x \in Boot /\ entries # <<>>}

HeldOK ==
    /\ stage = "payloads" => \A x \in Boot \cup Xell : image[x].chunk = BootChunk
    /\ stage = "root" => \A x \in Boot \cup Xell \cup job.payloads : image[x].chunk = BootChunk
    /\ stage \in {"fs", "mobile"} =>
          \A x \in Held : image[x].chunk = BootChunk /\ block_map[x] = Reserved
    /\ stage = "built" => \A x \in Held : x < ReserveStart => image[x].chunk = BootChunk
    /\ stage \in Late /\ entries # <<>> => image[target].chunk = Zero

AInv ==
    /\ AssemblyTypeOK /\ JobOK /\ VarsOK
    /\ EarlyOK /\ PlacingOK /\ DirectoryOK /\ BlobsOK /\ HeldOK
    /\ FilesReadBack

LEMMA JobFacts ==
    ASSUME JobOK
    PROVE  /\ job.files \in Staged /\ job.overflow \in [1..2 -> Seq(Chunk)]
           /\ job.payloads \in SUBSET Blocks /\ job.phys \in PhysRoots /\ job.phys \in Blocks
           /\ job.blobs \in [1..MobileSlots -> Chunk \cup {Zero}]
BY AssemblyAssumption, FlashFSAssumption DEF JobOK

LEMMA StagedFacts ==
    ASSUME NEW list \in Staged
    PROVE  /\ Len(list) \in Nat /\ DOMAIN list = 1..Len(list)
           /\ \A i \in 1..Len(list) : /\ list[i].name \in Names /\ list[i].data \in Seq(Chunk)
                                      /\ ~list[i].deleted
           /\ \A i, j \in 1..Len(list) : list[i].name = list[j].name => i = j
<1> DEFINE F == [name : Names, data : Contents, deleted : BOOLEAN]
<1>1. list \in Seq(F)
  BY FlashFSAssumption
<1>2. Len(list) \in Nat /\ DOMAIN list = 1..Len(list) /\ \A i \in 1..Len(list) : list[i] \in F
  <2> HIDE DEF F
  <2> QED
    BY <1>1
<1>3. \A i \in 1..Len(list) : list[i].name \in Names /\ list[i].data \in Seq(Chunk)
  BY <1>2, ContentsData
<1>4. \A i \in 1..Len(list) : ~list[i].deleted
  BY <1>2, AssemblyAssumption
<1>5. \A i, j \in 1..Len(list) : list[i].name = list[j].name => i = j
  BY <1>2, <1>4, MountAssumption
<1> QED
  BY <1>2, <1>3, <1>4, <1>5

LEMMA DefaultsFacts ==
    ASSUME NEW b \in Blocks
    PROVE  /\ Defaults(b) \in [Blocks -> {Free, End, Reserved}]
           /\ \A x \in Blocks : Defaults(b)[x] = Free =>
                 x < ReserveStart /\ x > b /\ x >= FirstUsable
           /\ \A x \in Blocks : x < b => Defaults(b)[x] = Reserved
           /\ \A x \in Blocks : x >= ReserveStart /\ x # b => Defaults(b)[x] = Reserved
<1>1. Defaults(b) \in [Blocks -> {Free, End, Reserved}]
  BY DEF Defaults
<1>2. ReserveStart \in Nat /\ FirstUsable \in Nat /\ Blocks \subseteq Nat
  BY SizeAssumption, WordFacts
<1>3. ASSUME NEW x \in Blocks
      PROVE  /\ Defaults(b)[x] = Free => x < ReserveStart /\ x > b /\ x >= FirstUsable
             /\ x < b => Defaults(b)[x] = Reserved
             /\ x >= ReserveStart /\ x # b => Defaults(b)[x] = Reserved
  <2>1. \/ Defaults(b)[x] = Reserved
        \/ Defaults(b)[x] = End /\ x = b
        \/ Defaults(b)[x] = Free /\ ~(x < FirstUsable \/ x < b \/ x >= ReserveStart) /\ x # b
    BY DEF Defaults
  <2> QED
    BY <1>2, <2>1 DEF Free, End, Reserved
<1> QED
  BY <1>1, <1>3

-----------------------------------------------------------------------------
(* Staging. *)

LEMMA StagingAInv == Staging => AInv
<1> SUFFICES ASSUME Staging PROVE AInv
  OBVIOUS
<1>0. /\ job \in [files : Staged, overflow : Overflows, cf1 : BOOLEAN,
                  payloads : Payloads, phys : PhysRoots, blobs : Mobiles]
      /\ block_number \in Starts \ {0}
      /\ block_map = Defaults(block_number)
      /\ entries = [i \in 1..Len(job.files) |->
                       [name |-> job.files[i].name, block_number |-> 0,
                        size |-> Len(job.files[i].data), deleted |-> FALSE,
                        data |-> job.files[i].data]]
      /\ image = [x \in Blocks |-> DataBlock(Erased)]
      /\ writing = 0 /\ result = "running" /\ stage = "split1"
      /\ cf = <<0, 0>> /\ target = 0 /\ roomy = FALSE /\ slot = 1
      /\ mobile = [k \in 1..MobileSlots |-> 0] /\ spare = [x \in Blocks |-> "none"]
  BY DEF Staging
<1>1. JobOK
  BY <1>0 DEF JobOK
<1>2. /\ Len(job.files) \in Nat
      /\ \A i \in 1..Len(job.files) : job.files[i].name \in Names /\ job.files[i].data \in Seq(Chunk)
  BY <1>1, JobFacts, StagedFacts
<1>3. block_number \in Blocks
  BY <1>0, FlashFSAssumption
<1>4. block_map \in [Blocks -> {Free, End, Reserved}] /\ IsMap(block_map)
  <2>1. block_map \in [Blocks -> {Free, End, Reserved}]
    BY <1>0, <1>3, DefaultsFacts
  <2> QED
    BY <2>1 DEF IsMap, Words
<1>5. VarsOK
  BY <1>0, <1>3, <1>4 DEF VarsOK
<1>6. /\ entries \in Seq(Entry) /\ Len(entries) = Len(job.files)
      /\ \A i \in 1..Len(entries) :
            /\ entries[i].name = job.files[i].name /\ entries[i].data = job.files[i].data
            /\ entries[i].block_number = 0 /\ ~entries[i].deleted
            /\ entries[i].size = Len(entries[i].data)
  <2> PICK n \in Nat : n = Len(job.files)
    BY <1>2
  <2>1. \A i \in 1..n : [name |-> job.files[i].name, block_number |-> 0,
                         size |-> Len(job.files[i].data), deleted |-> FALSE,
                         data |-> job.files[i].data] \in Entry
    BY <1>2, ZeroBlock DEF Entry
  <2>2. entries \in [1..n -> Entry]
    BY <1>0, <2>1
  <2>3. entries \in Seq(Entry) /\ Len(entries) = n
    BY <2>2
  <2> QED
    BY <1>0, <2>3
<1>7. Carries(entries)
  BY <1>2, <1>6 DEF Carries
<1>8. IInv
  <2>1. TypeOK
    BY <1>0, <1>3, <1>4, <1>6 DEF TypeOK, IsMap
  <2>2. HeadsOK(block_map, entries, block_number)
    BY <1>6 DEF HeadsOK, Holds
  <2>3. block_map[block_number] # Free
    <3>1. ~(block_number > block_number)
      BY <1>3, WordFacts
    <3> QED
      BY <1>0, <1>3, <3>1, DefaultsFacts
  <2> QED
    BY <1>3, <1>4, <2>1, <2>2, <2>3, NoLinksSound DEF IInv, RootOK
<1>9. EarlyOK
  BY <1>0, <1>7, <1>8 DEF EarlyOK
<1>10. AssemblyTypeOK
  <2>1. cf \in [1..2 -> Blocks]
    BY <1>0, ZeroBlock
  <2>2. mobile \in [1..MobileSlots -> Blocks] /\ slot \in 1..(MobileSlots + 1)
    BY <1>0, ZeroBlock, AssemblyAssumption
  <2> QED
    BY <1>0, <2>1, <2>2, ZeroBlock DEF AssemblyTypeOK
<1> QED
  BY <1>0, <1>1, <1>5, <1>9, <1>10
  DEF AInv, PlacingOK, DirectoryOK, BlobsOK, HeldOK, FilesReadBack, Late, Early, NoBlobYet

-----------------------------------------------------------------------------
(* prepare_for_assembly. *)

Put(s, i, e) == [s EXCEPT ![i] = e]

LEMMA PutFacts ==
    ASSUME NEW S, NEW s \in Seq(S), NEW i \in 1..Len(s), NEW e \in S
    PROVE  /\ Put(s, i, e) \in Seq(S) /\ Len(Put(s, i, e)) = Len(s) /\ Put(s, i, e)[i] = e
           /\ \A j \in 1..Len(s) : j # i => Put(s, i, e)[j] = s[j]
BY DEF Put

\* An entry with other data.
WithData(es, i, d) == [es EXCEPT ![i].data = d, ![i].size = Len(d)]

LEMMA WithDataFacts ==
    ASSUME NEW es \in Seq(Entry), NEW i \in 1..Len(es), NEW d \in Seq(Chunk)
    PROVE  LET fs == WithData(es, i, d) IN
           /\ fs \in Seq(Entry) /\ Len(fs) = Len(es)
           /\ \A j \in 1..Len(es) : j # i => fs[j] = es[j]
           /\ fs[i].name = es[i].name /\ fs[i].data = d /\ fs[i].size = Len(d)
           /\ fs[i].deleted = es[i].deleted
<1>1. es[i] \in Entry /\ Len(d) \in Nat
  OBVIOUS
<1>2. PICK g : g = [[es[i] EXCEPT !.data = d] EXCEPT !.size = Len(d)]
  OBVIOUS
<1>3. /\ g \in Entry /\ g.name = es[i].name /\ g.data = d /\ g.size = Len(d)
      /\ g.deleted = es[i].deleted
  BY <1>1, <1>2 DEF Entry
<1>4. WithData(es, i, d) = Put(es, i, g)
  <2>1. PICK n \in Nat : n = Len(d)
    BY <1>1
  <2>2. PICK fs : fs = [es EXCEPT ![i].data = d, ![i].size = n]
    OBVIOUS
  <2>3. fs = [es EXCEPT ![i] = g]
    BY <1>1, <1>2, <2>1, <2>2 DEF Entry
  <2>4. WithData(es, i, d) = fs
    BY <2>1, <2>2, Zenon DEF WithData
  <2>5. Put(es, i, g) = fs
    BY <2>3, Zenon DEF Put
  <2> QED
    BY <2>4, <2>5, Zenon
<1>5. /\ Put(es, i, g) \in Seq(Entry) /\ Len(Put(es, i, g)) = Len(es) /\ Put(es, i, g)[i] = g
      /\ \A j \in 1..Len(es) : j # i => Put(es, i, g)[j] = es[j]
  BY <1>3 DEF Put
<1> QED
  BY <1>3, <1>4, <1>5

LEMMA SeqJoin ==
    ASSUME NEW S, NEW s \in Seq(S), NEW t \in Seq(S)
    PROVE  s \o t \in Seq(S) /\ Len(s \o t) \in Nat /\ Len(s \o t) = Len(s) + Len(t)
OBVIOUS

LEMMA NotEmpty ==
    ASSUME NEW S, NEW s \in Seq(S), NEW i \in 1..Len(s)
    PROVE  s # <<>>
OBVIOUS

LEMMA XexpNames == XexpName[1] \in Names /\ XexpName[2] \in Names
BY AssemblyAssumption

LEMMA CarriesMore ==
    ASSUME JobOK, NEW es, Carries(es), NEW e \in Entry, ~e.deleted, e.size = Len(e.data),
           e.name \in {XexpName[1], XexpName[2]}
    PROVE  /\ Carries(Append(es, e)) /\ Append(es, e) # <<>>
           /\ Len(Append(es, e)) = Len(es) + 1 /\ Append(es, e)[Len(es) + 1] = e
           /\ \A i \in 1..Len(es) : Append(es, e)[i] = es[i]
<1>0. Len(job.files) \in Nat
  BY JobFacts, StagedFacts
<1> DEFINE fs == Append(es, e)
<1>1. es \in Seq(Entry) /\ Len(es) \in Nat /\ Len(es) >= Len(job.files)
  BY DEF Carries
<1>2. /\ fs \in Seq(Entry) /\ Len(fs) = Len(es) + 1 /\ fs # <<>>
      /\ fs[Len(es) + 1] = e /\ \A i \in 1..Len(es) : fs[i] = es[i]
  BY <1>1
<1>3. \A i \in 1..(Len(es) + 1) : i \in 1..Len(es) \/ i = Len(es) + 1
  BY <1>1
<1>4. \A i \in 1..Len(job.files) : i \in 1..Len(es)
  BY <1>0, <1>1
<1> HIDE DEF fs
<1>5. \A i \in 1..Len(fs) :
         /\ ~fs[i].deleted /\ fs[i].size = Len(fs[i].data)
         /\ i > Len(job.files) => fs[i].name \in {XexpName[1], XexpName[2]}
  BY <1>2, <1>3 DEF Carries
<1>6. \A i \in 1..Len(job.files) :
         /\ fs[i].name = job.files[i].name
         /\ i \in Assets => fs[i].data = job.files[i].data
  BY <1>2, <1>4 DEF Carries
<1>7. fs \in Seq(Entry) /\ Len(fs) >= Len(job.files)
  BY <1>0, <1>1, <1>2
<1>8. Carries(fs)
  BY <1>5, <1>6, <1>7 DEF Carries
<1> QED
  BY <1>2, <1>8 DEF fs

\* One overflow becomes a file, or needs none, or the build fails.
LEMMA SplitAInv ==
    ASSUME AInv, NEW k \in 1..2, NEW here, NEW next, Split(k, here, next),
           \/ k = 1 /\ here = "split1" /\ next = "split2"
           \/ k = 2 /\ here = "split2" /\ next = "place"
    PROVE  AInv'
<1>0. /\ AssemblyTypeOK /\ JobOK /\ VarsOK /\ stage = here /\ here \in Early
      /\ IInv /\ Carries(entries) /\ block_number \in Starts \ {0}
      /\ writing = 0 /\ result = "running"
      /\ entries = <<>> => block_map = Defaults(block_number)
      /\ k = 2 /\ job.overflow[1] # <<>> => XexpAt(entries, 1) # {}
  BY DEF AInv, Split, EarlyOK, Early
<1>5. NoBlobYet
  BY <1>0 DEF AInv, BlobsOK
<1>1. /\ UNCHANGED <<block_number, writing, synced, job, target, roomy, slot, mobile, spare>>
      /\ here \in {"split1", "split2"} /\ next \in {"split2", "place"}
  BY DEF Split
<1>2. JobOK'
  BY <1>0, <1>1 DEF JobOK
<1>3. CASE job.overflow[k] = <<>> /\ stage' = next
           /\ UNCHANGED <<entries, block_map, image, result, cf>>
  <2>1. VarsOK' /\ AssemblyTypeOK'
    BY <1>0, <1>1, <1>3 DEF VarsOK, AssemblyTypeOK
  <2>2. Carries(entries)'
    BY <1>0, <1>1, <1>3 DEF Carries, Assets, OwnNames
  <2>3. IInv'
    BY <1>0, <1>1, <1>3 DEF IInv, TypeOK
  <2>4. XexpAt(entries, 1)' = XexpAt(entries, 1)
    BY <1>3 DEF XexpAt
  <2>5. next = "place" => k = 2
    OBVIOUS
  <2>6. k = 1 => job.overflow[1] = <<>>
    BY <1>3
  <2>7. EarlyOK'
    BY <1>0, <1>1, <1>3, <2>2, <2>3, <2>4, <2>6 DEF EarlyOK, Early
  <2> QED
    BY <1>1, <1>2, <1>3, <1>5, <2>1, <2>7
    DEF AInv, PlacingOK, DirectoryOK, BlobsOK, HeldOK, FilesReadBack, Late, Early, NoBlobYet
<1>4. CASE job.overflow[k] # <<>>
  <2> DEFINE d == job.overflow[k]
  <2> PICK s : s = SetEntryData(0, d)
    OBVIOUS
  <2> DEFINE new == [name |-> XexpName[k], block_number |-> s.first, size |-> Len(d),
                     deleted |-> FALSE, data |-> d]
  <2>1. d \in Seq(Chunk) /\ Len(d) \in Nat
    BY <1>0, JobFacts
  <2>2. SetEntryOK(0, s)
    BY <1>0, <2>1, ZeroBlock, SetEntryFacts
  <2>3. /\ block_map' = s.map /\ image' = s.image
        /\ stage' = IF s.ok THEN next ELSE "failed"
        /\ result' = IF s.ok THEN result ELSE "err"
        /\ cf' = IF s.ok THEN [cf EXCEPT ![k] = s.first] ELSE cf
        /\ entries' = IF s.ok THEN Append(entries, new) ELSE entries
    BY <1>4 DEF Split
  <2>4. XexpName[k] \in Names /\ XexpName[k] \in {XexpName[1], XexpName[2]}
    BY XexpNames
  <2>5. VarsOK'
    BY <1>0, <1>1, <2>2, <2>3 DEF VarsOK, SetEntryOK, Sound
  <2>6. AssemblyTypeOK'
    <3>1. cf' \in [1..2 -> Blocks]
      BY <1>0, <2>2, <2>3 DEF AssemblyTypeOK, SetEntryOK
    <3> QED
      BY <1>0, <1>1, <2>3, <3>1 DEF AssemblyTypeOK
  <2>7. IInv'
    <3>1. result' \in {"ok", "err", "running"}
      BY <1>0, <2>3
    <3> QED
      BY <1>0, <1>1, <2>1, <2>3, <2>4, <3>1, AddIInv
  <2>8. CASE s.ok
    <3>1. new \in Entry
      BY <2>1, <2>2, <2>4 DEF Entry, SetEntryOK
    <3> PICK e : e = new
      OBVIOUS
    <3>2. e \in Entry /\ e.name = XexpName[k] /\ ~e.deleted /\ e.size = Len(e.data)
      BY <3>1
    <3>3. entries' = Append(entries, e)
      BY <2>3, <2>8
    <3> HIDE DEF new
    <3>4. /\ Carries(entries') /\ entries' # <<>> /\ Len(entries') = Len(entries) + 1
          /\ entries'[Len(entries) + 1] = e
          /\ \A i \in 1..Len(entries) : entries'[i] = entries[i]
      BY <1>0, <2>4, <3>2, <3>3, CarriesMore
    <3>5. Carries(entries)'
      BY <1>1, <3>4 DEF Carries, Assets, OwnNames
    <3>6. Len(entries) \in Nat
      BY <1>0 DEF Carries
    <3>7. XexpAt(entries, k)' # {}
      <4>1. Len(entries) + 1 \in XexpAt(entries, k)'
        BY <3>2, <3>4, <3>6 DEF XexpAt
      <4> QED
        BY <4>1
    <3>8. XexpAt(entries, 1) # {} => XexpAt(entries, 1)' # {}
      <4>1. \A i \in XexpAt(entries, 1) : i \in XexpAt(entries, 1)'
        BY <3>4, <3>6 DEF XexpAt
      <4> QED
        BY <4>1
    <3>9. job.overflow[1] # <<>> => XexpAt(entries, 1)' # {}
      BY <1>0, <3>7, <3>8
    <3>10. EarlyOK'
      BY <1>0, <1>1, <2>3, <2>7, <2>8, <3>4, <3>5, <3>9 DEF EarlyOK, Early
    <3> QED
      BY <1>1, <1>2, <1>5, <2>3, <2>5, <2>6, <2>8, <3>10
      DEF AInv, PlacingOK, DirectoryOK, BlobsOK, HeldOK, FilesReadBack, Late, Early, NoBlobYet
  <2>9. CASE ~s.ok
    BY <1>2, <2>3, <2>5, <2>6, <2>9
    DEF AInv, EarlyOK, Early, PlacingOK, DirectoryOK, BlobsOK, HeldOK, FilesReadBack, Late, NoBlobYet
  <2> QED
    BY <2>8, <2>9
<1> QED
  BY <1>3, <1>4 DEF Split

-----------------------------------------------------------------------------
(* Sums over the entries. *)

BlocksIn(es, S) == UNION {BlocksOf(es, i) : i \in S}

LEMMA SumFacts ==
    ASSUME NEW es \in Seq(Entry), NEW S \in SUBSET (1..Len(es))
    PROVE  IsFiniteSet(BlocksIn(es, S)) /\ Cardinality(BlocksIn(es, S)) \in Nat
<1>1. IsFiniteSet(S)
  <2>1. IsFiniteSet(1..Len(es))
    BY FS_Interval
  <2> QED
    BY <2>1, FS_Subset
<1> DEFINE T == {BlocksOf(es, i) : i \in S}
           f == [i \in S |-> BlocksOf(es, i)]
<1>2. f \in Surjection(S, T)
  BY DEF Surjection
<1>3. IsFiniteSet(T)
  <2> HIDE DEF f, T
  <2> QED
    BY <1>1, <1>2, FS_Surjection
<1>4. ASSUME NEW i \in S PROVE IsFiniteSet(BlocksOf(es, i))
  <2>1. es[i] \in Entry
    OBVIOUS
  <2> PICK n \in Nat : n = BlocksNeeded(es[i].data)
    BY <2>1, NeededFacts DEF Entry
  <2>2. IsFiniteSet(1..n)
    BY FS_Interval
  <2>3. IsFiniteSet({i})
    BY FS_Singleton
  <2>4. IsFiniteSet({i} \X (1..n))
    BY <2>2, <2>3, FS_Product
  <2> QED
    BY <2>4 DEF BlocksOf
<1>5. \A B \in T : IsFiniteSet(B)
  BY <1>4
<1> HIDE DEF T
<1>6. IsFiniteSet(UNION T)
  BY <1>3, <1>5, FS_UNION
<1> QED
  BY <1>6, FS_CardinalityType DEF BlocksIn, T

LEMMA SumAdd ==
    ASSUME NEW es \in Seq(Entry), NEW S \in SUBSET (1..Len(es)), NEW i \in 1..Len(es), i \notin S
    PROVE  Cardinality(BlocksIn(es, S \cup {i})) =
              Cardinality(BlocksIn(es, S)) + BlocksNeeded(es[i].data)
<1>1. es[i] \in Entry
  OBVIOUS
<1> PICK n \in Nat : n = BlocksNeeded(es[i].data)
  BY <1>1, NeededFacts DEF Entry
<1> DEFINE B == BlocksIn(es, S)
           C == {i} \X (1..n)
<1>2. BlocksIn(es, S \cup {i}) = B \cup C
  <2>1. BlocksOf(es, i) = C
    BY DEF BlocksOf
  <2>2. {BlocksOf(es, j) : j \in S \cup {i}} = {BlocksOf(es, j) : j \in S} \cup {BlocksOf(es, i)}
    OBVIOUS
  <2> QED
    BY <2>1, <2>2 DEF BlocksIn
<1>3. B \cap C = {}
  BY DEF BlocksIn, BlocksOf
<1>4. IsFiniteSet(B) /\ Cardinality(B) \in Nat
  BY SumFacts
<1>5. IsFiniteSet(C) /\ Cardinality(C) = n
  <2>1. IsFiniteSet(1..n) /\ Cardinality(1..n) = n
    BY FS_Interval
  <2>2. IsFiniteSet({i}) /\ Cardinality({i}) = 1
    BY FS_Singleton
  <2> QED
    BY <2>1, <2>2, FS_Product
<1> HIDE DEF B, C
<1>6. Cardinality(B \cup C) = Cardinality(B) + Cardinality(C) - Cardinality(B \cap C)
  BY <1>4, <1>5, FS_Union
<1>7. Cardinality(B \cap C) = 0
  BY <1>3, FS_EmptySet
<1>8. Cardinality(B \cup C) = Cardinality(B) + n
  BY <1>4, <1>5, <1>6, <1>7
<1> QED
  BY <1>2, <1>8 DEF B

LEMMA SumSame ==
    ASSUME NEW es, NEW fs, NEW S, \A i \in S : BlocksNeeded(es[i].data) = BlocksNeeded(fs[i].data)
    PROVE  BlocksIn(es, S) = BlocksIn(fs, S)
<1>1. \A i \in S : BlocksOf(es, i) = BlocksOf(fs, i)
  BY DEF BlocksOf
<1> QED
  BY <1>1 DEF BlocksIn

LEMMA DataBlocksIsSum ==
    ASSUME NEW es, \A i \in 1..Len(es) : ~es[i].deleted
    PROVE  DataBlocks(es) = Cardinality(BlocksIn(es, 1..Len(es)))
<1>1. {j \in 1..Len(es) : ~es[j].deleted} = 1..Len(es)
  OBVIOUS
<1> QED
  BY <1>1 DEF DataBlocks, BlocksIn

-----------------------------------------------------------------------------
(* assemble_logical, up to the file system. *)

\* position() finds the first entry of that name.
LEMMA XexpFirst ==
    ASSUME NEW es \in Seq(Entry), NEW k, XexpAt(es, k) # {}
    PROVE  /\ First(XexpAt(es, k)) \in XexpAt(es, k)
           /\ First(XexpAt(es, k)) \in 1..Len(es)
<1>1. XexpAt(es, k) \subseteq 1..Len(es) /\ XexpAt(es, k) \subseteq Nat
  BY DEF XexpAt
<1>2. Least(XexpAt(es, k)) \in XexpAt(es, k) /\ \A y \in XexpAt(es, k) : Least(XexpAt(es, k)) <= y
  BY <1>1, LeastFact
<1> QED
  BY <1>1, <1>2 DEF First

LEMMA RequiredFacts ==
    ASSUME JobOK, Carries(entries), job.overflow[1] # <<>> => XexpAt(entries, 1) # {}
    PROVE  /\ DataBlocks(entries) \in Nat /\ ExtraBlocks \in Int
           /\ RootBlocksNeeded \in Nat /\ RootBlocksNeeded >= 1
           /\ Required \in Int
<1>1. entries \in Seq(Entry) /\ Len(entries) \in Nat
  BY DEF Carries
<1>2. DataBlocks(entries) \in Nat
  BY <1>1, DataBlocksIsSum, SumFacts DEF Carries
<1>3. RootBlocksNeeded \in Nat /\ RootBlocksNeeded >= 1
  BY <1>1, RootNeeds
<1>4. ExtraBlocks \in Int
  <2>1. CASE job.overflow[1] = <<>>
    BY <2>1 DEF ExtraBlocks
  <2>2. CASE job.overflow[1] # <<>>
    <3> PICK i : i = First(XexpAt(entries, 1))
      OBVIOUS
    <3>0. XexpAt(entries, 1) # {}
      BY <2>2
    <3>1. i \in 1..Len(entries)
      BY <1>1, <3>0, XexpFirst
    <3>2. entries[i].data \in Seq(Chunk)
      <4>1. entries[i] \in Entry
        BY <1>1, <3>1
      <4> QED
        BY <4>1 DEF Entry
    <3>3. job.overflow[1] \in Seq(Chunk) /\ job.overflow[1] \o entries[i].data \in Seq(Chunk)
      BY <3>2, JobFacts
    <3>4. BlocksNeeded(entries[i].data) \in Nat
          /\ BlocksNeeded(job.overflow[1] \o entries[i].data) \in Nat
      BY <3>2, <3>3, NeededFacts
    <3> QED
      BY <2>2, <3>4 DEF ExtraBlocks
  <2> QED
    BY <2>1, <2>2
<1> QED
  BY <1>2, <1>3, <1>4 DEF Required

LEMMA TargetFits ==
    ASSUME AInv, Place
    PROVE  target' \in FirstUsable..(ReserveStart - 1)
<1>0. /\ JobOK /\ Carries(entries) /\ block_number \in Starts \ {0}
      /\ job.overflow[1] # <<>> => XexpAt(entries, 1) # {}
  BY DEF AInv, EarlyOK, Place, Early
<1>1. /\ FirstUsable \in Nat /\ ReserveStart \in Nat /\ N \in Nat /\ ConfigBlocks \in Nat
      /\ MinRoot[SlotsCounted] \in Nat
  <2>1. SlotsCounted \in 1..2
    BY DEF SlotsCounted
  <2>2. MinRoot[SlotsCounted] \in Blocks
    BY <2>1, AssemblyAssumption
  <2>3. FirstUsable \in Nat /\ ReserveStart \in Nat /\ N \in Nat /\ ConfigBlocks \in Nat
    BY SizeAssumption
  <2>4. MinRoot[SlotsCounted] \in Nat
    BY <2>2, <2>3 DEF Blocks
  <2> QED
    BY <2>3, <2>4
<1>2. Wanted \in FirstUsable..(ReserveStart - 1)
  <2> DEFINE t == IF job.phys > 0 THEN job.phys ELSE block_number
  <2>1. job.phys \in PhysRoots /\ job.phys \in Nat
    BY <1>0, JobFacts, WordFacts
  <2>2. t \in FirstUsable..(N - 1)
    <3>1. CASE job.phys > 0
      BY <2>1, <3>1, AssemblyAssumption
    <3>2. CASE ~(job.phys > 0)
      BY <1>0, <3>2, AssemblyAssumption
    <3> QED
      BY <3>1, <3>2
  <2>3. Wanted = IF t >= ReserveStart THEN ForcedRoot ELSE t
    BY DEF Wanted
  <2> HIDE DEF t
  <2> QED
    BY <1>1, <2>2, <2>3, AssemblyAssumption
<1>3. Lowered \in Nat /\ Lowered >= FirstUsable
  <2>1. Required \in Int
    BY <1>0, RequiredFacts
  <2>2. ConfigStart \in Nat
    BY <1>1 DEF ConfigStart, Minus
  <2>3. Minus(ConfigStart, Required) \in Nat
    BY <2>1, <2>2 DEF Minus
  <2> QED
    BY <1>1, <2>3 DEF Lowered, MaxOf
<1>4. target' = Wanted \/ (target' = Lowered /\ Lowered < Wanted)
  BY DEF Place
<1> QED
  BY <1>1, <1>2, <1>3, <1>4

LEMMA PlaceAInv ==
    ASSUME AInv, Place
    PROVE  AInv'
<1>0. /\ AssemblyTypeOK /\ JobOK /\ VarsOK /\ stage = "place" /\ stage' = "boot" /\ EarlyOK
      /\ UNCHANGED <<block_number, entries, block_map, image, writing, result, synced,
                     job, cf, slot, mobile, spare>>
      /\ roomy' \in BOOLEAN
  BY DEF AInv, Place, mountVars, vars
<1>1. AssemblyTypeOK'
  BY <1>0, TargetFits DEF AssemblyTypeOK
<1>2. JobOK' /\ VarsOK'
  BY <1>0 DEF JobOK, VarsOK
<1>3. Carries(entries)' <=> Carries(entries)
  BY <1>0 DEF Carries, Assets, OwnNames
<1>4. EarlyOK'
  BY <1>0, <1>3 DEF EarlyOK, Early, XexpAt
<1> QED
  BY <1>0, <1>1, <1>2, <1>4
  DEF AInv, PlacingOK, DirectoryOK, BlobsOK, HeldOK, FilesReadBack, Late, Early, NoBlobYet

\* What goes in front of a file, or becomes one, leaves the staged files alone.
LEMMA PrependedFacts ==
    ASSUME JobOK, NEW es, Carries(es), NEW k \in 1..2
    PROVE  /\ Carries(Prepended(es, k))
           /\ Prepended(es, k) = <<>> => es = <<>>
<1> DEFINE d == job.overflow[k]
<1>0. d \in Seq(Chunk) /\ Len(d) \in Nat
  BY JobFacts
<1>1. es \in Seq(Entry) /\ Len(es) \in Nat
  BY DEF Carries
<1>2. XexpName[k] \in Names /\ XexpName[k] \in {XexpName[1], XexpName[2]}
  BY XexpNames
<1>3. CASE d = <<>>
  BY <1>3 DEF Prepended
<1>4. CASE d # <<>> /\ XexpAt(es, k) = {}
  <2> PICK e : e = [name |-> XexpName[k], block_number |-> 0, size |-> Len(d),
                    deleted |-> FALSE, data |-> d]
    OBVIOUS
  <2>1. /\ e \in Entry /\ ~e.deleted /\ e.size = Len(e.data)
        /\ e.name \in {XexpName[1], XexpName[2]}
    BY <1>0, <1>2, ZeroBlock DEF Entry
  <2>2. Prepended(es, k) = Append(es, e)
    BY <1>4 DEF Prepended
  <2> QED
    BY <2>1, <2>2, CarriesMore
<1>5. CASE d # <<>> /\ XexpAt(es, k) # {}
  <2>12. PICK i : i = First(XexpAt(es, k))
    OBVIOUS
  <2>1. i \in XexpAt(es, k) /\ i \in 1..Len(es)
    BY <1>1, <1>5, <2>12, XexpFirst
  <2>2. ~es[i].deleted /\ es[i].name = XexpName[k]
    BY <2>1 DEF XexpAt
  <2>3. es[i] \in Entry
    BY <1>1, <2>1
  <2>13. PICK f : f = d \o es[i].data
    OBVIOUS
  <2>4. f \in Seq(Chunk) /\ Len(f) \in Nat
    <3>1. es[i].data \in Seq(Chunk)
      BY <2>3 DEF Entry
    <3> HIDE DEF d
    <3> QED
      BY <1>0, <2>13, <3>1, SeqJoin
  <2> DEFINE fs == WithData(es, i, f)
  <2>5. Prepended(es, k) = fs
    BY <1>5, <2>12, <2>13 DEF Prepended, WithData
  <2>6. /\ fs \in Seq(Entry) /\ Len(fs) = Len(es)
        /\ \A j \in 1..Len(es) : j # i => fs[j] = es[j]
        /\ fs[i].name = es[i].name /\ fs[i].data = f /\ fs[i].size = Len(f)
        /\ fs[i].deleted = es[i].deleted
    BY <1>1, <2>1, <2>4, WithDataFacts
  <2> HIDE DEF fs
  <2>7. i \notin Assets
    BY <1>2, <2>1, <2>2 DEF Assets, Carries
  <2>8. \A j \in 1..Len(fs) :
           /\ ~fs[j].deleted /\ fs[j].size = Len(fs[j].data) /\ fs[j].name = es[j].name
    BY <2>2, <2>6 DEF Carries
  <2>9. \A j \in 1..Len(job.files) :
           /\ fs[j].name = job.files[j].name
           /\ j \in Assets => fs[j].data = job.files[j].data
    <3> SUFFICES ASSUME NEW j \in 1..Len(job.files)
                 PROVE  /\ fs[j].name = job.files[j].name
                        /\ j \in Assets => fs[j].data = job.files[j].data
      OBVIOUS
    <3>1. j \in 1..Len(es)
      BY <1>1, JobFacts, StagedFacts DEF Carries
    <3>2. es[j].name = job.files[j].name /\ (j \in Assets => es[j].data = job.files[j].data)
      BY DEF Carries
    <3> QED
      BY <2>6, <2>7, <2>8, <3>1, <3>2
  <2>10. Carries(fs)
    BY <2>6, <2>8, <2>9 DEF Carries
  <2>11. fs # <<>>
    <3>1. i \in 1..Len(fs)
      BY <2>1, <2>6
    <3> QED
      BY <2>6, <3>1, NotEmpty
  <2> QED
    BY <2>5, <2>10, <2>11
<1> QED
  BY <1>3, <1>4, <1>5

LEMMA WrittenFacts ==
    ASSUME NEW img, NEW S
    PROVE  /\ DOMAIN Written(img, S) = Blocks
           /\ \A x \in Blocks : x \in S => Written(img, S)[x].chunk = BootChunk
           /\ \A x \in Blocks : x \notin S => Written(img, S)[x] = img[x]
BY DEF Written, DataBlock

LEMMA WriteBootAInv ==
    ASSUME AInv, WriteBoot
    PROVE  AInv'
<1>0. /\ AssemblyTypeOK /\ JobOK /\ VarsOK /\ stage = "boot" /\ stage' = "payloads" /\ EarlyOK
      /\ image' = Written(image, Boot \cup Xell)
      /\ entries' = Prepended(Prepended(entries, 1), 2)
      /\ UNCHANGED <<block_number, block_map, writing, result, synced,
                     job, cf, target, roomy, slot, mobile, spare>>
  BY DEF AInv, WriteBoot
<1>1. AssemblyTypeOK' /\ JobOK'
  BY <1>0 DEF AssemblyTypeOK, JobOK
<1>2. VarsOK' /\ \A x \in Boot \cup Xell : image'[x].chunk = BootChunk
  BY <1>0, WrittenFacts, AssemblyAssumption DEF VarsOK
<1>3. Carries(entries)
  BY <1>0 DEF EarlyOK, Early
<1>4. Carries(entries') /\ (entries' = <<>> => entries = <<>>)
  <2>1. /\ Carries(Prepended(entries, 1))
        /\ Prepended(entries, 1) = <<>> => entries = <<>>
    BY <1>0, <1>3, PrependedFacts
  <2> PICK es : es = Prepended(entries, 1)
    OBVIOUS
  <2>2. Carries(Prepended(es, 2)) /\ (Prepended(es, 2) = <<>> => es = <<>>)
    BY <1>0, <2>1, PrependedFacts
  <2> QED
    BY <1>0, <2>1, <2>2
<1>5. Carries(entries)'
  BY <1>0, <1>4 DEF Carries, Assets, OwnNames
<1>6. EarlyOK'
  BY <1>0, <1>4, <1>5 DEF EarlyOK, Early
<1>7. HeldOK'
  BY <1>0, <1>2 DEF HeldOK, Late
<1> QED
  BY <1>0, <1>1, <1>2, <1>6, <1>7
  DEF AInv, PlacingOK, DirectoryOK, BlobsOK, FilesReadBack, Late, Early, NoBlobYet

LEMMA WritePayloadsAInv ==
    ASSUME AInv, WritePayloads
    PROVE  AInv'
<1>0. /\ AssemblyTypeOK /\ JobOK /\ VarsOK /\ stage = "payloads" /\ stage' = "root"
      /\ EarlyOK /\ HeldOK
      /\ image' = Written(image, job.payloads)
      /\ block_map' = Marked(block_map)
      /\ UNCHANGED <<block_number, entries, writing, result, synced,
                     job, cf, target, roomy, slot, mobile, spare>>
  BY DEF AInv, WritePayloads, Marked
<1>1. AssemblyTypeOK' /\ JobOK'
  BY <1>0 DEF AssemblyTypeOK, JobOK
<1>2. IsMap(block_map')
  BY <1>0 DEF VarsOK, IsMap, Marked, Words
<1>3. VarsOK'
  BY <1>0, <1>2, WrittenFacts DEF VarsOK
<1>4. \A x \in Boot \cup Xell \cup job.payloads : image'[x].chunk = BootChunk
  <2>1. Boot \cup Xell \cup job.payloads \subseteq Blocks
    BY <1>0, JobFacts, AssemblyAssumption
  <2>2. \A x \in Boot \cup Xell : image[x].chunk = BootChunk
    BY <1>0 DEF HeldOK
  <2> QED
    BY <1>0, <2>1, <2>2, WrittenFacts
<1>5. Carries(entries)' <=> Carries(entries)
  BY <1>0 DEF Carries, Assets, OwnNames
<1>6. entries = <<>> => block_map' = Marked(Defaults(block_number))'
  BY <1>0 DEF EarlyOK, Early, Marked, Defaults
<1>7. EarlyOK'
  BY <1>0, <1>5, <1>6 DEF EarlyOK, Early
<1>8. HeldOK'
  BY <1>0, <1>4 DEF HeldOK, Late
<1> QED
  BY <1>0, <1>1, <1>3, <1>7, <1>8
  DEF AInv, PlacingOK, DirectoryOK, BlobsOK, FilesReadBack, Late, Early, NoBlobYet


-----------------------------------------------------------------------------
(* The root is chosen. *)

LEMMA UnplacedFacts ==
    ASSUME NEW es, Carries(es), NEW us, us = Unplaced(es)
    PROVE  /\ Carries(us) /\ Len(us) = Len(es) /\ (us = <<>> => es = <<>>)
           /\ \A i \in 1..Len(us) : /\ us[i].block_number = 0
                                    /\ us[i].data = es[i].data /\ us[i].name = es[i].name
<1>1. es \in Seq(Entry) /\ \A i \in 1..Len(es) : ~es[i].deleted
  BY DEF Carries
<1> PICK n \in Nat : n = Len(es)
  BY <1>1
<1> DEFINE e(i) == [es[i] EXCEPT !.block_number = 0]
<1>2. \A i \in 1..n :
         /\ e(i) \in Entry /\ e(i).name = es[i].name /\ e(i).data = es[i].data
         /\ e(i).size = es[i].size /\ e(i).deleted = es[i].deleted /\ e(i).block_number = 0
  <2> SUFFICES ASSUME NEW i \in 1..n
               PROVE  /\ e(i) \in Entry /\ e(i).name = es[i].name /\ e(i).data = es[i].data
                      /\ e(i).size = es[i].size /\ e(i).deleted = es[i].deleted
                      /\ e(i).block_number = 0
    OBVIOUS
  <2>1. es[i] \in Entry
    BY <1>1
  <2> QED
    BY <2>1, ZeroBlock DEF Entry
<1>3. us = [i \in 1..n |-> e(i)]
  BY <1>1 DEF Unplaced
<1> HIDE DEF e
<1>4. us \in [1..n -> Entry]
  BY <1>2, <1>3
<1>5. us \in Seq(Entry) /\ Len(us) = n
  BY <1>4
<1>6. \A i \in 1..n : us[i] = e(i)
  BY <1>3
<1>7. us = <<>> => es = <<>>
  BY <1>1, <1>5
<1>8. \A i \in 1..n :
         /\ us[i].name = es[i].name /\ us[i].data = es[i].data /\ us[i].size = es[i].size
         /\ us[i].deleted = es[i].deleted /\ us[i].block_number = 0
  BY <1>2, <1>6
<1>9. \A i \in 1..Len(job.files) : i \in 1..n
  BY JobFacts, StagedFacts DEF Carries
<1>10. Carries(us)
  BY <1>5, <1>8, <1>9 DEF Carries
<1> QED
  BY <1>5, <1>7, <1>8, <1>10

LEMMA FreshMapFacts ==
    ASSUME JobOK, target \in FirstUsable..(ReserveStart - 1)
    PROVE  /\ target \in Blocks /\ target # 0
           /\ FreshMap \in [Blocks -> {Free, End, Reserved}] /\ IsMap(FreshMap)
           /\ FreshMap[target] # Free
           /\ \A x \in Blocks : x \in Boot \cup job.payloads => FreshMap[x] = Reserved
           /\ \A x \in Blocks : x < target => FreshMap[x] = Reserved
           /\ \A x \in Blocks : x >= ReserveStart => FreshMap[x] = Reserved
           /\ \A x \in Blocks : x \notin Boot \cup job.payloads =>
                 FreshMap[x] = Defaults(target)[x]
<1>1. target \in Blocks /\ target # 0 /\ target < ReserveStart
  BY SizeAssumption DEF Blocks
<1>2. \A x \in Blocks : FreshMap[x] = IF x \in Boot \cup job.payloads THEN Reserved
                                      ELSE Defaults(target)[x]
  BY DEF FreshMap
<1>3. FreshMap \in [Blocks -> {Free, End, Reserved}]
  <2>1. Defaults(target) \in [Blocks -> {Free, End, Reserved}]
    BY <1>1, DefaultsFacts
  <2> QED
    BY <2>1 DEF FreshMap
<1>4. IsMap(FreshMap)
  BY <1>3 DEF IsMap, Words
<1>5. FreshMap[target] # Free
  <2>1. ~(target > target)
    BY <1>1, WordFacts
  <2>2. Defaults(target)[target] # Free
    BY <1>1, <2>1, DefaultsFacts
  <2> QED
    BY <1>1, <1>2, <2>2 DEF Free, Reserved
<1>6. \A x \in Blocks : x < target => FreshMap[x] = Reserved
  BY <1>1, <1>2, DefaultsFacts
<1>7. \A x \in Blocks : x >= ReserveStart => FreshMap[x] = Reserved
  <2>1. \A x \in Blocks : x >= ReserveStart => x # target
    BY <1>1, SizeAssumption, WordFacts
  <2> QED
    BY <1>1, <1>2, <2>1, DefaultsFacts
<1> QED
  BY <1>1, <1>2, <1>3, <1>4, <1>5, <1>6, <1>7

LEMMA StartRootBare ==
    ASSUME AInv, StartRoot, entries = <<>>, stage' = "mobile",
           UNCHANGED <<block_number, entries, block_map, writing>>
    PROVE  AInv'
<1>0. /\ AssemblyTypeOK /\ JobOK /\ VarsOK /\ stage = "root" /\ HeldOK /\ NoBlobYet
      /\ block_number \in Starts \ {0} /\ writing = 0
      /\ block_map = Marked(Defaults(block_number))
      /\ UNCHANGED <<image, result, synced, job, cf, target, roomy, slot, mobile, spare>>
  BY DEF AInv, StartRoot, EarlyOK, BlobsOK, Early
<1>1. AssemblyTypeOK' /\ JobOK' /\ VarsOK'
  BY <1>0 DEF AssemblyTypeOK, JobOK, VarsOK
<1>2. block_number \in Blocks
  BY <1>0, FlashFSAssumption
<1>3. \A x \in Blocks :
         block_map[x] = IF x \in job.payloads THEN Reserved ELSE Defaults(block_number)[x]
  BY <1>0 DEF Marked
<1>4. \A x \in Blocks : block_map[x] = Free => x < ReserveStart
  BY <1>2, <1>3, DefaultsFacts DEF Free, Reserved
<1>5. BlobsOK'
  BY <1>0, <1>4 DEF BlobsOK, NoBlobYet, BlobOK, Late, Early
<1>6. \A x \in Held : x \in Blocks /\ image[x].chunk = BootChunk /\ block_map[x] = Reserved
  <2> SUFFICES ASSUME NEW x \in Held
               PROVE  x \in Blocks /\ image[x].chunk = BootChunk /\ block_map[x] = Reserved
    OBVIOUS
  <2>1. x \in job.payloads \/ (x \in Boot \cup Xell /\ x < block_number)
    BY DEF Held
  <2>2. x \in Blocks
    BY <1>0, <2>1, JobFacts, AssemblyAssumption
  <2>3. image[x].chunk = BootChunk
    BY <1>0, <2>1 DEF HeldOK
  <2> QED
    BY <1>2, <1>3, <2>1, <2>2, <2>3, DefaultsFacts
<1>7. HeldOK'
  BY <1>0, <1>6 DEF HeldOK, Held
<1> QED
  BY <1>0, <1>1, <1>5, <1>7 DEF AInv, EarlyOK, PlacingOK, DirectoryOK, FilesReadBack, Early


LEMMA StartRootFiles ==
    ASSUME AInv, StartRoot, entries # <<>>, stage' = "fs",
           block_number' = target, block_map' = FreshMap, entries' = Unplaced(entries),
           writing' = 1
    PROVE  AInv'
<1>0. /\ AssemblyTypeOK /\ JobOK /\ VarsOK /\ stage = "root" /\ HeldOK /\ NoBlobYet
      /\ Carries(entries) /\ result = "running" /\ target \in FirstUsable..(ReserveStart - 1)
      /\ UNCHANGED <<image, result, synced, job, cf, target, roomy, slot, mobile, spare>>
  BY DEF AInv, StartRoot, EarlyOK, BlobsOK, Early, AssemblyTypeOK
<1>1. /\ target \in Blocks /\ target # 0
      /\ block_map' \in [Blocks -> {Free, End, Reserved}] /\ IsMap(block_map')
      /\ block_map'[target] # Free
      /\ \A x \in Blocks : x \in Boot \cup job.payloads => block_map'[x] = Reserved
      /\ \A x \in Blocks : x < target => block_map'[x] = Reserved
      /\ \A x \in Blocks : x >= ReserveStart => block_map'[x] = Reserved
  BY <1>0, FreshMapFacts
<1>2. AssemblyTypeOK' /\ JobOK' /\ VarsOK'
  BY <1>0, <1>1 DEF AssemblyTypeOK, JobOK, VarsOK
<1>3. /\ Carries(entries') /\ entries' # <<>> /\ Len(entries') \in Nat \ {0}
      /\ entries' \in Seq(Entry)
      /\ \A i \in 1..Len(entries') : entries'[i].block_number = 0
  <2>1. /\ Carries(entries') /\ entries' # <<>>
        /\ \A i \in 1..Len(entries') : entries'[i].block_number = 0
    BY <1>0, UnplacedFacts
  <2>2. entries' \in Seq(Entry)
    BY <2>1 DEF Carries
  <2> QED
    BY <2>1, <2>2
<1>4. Carries(entries)'
  BY <1>0, <1>3 DEF Carries, Assets, OwnNames
<1>5. IInv'
  <2>1. Sound(block_map') /\ Unlinked(block_map', target)
    BY <1>1, NoLinksSound
  <2>2. RootOK(block_map', block_number')
    BY <1>1, <2>1 DEF RootOK
  <2>3. HeadsOK(block_map', entries', block_number')
    BY <1>3 DEF HeadsOK, Holds
  <2>4. DOMAIN image' = Blocks
    BY <1>0 DEF VarsOK
  <2>5. writing' \in 0..(Len(entries') + 1)
    BY <1>3
  <2>6. result' \in {"ok", "err", "running"}
    BY <1>0
  <2> QED
    BY <1>1, <1>3, <2>1, <2>2, <2>3, <2>4, <2>5, <2>6, NextIInv
<1>6. WritingOK'
  <2>1. \A i \in Live' : ~(i < writing')
    BY <1>3 DEF Live
  <2> QED
    BY <1>0, <2>1 DEF WritingOK
<1>7. PlacingOK'
  <2>1. writing' \in 1..(Len(entries') + 1)
    BY <1>3
  <2> QED
    BY <1>0, <1>1, <1>3, <1>4, <1>5, <1>6, <2>1 DEF PlacingOK
<1>8. \A x \in Held' : image'[x].chunk = BootChunk /\ block_map'[x] = Reserved
  <2> SUFFICES ASSUME NEW x \in Held'
               PROVE  image'[x].chunk = BootChunk /\ block_map'[x] = Reserved
    OBVIOUS
  <2>1. \/ x \in job.payloads \/ x \in Boot
        \/ x \in Xell /\ x < target
    BY <1>0 DEF Held
  <2>2. x \in Blocks
    BY <1>0, <2>1, JobFacts, AssemblyAssumption
  <2>3. image[x].chunk = BootChunk
    BY <1>0, <2>1 DEF HeldOK
  <2> QED
    BY <1>0, <1>1, <2>1, <2>2, <2>3
<1>9. HeldOK'
  BY <1>0, <1>8 DEF HeldOK, Late
<1> QED
  BY <1>0, <1>2, <1>7, <1>9
  DEF AInv, EarlyOK, DirectoryOK, BlobsOK, FilesReadBack, Early, Late, NoBlobYet

-----------------------------------------------------------------------------
(* The files are placed. *)

\* What a step of write_logical keeps of the entries.
LEMMA CarriesKept ==
    ASSUME Carries(entries), job' = job, entries' \in Seq(Entry), Len(entries') = Len(entries),
           \A i \in 1..Len(entries) :
              /\ entries'[i].name = entries[i].name /\ entries'[i].data = entries[i].data
              /\ entries'[i].size = entries[i].size /\ entries'[i].deleted = entries[i].deleted
    PROVE  Carries(entries') /\ Carries(entries)'
<1> PICK es : es = entries'
  OBVIOUS
<1>1. \A i \in 1..Len(job.files) : i \in 1..Len(entries)
  <2>1. Len(entries) \in Nat /\ Len(entries) >= Len(job.files)
    BY DEF Carries
  <2> QED
    BY <2>1
<1>2. Carries(es)
  BY <1>1 DEF Carries
<1> QED
  BY <1>2 DEF Carries, Assets, OwnNames

\* The entry write_logical is at gets its first block, and nothing else changes.
LEMMA PlaceFileEntries ==
    ASSUME PlacingOK, stage = "fs", PlaceFile
    PROVE  /\ entries' \in Seq(Entry) /\ Len(entries') = Len(entries)
           /\ \A i \in 1..Len(entries) :
                 /\ entries'[i].name = entries[i].name /\ entries'[i].data = entries[i].data
                 /\ entries'[i].size = entries[i].size
                 /\ entries'[i].deleted = entries[i].deleted
                 /\ i # writing => entries'[i] = entries[i]
<1>0. IInv /\ Carries(entries) /\ writing \in 1..Len(entries) /\ ~entries[writing].deleted
  BY DEF PlacingOK, PlaceFile, WriteEntry, Carries
<1>1. entries[writing] \in Entry /\ entries \in Seq(Entry) /\ TypeOK
  BY <1>0, EntryTypes DEF IInv, TypeOK
<1> PICK b : b = SetEntryData(entries[writing].block_number, entries[writing].data).first
  OBVIOUS
<1>2. b \in Blocks
  BY <1>0, EntryFacts, SetEntryFacts DEF SetEntryOK
<1> PICK e : e = [entries[writing] EXCEPT !.block_number = b]
  OBVIOUS
<1>3. /\ e \in Entry /\ e.name = entries[writing].name /\ e.data = entries[writing].data
      /\ e.size = entries[writing].size /\ e.deleted = entries[writing].deleted
  BY <1>1, <1>2 DEF Entry
<1>4. entries' = [entries EXCEPT ![writing] = e]
  BY <1>0, <1>1 DEF PlaceFile, WriteEntry
<1>5. /\ entries' \in Seq(Entry) /\ Len(entries') = Len(entries)
      /\ \A i \in 1..Len(entries) : entries'[i] = IF i = writing THEN e ELSE entries[i]
  BY <1>0, <1>1, <1>3, <1>4, EntryUpdate
<1> QED
  BY <1>3, <1>5


\* The parts of the invariant that no stage is needed for.
LEMMA FrameOK ==
    ASSUME AssemblyTypeOK, JobOK, stage = "fs", IInv',
           stage' \in {"fs", "failed", "mobile"},
           UNCHANGED <<job, cf, target, roomy, slot, mobile, spare>>
    PROVE  AssemblyTypeOK' /\ JobOK' /\ VarsOK'
<1>1. AssemblyTypeOK' /\ JobOK'
  BY DEF AssemblyTypeOK, JobOK
<1>2. VarsOK'
  BY DEF VarsOK, IInv, TypeOK, IsMap
<1> QED
  BY <1>1, <1>2

LEMMA HeldStays ==
    ASSUME HeldOK, stage = "fs", stage' \in {"fs", "mobile"}, UNCHANGED <<job, block_number>>,
           entries # <<>>, entries' # <<>>, JobOK,
           stage' = "mobile" => image'[target'].chunk = Zero,
           \A x \in Blocks : block_map[x] = Reserved /\ x # block_number =>
              block_map'[x] = Reserved /\ image'[x] = image[x]
    PROVE  HeldOK'
<1>1. Held' = Held
  BY DEF Held
<1>2. \A x \in Held : x \in Blocks /\ x # block_number
  BY JobFacts, AssemblyAssumption DEF Held
<1>3. \A x \in Held' : image'[x].chunk = BootChunk /\ block_map'[x] = Reserved
  BY <1>1, <1>2 DEF HeldOK
<1> QED
  BY <1>3 DEF HeldOK, Late

LEMMA PlaceFileAInv ==
    ASSUME AInv, PlaceFile
    PROVE  AInv'
<1>0. /\ AssemblyTypeOK /\ JobOK /\ stage = "fs" /\ PlacingOK /\ HeldOK /\ NoBlobYet
      /\ target \in FirstUsable..(ReserveStart - 1)
  BY DEF AInv, PlaceFile, AssemblyTypeOK, BlobsOK
<1>1. /\ IInv /\ WritingOK /\ Carries(entries) /\ entries # <<>>
      /\ writing \in 1..Len(entries) /\ block_number = target
      /\ \A x \in Blocks : x >= ReserveStart => block_map[x] = Reserved
      /\ ~entries[writing].deleted /\ result = "running"
  BY <1>0 DEF PlacingOK, PlaceFile, WriteEntry, Carries, WritingOK
<1> PICK s : s = SetEntryData(entries[writing].block_number, entries[writing].data)
  OBVIOUS
<1>2. /\ block_map' = s.map /\ image' = s.image /\ block_number' = block_number
      /\ writing' = IF s.ok THEN writing + 1 ELSE 0
      /\ result' = IF s.ok THEN result ELSE "err"
      /\ stage' = IF result' = "err" THEN "failed" ELSE "fs"
      /\ UNCHANGED <<synced, job, cf, target, roomy, slot, mobile, spare>>
  BY <1>1 DEF PlaceFile, WriteEntry
<1>3. WriteEntry /\ Next
  BY DEF PlaceFile, Next, Write
<1>4. \A x \in Blocks : block_map[x] = Reserved => block_map'[x] = Reserved /\ image'[x] = image[x]
  <2>1. SetEntryStep(entries[writing].block_number, entries[writing].data, s)
    BY <1>1, <1>3, WriteEntryStep
  <2>2. Reserved # Free /\ ~InUse(Reserved)
    BY WordFacts DEF Reserved, Free
  <2> QED
    BY <1>2, <2>1, <2>2 DEF SetEntryStep
<1>5. IInv'
  BY <1>1, <1>3, WriteEntryIInv
<1>6. WritingOK'
  BY <1>1, <1>3, WritingStep
<1>7. /\ entries' \in Seq(Entry) /\ Len(entries') = Len(entries) /\ Len(entries) \in Nat \ {0}
      /\ entries' # <<>> /\ Carries(entries') /\ Carries(entries)'
  <2>1. /\ entries' \in Seq(Entry) /\ Len(entries') = Len(entries)
        /\ Carries(entries') /\ Carries(entries)'
    BY <1>0, <1>1, <1>2, PlaceFileEntries, CarriesKept
  <2>2. entries \in Seq(Entry)
    BY <1>1 DEF Carries
  <2> QED
    BY <1>1, <2>1, <2>2
<1>8. AssemblyTypeOK' /\ JobOK' /\ VarsOK'
  BY <1>0, <1>2, <1>5, FrameOK
<1>9. CASE s.ok
  <2>1. stage' = "fs"
    BY <1>1, <1>2, <1>9
  <2>2. PlacingOK'
    <3>1. writing' \in 1..(Len(entries') + 1)
      BY <1>1, <1>2, <1>7, <1>9
    <3> QED
      BY <1>1, <1>2, <1>4, <1>5, <1>6, <1>7, <3>1 DEF PlacingOK
  <2>3. HeldOK'
    BY <1>0, <1>1, <1>2, <1>4, <1>7, <2>1, HeldStays
  <2> QED
    BY <1>0, <1>2, <1>8, <2>1, <2>2, <2>3
    DEF AInv, EarlyOK, DirectoryOK, BlobsOK, FilesReadBack, Early, Late, NoBlobYet
<1>10. CASE ~s.ok
  <2>1. stage' = "failed"
    BY <1>2, <1>10
  <2> QED
    BY <1>8, <2>1
    DEF AInv, EarlyOK, PlacingOK, DirectoryOK, BlobsOK, HeldOK, FilesReadBack, Early, Late
<1>11. s.ok \in BOOLEAN
  <2>1. /\ entries[writing].block_number \in Blocks /\ entries[writing].data \in Seq(Chunk)
        /\ entries[writing].block_number # 0 =>
              /\ InUse(block_map[entries[writing].block_number])
              /\ Unlinked(block_map, entries[writing].block_number)
    BY <1>1, EntryFacts
  <2> QED
    BY <1>1, <2>1, SetEntryFacts DEF SetEntryOK
<1> QED
  BY <1>9, <1>10, <1>11


\* Before the first slot is looked at the blobs are in order.
LEMMA NoBlobOK ==
    ASSUME NoBlobYet, stage' = "mobile", UNCHANGED <<slot, mobile>>, writing' = 0,
           \A x \in Blocks : block_map'[x] = Free => x < ReserveStart
    PROVE  BlobsOK'
<1>1. \A k \in 1..MobileSlots : mobile'[k] = 0 /\ ~(k < slot')
  BY DEF NoBlobYet
<1>2. \A k \in 1..MobileSlots : BlobOK(k)'
  BY <1>1 DEF BlobOK
<1> QED
  BY <1>2 DEF BlobsOK, Early, Late

LEMMA PlaceRootAInv ==
    ASSUME AInv, PlaceRoot
    PROVE  AInv'
<1>0. /\ AssemblyTypeOK /\ JobOK /\ stage = "fs" /\ PlacingOK /\ HeldOK /\ NoBlobYet
      /\ target \in FirstUsable..(ReserveStart - 1)
      /\ UNCHANGED <<synced, job, cf, target, roomy, slot, mobile, spare>>
      /\ stage' = IF result' = "err" THEN "failed" ELSE "mobile"
  BY DEF AInv, PlaceRoot, AssemblyTypeOK, BlobsOK
<1>1. /\ IInv /\ WritingOK /\ Carries(entries) /\ entries # <<>>
      /\ writing = Len(entries) + 1 /\ block_number = target
      /\ \A x \in Blocks : x >= ReserveStart => block_map[x] = Reserved
      /\ WriteRoot /\ Next /\ entries' = entries /\ writing' = 0
      /\ result' \in {"ok", "err"}
  BY <1>0 DEF PlacingOK, PlaceRoot, WriteRoot, Next, Write
<1>2. target \in Blocks /\ target # 0 /\ target < ReserveStart
  BY <1>0, SizeAssumption DEF Blocks
<1>3. IInv'
  BY <1>1, WriteRootIInv
<1>4. AssemblyTypeOK' /\ JobOK' /\ VarsOK'
  BY <1>0, <1>3, FrameOK
<1>5. CASE result' = "err"
  <2>1. stage' = "failed"
    BY <1>0, <1>5
  <2> QED
    BY <1>4, <2>1
    DEF AInv, EarlyOK, PlacingOK, DirectoryOK, BlobsOK, HeldOK, FilesReadBack, Early, Late
<1>6. CASE result' = "ok"
  <2>1. stage' = "mobile"
    BY <1>0, <1>6
  <2>2. block_number' = target /\ InUse(block_map'[target])
    <3>1. Cardinality(RootGrowth) + 1 >= RootBlocksNeeded
      BY <1>1, <1>2, <1>6 DEF WriteRoot
    <3>2. /\ block_number' = target
          /\ block_map' = Extend(RootCut, target, RootGrowth)
      BY <1>1, <1>2, <1>6 DEF WriteRoot
    <3>3. target \in Chain(Extend(RootCut, target, RootGrowth), target)
      BY <1>1, <1>2, <3>1, RootChainAfter
    <3>4. \A x \in Chain(Extend(RootCut, target, RootGrowth), target) :
             InUse(Extend(RootCut, target, RootGrowth)[x])
      BY <1>1, <1>2, <3>1, RootChainAfter
    <3> QED
      BY <3>2, <3>3, <3>4
  <2>3. Readable(image', block_map', target, entries')
    <3>1. SizesOK
      BY <1>1 DEF SizesOK, Carries
    <3>2. ~Idle
      BY <1>1 DEF Idle, Carries
    <3>3. \A i \in Live' : OnImage(i)'
      BY <1>1, <1>6, <3>2, WritingStep
    <3> QED
      BY <1>1, <1>3, <1>6, <2>2, <3>1, <3>3, WriteRootReadable
  <2>4. DiskMap' = block_map'
    BY <2>2, <2>3 DEF Readable, DiskMap
  <2>5. Sound(block_map') /\ Unlinked(block_map', target)
    BY <1>3, <2>2 DEF IInv, RootOK
  <2>6. \A x \in Blocks : block_map[x] = Reserved /\ x # block_number =>
           block_map'[x] = Reserved /\ image'[x] = image[x]
    BY <1>1, WriteRootStep
  <2>7. \A x \in Blocks : x >= ReserveStart => block_map'[x] = Reserved
    <3>1. \A x \in Blocks : x >= ReserveStart => x # target
      BY <1>2, SizeAssumption, WordFacts
    <3> QED
      BY <1>1, <2>6, <3>1
  <2>8. \A x \in Blocks : block_map'[x] = Free => x < ReserveStart
    <3>1. \A x \in Blocks : x < ReserveStart \/ x >= ReserveStart
      BY SizeAssumption, WordFacts
    <3> QED
      BY <2>7, <3>1 DEF Reserved, Free
  <2>9. BlobsOK'
    BY <1>0, <1>1, <2>1, <2>8, NoBlobOK
  <2>10. Carries(entries)'
    BY <1>0, <1>1 DEF Carries, Assets, OwnNames
  <2>11. OnDisk(entries)'
    BY <1>0, <2>2, <2>3, <2>4, <2>5, <2>7, <2>10 DEF OnDisk
  <2>12. DirectoryOK'
    BY <2>1, <2>4, <2>11 DEF DirectoryOK
  <2>13. image'[target'].chunk = Zero
    <3> DEFINE ext == Extend(RootCut, target, RootGrowth)
    <3>1. Cardinality(RootGrowth) + 1 >= RootBlocksNeeded
      BY <1>1, <1>2, <1>6 DEF WriteRoot
    <3>2. target \in Chain(ext, target)
      BY <1>1, <1>2, <3>1, RootChainAfter
    <3>3. image' = [x \in Blocks |-> IF x \in Chain(ext, target)
                                    THEN RootShare(ext, Position(ext, target, x))
                                    ELSE image[x]]
      BY <1>1, <1>2, <1>6 DEF WriteRoot
    <3>4. image'[target] = RootShare(ext, Position(ext, target, target))
      BY <1>2, <3>2, <3>3
    <3> QED
      BY <1>0, <3>4 DEF RootShare, RootBlock
  <2>14. HeldOK'
    BY <1>0, <1>1, <2>1, <2>2, <2>6, <2>13, HeldStays
  <2> QED
    BY <1>4, <2>1, <2>9, <2>12, <2>14 DEF AInv, EarlyOK, PlacingOK, FilesReadBack, Early
<1> QED
  BY <1>1, <1>5, <1>6


-----------------------------------------------------------------------------
(* Mobile blobs. *)

LEMMA MobileRoomFacts ==
    ASSUME MobileRoom # {}
    PROVE  Least(MobileRoom) \in Blocks /\ block_map[Least(MobileRoom)] = Free
                                       /\ Least(MobileRoom) # 0
<1>1. MobileRoom \subseteq Nat
  BY WordFacts DEF MobileRoom, FreeFrom
<1>2. Least(MobileRoom) \in MobileRoom
  BY <1>1, LeastFact
<1>3. \A x \in MobileRoom : x \in Blocks /\ block_map[x] = Free /\ x >= FirstUsable
  BY DEF MobileRoom, FreeFrom
<1> QED
  BY <1>2, <1>3, SizeAssumption

\* The image stays readable while a blob goes to a block the map has free.
LEMMA DirectoryKept ==
    ASSUME VarsOK, DirectoryOK, stage = "mobile", stage' \in Late,
           stage' = "built" => \A x \in Blocks : spare'[x] = "root" => x = target /\ entries # <<>>,
           UNCHANGED <<block_number, entries, target, job>>,
           NEW B \in SUBSET Blocks, \A x \in B : ~InUse(DiskMap[x]),
           \A x \in Blocks : x \notin B => image'[x] = image[x] /\ block_map'[x] = block_map[x],
           \A x \in B : \/ block_map'[x] = block_map[x]
                        \/ DiskMap[x] = Free /\ block_map'[x] = Reserved
    PROVE  DirectoryOK'
<1> SUFFICES ASSUME entries # <<>>
             PROVE  OnDisk(entries)' /\ \A x \in Blocks :
                       \/ block_map'[x] = DiskMap'[x]
                       \/ DiskMap'[x] = Free /\ block_map'[x] = Reserved
  BY DEF DirectoryOK, Late
<1>1. /\ OnDisk(entries)
      /\ \A x \in Blocks : \/ block_map[x] = DiskMap[x]
                           \/ DiskMap[x] = Free /\ block_map[x] = Reserved
  BY DEF DirectoryOK, Late
<1>2. target \in Blocks /\ InUse(DiskMap[target]) /\ block_number = target
  BY <1>1 DEF OnDisk, VarsOK
<1>3. DiskMap' = DiskMap
  BY <1>2 DEF DiskMap
<1>4. \A x \in Blocks : InUse(DiskMap[x]) => image'[x] = image[x]
  OBVIOUS
<1>5. Readable(image', DiskMap, target, entries)
  BY <1>1, <1>2, <1>4, ReadableKept DEF OnDisk
<1>6. Carries(entries)'
  BY <1>1 DEF OnDisk, Carries, Assets, OwnNames
<1>7. OnDisk(entries)'
  BY <1>1, <1>3, <1>5, <1>6 DEF OnDisk
<1> QED
  BY <1>1, <1>3, <1>7


LEMMA PlaceMobileAInv ==
    ASSUME AInv, PlaceMobile
    PROVE  AInv'
<1>0. /\ AssemblyTypeOK /\ JobOK /\ VarsOK /\ stage = "mobile" /\ DirectoryOK /\ HeldOK
      /\ writing = 0 /\ \A x \in Blocks : block_map[x] = Free => x < ReserveStart
      /\ \A k \in 1..MobileSlots : BlobOK(k)
      /\ slot \in 1..MobileSlots /\ slot' = slot + 1 /\ MobileSlots \in Nat
      /\ mobile \in [1..MobileSlots -> Blocks]
      /\ UNCHANGED <<block_number, entries, writing, result, synced,
                     stage, job, cf, target, roomy, spare>>
  BY AssemblyAssumption DEF AInv, PlaceMobile, BlobsOK, Late, AssemblyTypeOK
<1>1. mobile[slot] = 0
  BY <1>0 DEF BlobOK
<1>2. \A k \in 1..MobileSlots : k < slot' => k < slot \/ k = slot
  BY <1>0
<1>3. \A k \in 1..MobileSlots : k < slot => k < slot'
  BY <1>0
<1>4. slot' \in 1..(MobileSlots + 1)
  BY <1>0
<1>5. JobOK'
  BY <1>0 DEF JobOK
<1>6. CASE /\ job.blobs[slot] = Zero \/ MobileRoom = {}
           /\ UNCHANGED <<block_map, image, mobile>>
  <2>1. AssemblyTypeOK' /\ VarsOK'
    BY <1>0, <1>4, <1>6 DEF AssemblyTypeOK, VarsOK
  <2>2. MobileRoom' = MobileRoom
    BY <1>0, <1>6 DEF MobileRoom
  <2>3. \A k \in 1..MobileSlots : BlobOK(k)'
    BY <1>0, <1>2, <1>3, <1>6, <2>2 DEF BlobOK
  <2>4. BlobsOK'
    BY <1>0, <1>6, <2>3 DEF BlobsOK, Early, Late
  <2>5. DirectoryOK'
    <3>1. stage' \in Late
      BY <1>0 DEF Late
    <3>2. {} \in SUBSET Blocks
      OBVIOUS
    <3> QED
      BY <1>0, <1>6, <3>1, <3>2, DirectoryKept
  <2>6. HeldOK'
    BY <1>0, <1>6 DEF HeldOK, Held
  <2> QED
    BY <1>0, <1>5, <2>1, <2>4, <2>5, <2>6 DEF AInv, EarlyOK, PlacingOK, FilesReadBack, Early
<1>7. CASE job.blobs[slot] # Zero /\ MobileRoom # {}
  <2> PICK b : b = Least(MobileRoom)
    OBVIOUS
  <2>1. b \in Blocks /\ block_map[b] = Free /\ b # 0 /\ b < ReserveStart
    BY <1>0, <1>7, MobileRoomFacts
  <2>2. /\ mobile' = [mobile EXCEPT ![slot] = b]
        /\ block_map' = [block_map EXCEPT ![b] = Reserved]
        /\ image' = [image EXCEPT ![b] = DataBlock(job.blobs[slot])]
    BY <1>7 DEF PlaceMobile
  <2>3. AssemblyTypeOK'
    BY <1>0, <1>4, <2>1, <2>2 DEF AssemblyTypeOK
  <2>4. IsMap(block_map) /\ DOMAIN image = Blocks
    BY <1>0 DEF VarsOK
  <2>5. /\ \A x \in Blocks : x # b => block_map'[x] = block_map[x] /\ image'[x] = image[x]
        /\ block_map'[b] = Reserved /\ image'[b].chunk = job.blobs[slot]
        /\ mobile'[slot] = b
        /\ \A k \in 1..MobileSlots : k # slot => mobile'[k] = mobile[k]
    BY <1>0, <2>1, <2>2, <2>4 DEF DataBlock, IsMap
  <2>6. VarsOK'
    BY <1>0, <2>1, <2>2, <2>4 DEF VarsOK, IsMap, Words
  <2>7. \A x \in Blocks : block_map'[x] = Free => x < ReserveStart
    BY <1>0, <2>1, <2>5 DEF Reserved, Free
  <2>8. entries # <<>> => b # target /\ DiskMap[b] = Free
    <3> HAVE entries # <<>>
    <3>1. /\ InUse(DiskMap[target]) /\ block_number = target
          /\ \A x \in Blocks : \/ block_map[x] = DiskMap[x]
                               \/ DiskMap[x] = Free /\ block_map[x] = Reserved
      BY <1>0 DEF DirectoryOK, Late, OnDisk
    <3> QED
      BY <2>1, <3>1, WordFacts DEF Reserved, Free
  <2>9. ASSUME NEW k \in 1..MobileSlots
        PROVE  BlobOK(k)'
    <3>1. CASE k = slot
      BY <1>0, <2>1, <2>5, <2>8, <3>1 DEF BlobOK
    <3>2. CASE k # slot /\ mobile[k] = 0
      <4>1. k < slot' => job.blobs[k] = Zero
        BY <1>0, <1>2, <1>7, <3>2 DEF BlobOK
      <4> QED
        BY <1>0, <2>5, <3>2, <4>1 DEF BlobOK
    <3>3. CASE k # slot /\ mobile[k] # 0
      <4>1. mobile[k] \in Blocks /\ mobile[k] # b
        BY <1>0, <2>1, <3>3 DEF BlobOK, Reserved, Free
      <4> QED
        BY <1>0, <1>3, <2>5, <3>3, <4>1 DEF BlobOK
    <3> QED
      BY <3>1, <3>2, <3>3
  <2>10. BlobsOK'
    BY <1>0, <2>7, <2>9 DEF BlobsOK, Early, Late
  <2>11. DirectoryOK'
    <3>1. stage' \in Late
      BY <1>0 DEF Late
    <3>2. CASE entries # <<>>
      <4>1. /\ {b} \in SUBSET Blocks /\ \A x \in {b} : ~InUse(DiskMap[x])
            /\ \A x \in {b} : DiskMap[x] = Free /\ block_map'[x] = Reserved
            /\ \A x \in Blocks : x \notin {b} =>
                  image'[x] = image[x] /\ block_map'[x] = block_map[x]
        BY <2>1, <2>5, <2>8, <3>2, WordFacts
      <4> QED
        BY <1>0, <3>1, <4>1, DirectoryKept
    <3>3. CASE entries = <<>>
      BY <1>0, <3>3 DEF DirectoryOK
    <3> QED
      BY <3>2, <3>3
  <2>12. HeldOK'
    <3>1. Held' = Held
      BY <1>0 DEF Held
    <3>2. \A x \in Held : x \in Blocks
      BY <1>0, JobFacts, AssemblyAssumption DEF Held
    <3>3. \A x \in Held : x # b /\ image[x].chunk = BootChunk /\ block_map[x] = Reserved
      BY <1>0, <2>1 DEF HeldOK, Reserved, Free
    <3>4. \A x \in Held' : image'[x].chunk = BootChunk /\ block_map'[x] = Reserved
      BY <2>5, <3>1, <3>2, <3>3
    <3>5. entries # <<>> => image'[target].chunk = Zero
      <4> HAVE entries # <<>>
      <4>1. block_number = target /\ target \in Blocks /\ target # b
        BY <1>0, <2>8 DEF DirectoryOK, Late, OnDisk, VarsOK
      <4>2. image[target].chunk = Zero
        BY <1>0 DEF HeldOK, Late
      <4> QED
        BY <2>5, <4>1, <4>2
    <3> QED
      BY <1>0, <3>4, <3>5 DEF HeldOK, Late
  <2> QED
    BY <1>0, <1>5, <2>3, <2>6, <2>10, <2>11, <2>12
    DEF AInv, EarlyOK, PlacingOK, FilesReadBack, Early
<1> QED
  BY <1>6, <1>7 DEF PlaceMobile


-----------------------------------------------------------------------------
(* The finished image, and what a scan makes of it. *)

LEMMA FinalizeAInv ==
    ASSUME AInv, Finalize
    PROVE  AInv'
<1>0. /\ AssemblyTypeOK /\ JobOK /\ VarsOK /\ stage = "mobile" /\ DirectoryOK /\ HeldOK
      /\ writing = 0 /\ \A x \in Blocks : block_map[x] = Free => x < ReserveStart
      /\ \A k \in 1..MobileSlots : BlobOK(k)
      /\ mobile \in [1..MobileSlots -> Blocks]
      /\ slot = MobileSlots + 1 /\ stage' = "built"
      /\ spare' = [x \in Blocks |-> SpareType(x)]
      /\ image' = [x \in Blocks |-> IF x >= ReserveStart THEN DataBlock(Erased) ELSE image[x]]
      /\ UNCHANGED <<block_number, entries, block_map, writing, synced,
                     job, cf, target, roomy, slot, mobile>>
  BY DEF AInv, Finalize, BlobsOK, Late, AssemblyTypeOK
<1>1. \A x \in Blocks : x < ReserveStart => ~(x >= ReserveStart)
  BY SizeAssumption, WordFacts
<1>2. \A x \in Blocks : x < ReserveStart => image'[x] = image[x]
  BY <1>0, <1>1
<1>3. JobOK' /\ VarsOK'
  BY <1>0 DEF JobOK, VarsOK
<1>4. AssemblyTypeOK'
  BY <1>0 DEF AssemblyTypeOK
<1>5. ASSUME NEW k \in 1..MobileSlots
      PROVE  BlobOK(k)'
  <2>1. MobileRoom' = MobileRoom
    BY <1>0 DEF MobileRoom
  <2>2. mobile[k] # 0 => image'[mobile[k]] = image[mobile[k]] /\ spare'[mobile[k]] = "mobile"
    <3> HAVE mobile[k] # 0
    <3>1. mobile[k] \in Blocks /\ mobile[k] < ReserveStart
      BY <1>0 DEF BlobOK
    <3>2. HoldsBlob(mobile[k])
      BY DEF HoldsBlob
    <3>3. SpareType(mobile[k]) = "mobile"
      BY <1>1, <3>1, <3>2 DEF SpareType
    <3> QED
      BY <1>0, <1>2, <3>1, <3>3
  <2> QED
    BY <1>0, <2>1, <2>2 DEF BlobOK
<1>6. BlobsOK'
  BY <1>0, <1>5 DEF BlobsOK, Early, Late
<1>7. \A x \in Blocks : spare'[x] = "root" => x = block_number /\ entries # <<>>
  BY <1>0 DEF SpareType
<1>8. DirectoryOK'
  <2>1. CASE entries # <<>>
    <3>1. block_number = target /\ \A x \in Blocks : x >= ReserveStart => DiskMap[x] = Reserved
      BY <1>0, <2>1 DEF DirectoryOK, OnDisk, Late
    <3> DEFINE B == {x \in Blocks : x >= ReserveStart}
    <3>2. B \in SUBSET Blocks /\ \A x \in B : ~InUse(DiskMap[x])
      BY <3>1, WordFacts
    <3>3. \A x \in Blocks : x \notin B => image'[x] = image[x] /\ block_map'[x] = block_map[x]
      BY <1>0
    <3>4. \A x \in B : block_map'[x] = block_map[x]
      BY <1>0
    <3>5. stage' \in Late
      BY <1>0 DEF Late
    <3>6. \A x \in Blocks : spare'[x] = "root" => x = target /\ entries # <<>>
      BY <1>7, <3>1
    <3> HIDE DEF B
    <3> QED
      BY <1>0, <3>2, <3>3, <3>4, <3>5, <3>6, DirectoryKept
  <2>2. CASE entries = <<>>
    BY <1>0, <1>7, <2>2 DEF DirectoryOK
  <2> QED
    BY <2>1, <2>2
<1>9. HeldOK'
  <2>1. Held' = Held
    BY <1>0 DEF Held
  <2>2. \A x \in Held : x \in Blocks /\ image[x].chunk = BootChunk
    BY <1>0, JobFacts, AssemblyAssumption DEF Held, HeldOK
  <2>3. entries # <<>> => image'[target].chunk = Zero
    <3> HAVE entries # <<>>
    <3>1. target \in FirstUsable..(ReserveStart - 1) /\ block_number = target
      BY <1>0 DEF AssemblyTypeOK, DirectoryOK, Late, OnDisk
    <3>2. target \in Blocks /\ target < ReserveStart
      BY <1>0, <3>1, SizeAssumption DEF VarsOK
    <3> QED
      BY <1>0, <1>2, <3>2 DEF HeldOK, Late
  <2> QED
    BY <1>0, <1>2, <2>1, <2>2, <2>3 DEF HeldOK, Late
<1> QED
  BY <1>0, <1>3, <1>4, <1>6, <1>8, <1>9 DEF AInv, EarlyOK, PlacingOK, FilesReadBack, Early

LEMMA ScanAInv ==
    ASSUME AInv, Scan
    PROVE  AInv'
<1> DEFINE roots == {x \in Blocks : spare[x] = "root"}
<1>0. /\ AssemblyTypeOK /\ JobOK /\ VarsOK /\ stage = "built" /\ DirectoryOK
      /\ UNCHANGED <<block_map, image, writing, result,
                     job, cf, target, roomy, slot, mobile, spare>>
      /\ \/ roots = {} /\ block_number' = 0 /\ stage' = "bare"
         \/ roots # {} /\ block_number' = Least(roots) /\ stage' = "scanned"
  BY DEF AInv, Scan
<1>1. AssemblyTypeOK' /\ JobOK'
  BY <1>0 DEF AssemblyTypeOK, JobOK
<1>2. CASE roots = {} /\ block_number' = 0 /\ stage' = "bare"
  <2>1. VarsOK'
    BY <1>0, <1>2, ZeroBlock DEF VarsOK
  <2> QED
    BY <1>1, <1>2, <2>1
    DEF AInv, EarlyOK, PlacingOK, DirectoryOK, BlobsOK, HeldOK, FilesReadBack, Early, Late
<1>3. CASE roots # {} /\ block_number' = Least(roots) /\ stage' = "scanned"
  <2>1. Least(roots) \in roots
    <3>1. roots \subseteq Nat
      BY WordFacts
    <3> HIDE DEF roots
    <3> QED
      BY <1>3, <3>1, LeastFact
  <2>2. block_number' = target /\ entries # <<>> /\ target \in Blocks
    BY <1>0, <1>3, <2>1 DEF DirectoryOK
  <2>3. OnDisk(entries) /\ block_number = target
    BY <1>0, <2>2 DEF DirectoryOK, Late, OnDisk
  <2> PICK es : es = entries
    OBVIOUS
  <2>4. DiskMap' = DiskMap
    BY <1>0, <2>2, <2>3 DEF DiskMap
  <2>5. Carries(es)'
    BY <1>0, <2>3 DEF OnDisk, Carries, Assets, OwnNames
  <2>6. OnDisk(es)'
    BY <1>0, <2>2, <2>3, <2>4, <2>5 DEF OnDisk
  <2>7. DirectoryOK'
    BY <1>3, <2>6 DEF DirectoryOK, Late
  <2>8. VarsOK'
    BY <1>0, <2>2 DEF VarsOK
  <2> QED
    BY <1>1, <1>3, <2>7, <2>8
    DEF AInv, EarlyOK, PlacingOK, BlobsOK, HeldOK, FilesReadBack, Early, Late
<1> QED
  BY <1>0, <1>2, <1>3


\* Reading the image back gives each staged file under its name.
LEMMA AssetReadBack ==
    ASSUME AInv, ReadBack, NEW i \in Assets
    PROVE  Extract(job.files[i].name)' = <<"some", job.files[i].data>>
<1>0. JobOK /\ VarsOK /\ stage = "scanned" /\ Load /\ job.files \in Staged
  BY JobFacts DEF AInv, ReadBack
<1>1. PICK es : OnDisk(es)
  BY <1>0 DEF AInv, DirectoryOK
<1> PICK m : m = DiskMap
  OBVIOUS
<1>2. /\ Sound(m) /\ block_number \in Blocks /\ Unlinked(m, block_number)
      /\ Readable(image, m, block_number, es) /\ Carries(es)
  BY <1>0, <1>1 DEF OnDisk, VarsOK
<1>3. /\ entries' \in Seq(Entry) /\ Live' = 1..Len(entries') /\ UniqueNames'
      /\ \A j \in Live' : \E k \in LiveIn(es) :
            /\ DiskName[es[k].name] = entries'[j].name
            /\ es[k].data = entries'[j].data
      /\ \A k \in LiveIn(es) : \E j \in Live' : DiskName[es[k].name] = entries'[j].name
  BY <1>0, <1>2, LoadFiles
<1> PICK n : n = job.files[i].name
  OBVIOUS
<1>4. /\ i \in 1..Len(job.files) /\ n \in OwnNames /\ n \notin {XexpName[1], XexpName[2]}
  BY DEF Assets
<1>5. /\ es \in Seq(Entry) /\ Len(es) \in Nat /\ i \in 1..Len(es) /\ i \in LiveIn(es)
      /\ es[i].name = n /\ es[i].data = job.files[i].data
  <2>1. es \in Seq(Entry) /\ Len(es) \in Nat /\ i \in 1..Len(es)
    BY <1>0, <1>2, <1>4, StagedFacts DEF Carries
  <2> QED
    BY <1>2, <1>4, <2>1 DEF Carries, LiveIn
<1>6. PICK j \in Live' : DiskName[es[i].name] = entries'[j].name
  BY <1>3, <1>5
<1>7. PICK k \in LiveIn(es) : DiskName[es[k].name] = entries'[j].name
                              /\ es[k].data = entries'[j].data
  BY <1>3
<1>8. entries'[j].name = n
  BY <1>4, <1>5, <1>6 DEF OwnNames
<1>9. es[k].name = n
  <2>1. k \in 1..Len(es) /\ es[k] \in Entry
    BY <1>5 DEF LiveIn
  <2>2. es[k].name \in Names
    BY <2>1 DEF Entry
  <2> QED
    BY <1>4, <1>7, <1>8, <2>2 DEF OwnNames
<1>10. k = i
  <2>1. k \in 1..Len(es) /\ Len(job.files) \in Nat
    BY <1>0, StagedFacts DEF LiveIn
  <2>2. ~(k > Len(job.files))
    BY <1>2, <1>4, <1>9, <2>1 DEF Carries
  <2>3. k \in 1..Len(job.files) /\ job.files[k].name = n
    BY <1>2, <1>5, <1>9, <2>1, <2>2 DEF Carries
  <2> QED
    BY <1>0, <1>4, <2>3, StagedFacts
<1>11. entries'[j].data = job.files[i].data
  BY <1>5, <1>7, <1>10
<1>12. Extract(n)' = ExtractIn(entries', n) /\ Distinct(entries') /\ j \in LiveIn(entries')
  BY <1>3, ExtractIsIn
<1>13. Len(entries') \in Nat
  BY <1>3
<1> PICK fs : fs = entries'
  OBVIOUS
<1>14. ExtractIn(fs, n) = <<"some", fs[j].data>>
  BY <1>8, <1>12, <1>13, ExtractFacts
<1>15. job' = job
  BY DEF ReadBack
<1> QED
  BY <1>11, <1>12, <1>14, <1>15

LEMMA ReadBackAInv ==
    ASSUME AInv, ReadBack
    PROVE  AInv'
<1>0. /\ AssemblyTypeOK /\ JobOK /\ VarsOK /\ stage = "scanned" /\ stage' = "loaded" /\ Load
      /\ UNCHANGED <<block_number, image, job, cf, target, roomy, slot, mobile, spare>>
  BY DEF AInv, ReadBack, Load
<1>1. AssemblyTypeOK' /\ JobOK'
  BY <1>0 DEF AssemblyTypeOK, JobOK
<1>2. PICK es : OnDisk(es)
  BY <1>0 DEF AInv, DirectoryOK
<1> PICK m : m = DiskMap
  OBVIOUS
<1>3. /\ Sound(m) /\ block_number \in Blocks /\ Unlinked(m, block_number)
      /\ Readable(image, m, block_number, es)
  BY <1>0, <1>2 DEF OnDisk, VarsOK
<1>4. block_map' = m
  BY <1>0, <1>3, LoadFiles
<1>5. VarsOK'
  BY <1>0, <1>3, <1>4 DEF VarsOK, Sound
<1>6. FilesReadBack'
  <2>1. Assets' = Assets /\ job' = job
    BY <1>0 DEF Assets, OwnNames
  <2>2. \A i \in Assets : Extract(job.files[i].name)' = <<"some", job.files[i].data>>
    BY AssetReadBack
  <2> QED
    BY <2>1, <2>2 DEF FilesReadBack
<1> QED
  BY <1>0, <1>1, <1>5, <1>6
  DEF AInv, EarlyOK, PlacingOK, DirectoryOK, BlobsOK, HeldOK, Early, Late


-----------------------------------------------------------------------------
(* The theorems. *)

LEMMA AssemblyStepAInv == AInv /\ [AssemblyNext]_allVars => AInv'
<1> SUFFICES ASSUME AInv, [AssemblyNext]_allVars PROVE AInv'
  OBVIOUS
<1>1. CASE Split1
  BY <1>1, SplitAInv DEF Split1
<1>2. CASE Split2
  BY <1>2, SplitAInv DEF Split2
<1>3. CASE Place
  BY <1>3, PlaceAInv
<1>4. CASE WriteBoot
  BY <1>4, WriteBootAInv
<1>5. CASE WritePayloads
  BY <1>5, WritePayloadsAInv
<1>6. CASE StartRoot
  BY <1>6, StartRootBare, StartRootFiles DEF StartRoot
<1>7. CASE PlaceFile
  BY <1>7, PlaceFileAInv
<1>8. CASE PlaceRoot
  BY <1>8, PlaceRootAInv
<1>9. CASE PlaceMobile
  BY <1>9, PlaceMobileAInv
<1>10. CASE Finalize
  BY <1>10, FinalizeAInv
<1>11. CASE Scan
  BY <1>11, ScanAInv
<1>12. CASE ReadBack
  BY <1>12, ReadBackAInv
<1>13. CASE UNCHANGED allVars
  <2>1. /\ UNCHANGED <<block_number, entries, block_map, image, writing, result>>
        /\ UNCHANGED <<stage, job, cf, target, roomy, slot, mobile, spare>>
    BY <1>13 DEF allVars, buildVars, mountVars, vars
  <2> HIDE DEF AInv
  <2>2. AssemblyTypeOK' <=> AssemblyTypeOK
    BY <2>1 DEF AssemblyTypeOK
  <2>3. (JobOK' <=> JobOK) /\ (VarsOK' <=> VarsOK)
    BY <2>1 DEF JobOK, VarsOK
  <2>4. \A es : Carries(es)' <=> Carries(es)
    BY <2>1 DEF Carries, Assets, OwnNames
  <2>5. IInv' <=> IInv
    BY <2>1 DEF IInv, TypeOK
  <2>6. EarlyOK' <=> EarlyOK
    BY <2>1, <2>5 DEF EarlyOK, Carries, Assets, OwnNames, XexpAt, Marked, Defaults
  <2>7. WritingOK' <=> WritingOK
    BY <2>1 DEF WritingOK, Live, OnImage, FileChain
  <2>8. PlacingOK' <=> PlacingOK
    BY <2>1, <2>5, <2>7 DEF PlacingOK, Carries, Assets, OwnNames
  <2>9. DiskMap' = DiskMap
    BY <2>1 DEF DiskMap
  <2>10. \A es : OnDisk(es)' <=> OnDisk(es)
    BY <2>1, <2>4, <2>9 DEF OnDisk
  <2>11. OnDisk(entries)' <=> OnDisk(entries)
    BY <2>1, <2>9 DEF OnDisk, Carries, Assets, OwnNames
  <2>12. DirectoryOK' <=> DirectoryOK
    BY <2>1, <2>9, <2>10, <2>11 DEF DirectoryOK, Late
  <2>13. BlobsOK' <=> BlobsOK
    BY <2>1 DEF BlobsOK, BlobOK, NoBlobYet, MobileRoom, Late, Early
  <2>14. HeldOK' <=> HeldOK
    BY <2>1 DEF HeldOK, Held
  <2>15. FilesReadBack' <=> FilesReadBack
    BY <2>1 DEF FilesReadBack, Assets, OwnNames, Extract, LiveNamed, Live
  <2> QED
    BY <2>2, <2>3, <2>6, <2>8, <2>12, <2>13, <2>14, <2>15 DEF AInv
<1> QED
  BY <1>1, <1>2, <1>3, <1>4, <1>5, <1>6, <1>7, <1>8, <1>9, <1>10, <1>11, <1>12, <1>13
  DEF AssemblyNext

LEMMA AssemblyInvariance == AssemblySpec => []AInv
BY StagingAInv, AssemblyStepAInv, PTL DEF AssemblySpec

\* A build walks its stages with variables of their types, and the root ends
\* up on a block of the file system below the reserve, wherever the space
\* check moved it (prepare_for_assembly, assemble_logical).
THEOREM AssemblyTypes == AssemblySpec => []AssemblyTypeOK
<1>1. AInv => AssemblyTypeOK
  BY DEF AInv
<1> QED
  BY <1>1, AssemblyInvariance, PTL

\* Every staged file is read back from the built image with its content,
\* under a name that stays its own there, for every overflow, set of
\* payloads, root and set of blobs (assemble_logical, add_spare, read).
THEOREM StagedFilesReadBack == AssemblySpec => []FilesReadBack
<1>1. AInv => FilesReadBack
  BY DEF AInv
<1> QED
  BY <1>1, AssemblyInvariance, PTL

\* A blob of the mobile store is in the finished image, typed as one, or no
\* block was left for it (MobileStore::write_logical, add_spare).
THEOREM BlobsKept == AssemblySpec => []MobileKept
<1>1. AInv => MobileKept
  <2> SUFFICES ASSUME AInv, stage = "built", NEW k \in 1..MobileSlots
               PROVE  IF mobile[k] = 0 THEN job.blobs[k] = Zero \/ MobileRoom = {}
                      ELSE image[mobile[k]].chunk = job.blobs[k] /\ spare[mobile[k]] = "mobile"
    BY DEF MobileKept
  <2>1. BlobOK(k) /\ slot = MobileSlots + 1
    BY DEF AInv, BlobsOK, Late
  <2>2. k < slot
    BY <2>1, AssemblyAssumption
  <2> QED
    BY <2>1, <2>2 DEF BlobOK
<1> QED
  BY <1>1, AssemblyInvariance, PTL

\* Of boot chain, patch slots, XeLL and payloads a finished image has lost the
\* block the directory was put on, for every choice of the root, and nothing
\* else that a map keeps: XeLL, and the boot chain of an image without files,
\* only at or above the root (protect_range, allocate_new_block).
THEOREM BootStays == AssemblySpec => []BootIntact
<1>1. AInv => BootIntact
  <2> SUFFICES ASSUME AInv, stage = "built", NEW x \in Boot \cup Xell \cup job.payloads
               PROVE  /\ entries # <<>> /\ x = target => image[x].chunk # BootChunk
                      /\ image[x].chunk # BootChunk =>
                            \/ entries # <<>> /\ x = target
                            \/ Unkept(x) /\ x >= block_number
                            \/ x >= ReserveStart
    BY DEF BootIntact
  <2>1. entries # <<>> => image[target].chunk = Zero /\ block_number = target
    BY DEF AInv, HeldOK, DirectoryOK, OnDisk, Late
  <2>2. x \in Held /\ x < ReserveStart => image[x].chunk = BootChunk
    BY DEF AInv, HeldOK
  <2>3. x \in Nat /\ block_number \in Nat /\ ReserveStart \in Nat
    BY JobFacts, AssemblyAssumption, SizeAssumption, WordFacts DEF AInv, VarsOK
  <2>4. \/ x \in Held
        \/ entries # <<>> /\ x = target
        \/ Unkept(x) /\ x >= block_number
    <3>1. x < block_number \/ x >= block_number
      BY <2>3
    <3>2. CASE entries # <<>> /\ x = block_number
      BY <2>1, <3>2
    <3>3. CASE ~(entries # <<>> /\ x = block_number)
      <4>1. CASE \/ x \in job.payloads \/ x < block_number
                 \/ x \in Boot /\ entries # <<>>
        BY <3>3, <4>1 DEF Held
      <4>2. CASE ~(\/ x \in job.payloads \/ x < block_number
                   \/ x \in Boot /\ entries # <<>>)
        BY <3>1, <4>2 DEF Unkept
      <4> QED
        BY <4>1, <4>2
    <3> QED
      BY <3>2, <3>3
  <2>5. x < ReserveStart \/ x >= ReserveStart
    BY <2>3
  <2> QED
    BY <2>1, <2>2, <2>4, <2>5, AssemblyAssumption
<1> QED
  BY <1>1, AssemblyInvariance, PTL

-----------------------------------------------------------------------------
(* Room: what an allocation takes from the free blocks. *)

LEMMA LowestAtMost ==
    ASSUME NEW S \in SUBSET Blocks, NEW k \in Nat
    PROVE  /\ IsFiniteSet(Lowest(S, k)) /\ Cardinality(Lowest(S, k)) \in Nat
           /\ Cardinality(Lowest(S, k)) <= k /\ Lowest(S, k) \subseteq S
           /\ Cardinality(S) >= k => Cardinality(Lowest(S, k)) >= k
<1> DEFINE L == Lowest(S, k)
<1>1. S \in SUBSET Nat /\ IsFiniteSet(S) /\ Cardinality(S) \in Nat
  BY WordFacts, FS_Subset, FS_CardinalityType
<1>2. L \subseteq S /\ \A x \in L : Cardinality({y \in S : y < x}) < k
  BY DEF Lowest
<1>3. IsFiniteSet(L) /\ Cardinality(L) \in Nat
  BY <1>1, <1>2, FS_Subset, FS_CardinalityType
<1>4. \A x \in L : Rank(S, x) \in 1..k
  <2> SUFFICES ASSUME NEW x \in L PROVE Rank(S, x) \in 1..k
    OBVIOUS
  <2>1. Rank(S, x) \in 1..Cardinality(S)
    BY <1>1, <1>2, RankFacts
  <2> PICK r : r = Cardinality({y \in S : y < x})
    OBVIOUS
  <2>2. r < k /\ Rank(S, x) = r + 1
    BY <1>2 DEF Rank
  <2>3. IsFiniteSet({y \in S : y < x})
    BY <1>1, FS_Subset
  <2>4. r \in Nat
    BY <2>3, FS_CardinalityType
  <2> QED
    BY <2>2, <2>4
<1>5. \A x, y \in L : Rank(S, x) = Rank(S, y) => x = y
  <2>1. \A x, y \in S : Rank(S, x) = Rank(S, y) => x = y
    BY <1>1, RankFacts
  <2> HIDE DEF L
  <2> QED
    BY <1>2, <2>1
<1> DEFINE f == [x \in L |-> Rank(S, x)]
<1> HIDE DEF L
<1>6. f \in Injection(L, 1..k)
  BY <1>4, <1>5 DEF Injection, IsInjective
<1>7. IsFiniteSet(1..k) /\ Cardinality(1..k) = k
  BY FS_Interval
<1> HIDE DEF f
<1>8. Cardinality(L) <= k
  BY <1>6, <1>7, FS_Injection
<1>9. Cardinality(S) >= k => Cardinality(L) >= k
  <2> SUFFICES ASSUME Cardinality(S) >= k, Cardinality(L) < k PROVE FALSE
    BY <1>3
  <2>1. L = S
    BY LowestCount DEF L
  <2> QED
    BY <1>1, <2>1
<1> QED
  BY <1>2, <1>3, <1>8, <1>9 DEF L

\* With as many free blocks as its data needs, an entry without a block gets
\* its data placed, and no more blocks than that are taken.
LEMMA EntryFits ==
    ASSUME IInv, NEW d \in Seq(Chunk), NEW n \in Nat, n = BlocksNeeded(d),
           Cardinality(FreeFrom(block_map, block_number)) >= n
    PROVE  /\ SetEntryData(0, d).ok
           /\ Cardinality(FreeFrom(SetEntryData(0, d).map, block_number))
                 >= Cardinality(FreeFrom(block_map, block_number)) - n
<1> DEFINE avail == FreeFrom(block_map, block_number)
<1>0. n >= 1
  BY NeededFacts
<1>1. avail \in SUBSET Blocks /\ avail \in SUBSET Nat /\ IsFiniteSet(avail)
      /\ Cardinality(avail) \in Nat
  BY WordFacts, FS_Subset, FS_CardinalityType DEF FreeFrom
<1>2. avail # {}
  <2> SUFFICES ASSUME avail = {} PROVE FALSE
    OBVIOUS
  <2>1. Cardinality(avail) = 0
    BY FS_EmptySet
  <2> QED
    BY <1>0, <2>1
<1> PICK first : first = FirstBlock(0)
  OBVIOUS
<1>3. first \in avail
  BY <1>1, <1>2, LeastFact DEF FirstBlock
<1>4. first \in Blocks /\ block_map[first] = Free /\ first # 0
  BY <1>3, SizeAssumption DEF FreeFrom
<1>5. PICK m : m = [block_map EXCEPT ![first] = End]
  OBVIOUS
<1>6. /\ Sound(m) /\ Unlinked(m, first) /\ InUse(m[first]) /\ m[first] = End
      /\ \A x \in Blocks : x # first => m[x] = block_map[x]
  <2>1. /\ Sound(m) /\ Unlinked(m, first) /\ InUse(m[first]) /\ m[first] = End
        /\ \A x \in Blocks : m[x] # block_map[x] => x = first
    BY <1>4, <1>5, ZeroBlock, FirstTaken
  <2> QED
    BY <2>1
<1>7. ~IsLink(m[first]) /\ IsMap(m)
  BY <1>6, WordFacts DEF Sound
<1>8. Chain(m, first) = {first}
  BY <1>4, <1>7, ChainStep
<1>9. Cardinality(Chain(m, first)) = 1
  BY <1>8, FS_Singleton
<1>10. LastOf(m, first) = first
  BY <1>7, <1>8 DEF LastOf
<1> PICK S : S = avail \ {first}
  OBVIOUS
<1>11. FreeFrom(m, block_number) = S
  BY <1>4, <1>6 DEF FreeFrom, Free, End
<1>12. S \in SUBSET Blocks /\ IsFiniteSet(S) /\ Cardinality(S) = Cardinality(avail) - 1
  BY <1>1, <1>3, FS_RemoveElement
<1> HIDE DEF avail
<1> PICK G : G = Growth(m, first, n, block_number)
  OBVIOUS
<1>13. /\ G \subseteq S /\ IsFiniteSet(G) /\ Cardinality(G) \in Nat
       /\ Cardinality(G) = n - 1
  <2>1. CASE n = 1
    <3>1. G = {}
      BY <1>9, <2>1 DEF Growth
    <3>2. IsFiniteSet({}) /\ Cardinality({}) = 0
      BY FS_EmptySet
    <3>3. G \subseteq S /\ IsFiniteSet(G) /\ Cardinality(G) = 0
      BY <3>1, <3>2
    <3> QED
      BY <2>1, <3>3
  <2>2. CASE n # 1
    <3> PICK k \in Nat : k = n - 1
      BY <1>0
    <3>1. G = Lowest(S, k)
      BY <1>0, <1>9, <1>11, <2>2 DEF Growth
    <3>2. Cardinality(S) >= k
      BY <1>1, <1>12 DEF avail
    <3>3. /\ IsFiniteSet(Lowest(S, k)) /\ Cardinality(Lowest(S, k)) \in Nat
          /\ Cardinality(Lowest(S, k)) <= k /\ Lowest(S, k) \subseteq S
          /\ Cardinality(Lowest(S, k)) >= k
      BY <1>12, <3>2, LowestAtMost
    <3>4. Cardinality(Lowest(S, k)) = k
      BY <3>3
    <3> QED
      BY <3>1, <3>3, <3>4
  <2> QED
    BY <2>1, <2>2
<1>14. CanResize(m, first, n, block_number)
  BY <1>0, <1>9, <1>13 DEF CanResize
<1> PICK r : r = Resize(m, first, n, block_number)
  OBVIOUS
<1>15. r = Extend(m, first, G)
  BY <1>0, <1>9, <1>10 DEF Resize
<1>16. SetEntryData(0, d).ok /\ SetEntryData(0, d).map = r
  BY <1>4, <1>5, <1>14 DEF SetEntryData
<1>17. \A x \in S \ G : r[x] = m[x]
  BY <1>12, <1>15 DEF Extend
<1>18. S \ G \subseteq FreeFrom(r, block_number)
  BY <1>11, <1>17 DEF FreeFrom
<1>19. Cardinality(S \ G) = Cardinality(avail) - n
  <2>1. S \cap G = G
    BY <1>13
  <2>2. IsFiniteSet(S)
    BY <1>12
  <2>3. Cardinality(S \ G) = Cardinality(S) - Cardinality(S \cap G)
    BY <2>2, FS_Difference, Zenon
  <2>4. Cardinality(S \ G) = Cardinality(S) - Cardinality(G)
    BY <2>1, <2>3
  <2>5. Cardinality(avail) \in Nat
    BY <1>1 DEF avail
  <2> QED
    BY <1>12, <1>13, <2>4, <2>5
<1>20. Cardinality(S \ G) <= Cardinality(FreeFrom(r, block_number))
  <2>1. FreeFrom(r, block_number) \subseteq Blocks
    BY DEF FreeFrom
  <2>2. IsFiniteSet(FreeFrom(r, block_number))
    BY <2>1, WordFacts, FS_Subset
  <2> QED
    BY <1>18, <2>2, FS_Subset
<1>21. Cardinality(FreeFrom(r, block_number)) \in Nat
  <2>1. FreeFrom(r, block_number) \subseteq Blocks
    BY DEF FreeFrom
  <2> QED
    BY <2>1, WordFacts, FS_Subset, FS_CardinalityType
<1> QED
  BY <1>1, <1>16, <1>19, <1>20, <1>21 DEF avail


-----------------------------------------------------------------------------
(* Room: from the space check to the last root block. *)

\* The blocks the entries from w on need.
NeedFrom(es, w) == Cardinality(BlocksIn(es, w..Len(es)))

\* The space check counted all that is placed, on blocks that are all free.
Counted == roomy /\ job.overflow[2] = <<>>
Clear   == \A x \in Boot \cup job.payloads : x <= target

RoomOK ==
    /\ stage \in {"split1", "split2", "place"} => target = 0
    /\ stage = "boot" /\ roomy => Required <= Minus(ConfigStart, target)
    /\ stage \in {"payloads", "root"} /\ Counted =>
          DataBlocks(entries) + RootBlocksNeeded <= Minus(ConfigStart, target)
    /\ stage = "fs" /\ Counted /\ Clear =>
          /\ Cardinality(FreeFrom(block_map, target)) + 1
                >= NeedFrom(entries, writing) + RootBlocksNeeded
          /\ \A i \in writing..Len(entries) : entries[i].block_number = 0
    /\ stage = "failed" /\ target # 0 => ~(Counted /\ Clear)

\* The directory takes as many blocks as before while no entry comes or goes.
LEMMA RootNeedsSame ==
    ASSUME \A i \in 1..Len(entries) : ~entries[i].deleted, Len(entries') = Len(entries),
           \A i \in 1..Len(entries') : ~entries'[i].deleted
    PROVE  RootBlocksNeeded' = RootBlocksNeeded
<1>1. Live' = Live
  BY DEF Live
<1> QED
  BY <1>1 DEF RootBlocksNeeded

\* The overflow of CG0 that is prepended is what the space check added for it.
LEMMA PrependedBlocks ==
    ASSUME JobOK, Carries(entries), job.overflow[1] # <<>> => XexpAt(entries, 1) # {},
           NEW fs, fs = Prepended(entries, 1)
    PROVE  DataBlocks(fs) = DataBlocks(entries) + ExtraBlocks /\ Len(fs) = Len(entries)
<1>1. entries \in Seq(Entry) /\ Len(entries) \in Nat /\ Carries(fs)
  <2>1. 1 \in 1..2
    OBVIOUS
  <2>2. Carries(Prepended(entries, 1))
    BY <2>1, PrependedFacts
  <2> QED
    BY <2>2 DEF Carries
<1>2. DataBlocks(entries) = Cardinality(BlocksIn(entries, 1..Len(entries)))
      /\ DataBlocks(fs) = Cardinality(BlocksIn(fs, 1..Len(fs)))
  BY <1>1, DataBlocksIsSum DEF Carries
<1>3. DataBlocks(entries) \in Nat
  BY <1>1, <1>2, SumFacts
<1>4. CASE job.overflow[1] = <<>>
  <2>1. fs = entries
    BY <1>4 DEF Prepended
  <2>2. ExtraBlocks = 0
    BY <1>4 DEF ExtraBlocks
  <2> QED
    BY <1>3, <2>1, <2>2
<1>5. CASE job.overflow[1] # <<>>
  <2>15. PICK i : i = First(XexpAt(entries, 1))
    OBVIOUS
  <2>0. XexpAt(entries, 1) # {}
    BY <1>5
  <2>1. i \in 1..Len(entries)
    BY <1>1, <2>0, <2>15, XexpFirst
  <2>2. entries[i] \in Entry
    BY <1>1, <2>1
  <2>16. PICK f : f = job.overflow[1] \o entries[i].data
    OBVIOUS
  <2>3. f \in Seq(Chunk)
    <3>1. entries[i].data \in Seq(Chunk)
      BY <2>2 DEF Entry
    <3>2. job.overflow[1] \in Seq(Chunk)
      BY JobFacts
    <3> QED
      BY <2>16, <3>1, <3>2, SeqJoin
  <2>4. fs = WithData(entries, i, f)
    BY <1>5, <2>0, <2>15, <2>16 DEF Prepended, WithData
  <2>5. /\ fs \in Seq(Entry) /\ Len(fs) = Len(entries) /\ fs[i].data = f
        /\ \A j \in 1..Len(entries) : j # i => fs[j] = entries[j]
    <3> DEFINE ws == WithData(entries, i, f)
    <3>1. /\ ws \in Seq(Entry) /\ Len(ws) = Len(entries) /\ ws[i].data = f
          /\ \A j \in 1..Len(entries) : j # i => ws[j] = entries[j]
      BY <1>1, <2>1, <2>3, WithDataFacts
    <3> QED
      BY <2>4, <3>1
  <2> PICK S : S = 1..Len(entries) \ {i}
    OBVIOUS
  <2>6. S \in SUBSET (1..Len(entries)) /\ i \notin S /\ S \cup {i} = 1..Len(entries)
    BY <2>1
  <2>7. Cardinality(BlocksIn(entries, S \cup {i})) =
           Cardinality(BlocksIn(entries, S)) + BlocksNeeded(entries[i].data)
    BY <1>1, <2>1, <2>6, SumAdd
  <2>8. S \in SUBSET (1..Len(fs)) /\ i \in 1..Len(fs)
    BY <2>1, <2>5, <2>6
  <2>9. Cardinality(BlocksIn(fs, S \cup {i})) =
           Cardinality(BlocksIn(fs, S)) + BlocksNeeded(fs[i].data)
    BY <2>5, <2>6, <2>8, SumAdd
  <2>10. BlocksIn(fs, S) = BlocksIn(entries, S)
    <3>1. \A j \in S : BlocksNeeded(fs[j].data) = BlocksNeeded(entries[j].data)
      BY <2>5, <2>6
    <3> QED
      BY <3>1, SumSame
  <2>11. /\ Cardinality(BlocksIn(entries, S)) \in Nat
         /\ BlocksNeeded(entries[i].data) \in Nat /\ BlocksNeeded(f) \in Nat
    <3>1. entries[i].data \in Seq(Chunk)
      BY <2>2 DEF Entry
    <3> QED
      BY <1>1, <2>3, <2>6, <3>1, SumFacts, NeededFacts
  <2>12. ExtraBlocks = BlocksNeeded(f) - BlocksNeeded(entries[i].data)
    BY <1>5, <2>15, <2>16 DEF ExtraBlocks
  <2>13. DataBlocks(entries) =
            Cardinality(BlocksIn(entries, S)) + BlocksNeeded(entries[i].data)
    BY <1>2, <2>6, <2>7
  <2>14. DataBlocks(fs) = Cardinality(BlocksIn(entries, S)) + BlocksNeeded(f)
    BY <1>2, <2>5, <2>6, <2>9, <2>10
  <2> QED
    BY <2>5, <2>11, <2>12, <2>13, <2>14
<1> QED
  BY <1>4, <1>5


\* The blocks between the root and the configuration blocks are free at first.
LEMMA FreshRoom ==
    ASSUME JobOK, target \in FirstUsable..(ReserveStart - 1), Clear,
           NEW n \in Nat \ {0}, n <= Minus(ConfigStart, target)
    PROVE  /\ Cardinality(FreeFrom(FreshMap, target)) \in Nat
           /\ Cardinality(FreeFrom(FreshMap, target)) + 1 >= n
<1>0. /\ target \in Nat /\ ReserveStart \in Nat /\ N \in Nat /\ FirstUsable \in Nat
      /\ ConfigBlocks \in Nat /\ ReserveStart <= N /\ target >= FirstUsable
  BY SizeAssumption
<1> PICK c : c = ConfigStart
  OBVIOUS
<1>1. c \in Nat /\ c <= ReserveStart
      /\ c = IF ReserveStart > ConfigBlocks THEN ReserveStart - ConfigBlocks ELSE 0
  BY <1>0 DEF ConfigStart, Minus
<1>2. c > target /\ n <= c - target
  BY <1>0, <1>1 DEF Minus
<1> DEFINE I == (target + 1)..(c - 1)
<1>3. ASSUME NEW x \in I
      PROVE  x \in FreeFrom(FreshMap, target)
  <2>1. /\ x \in Blocks /\ x > target /\ x < c /\ x < ReserveStart /\ x >= FirstUsable
        /\ x # target /\ x >= target
    BY <1>0, <1>1 DEF Blocks
  <2>2. x \notin Boot \cup job.payloads
    <3> SUFFICES ASSUME x \in Boot \cup job.payloads PROVE FALSE
      OBVIOUS
    <3>1. x <= target
      BY DEF Clear
    <3> QED
      BY <1>0, <2>1, <3>1, WordFacts
  <2>3. FreshMap[x] = Defaults(target)[x]
    BY <2>1, <2>2, FreshMapFacts
  <2>4. Defaults(target)[x] = Free
    <3>1. x \notin c..(c + ConfigBlocks)
      BY <2>1, <1>0, <1>1
    <3>2. ~(x < FirstUsable \/ x < target \/ x >= ReserveStart)
      BY <1>0, <2>1
    <3> QED
      BY <1>1, <2>1, <3>1, <3>2 DEF Defaults
  <2> QED
    BY <2>1, <2>3, <2>4 DEF FreeFrom
<1>4. IsFiniteSet(FreeFrom(FreshMap, target))
  <2>1. FreeFrom(FreshMap, target) \subseteq Blocks
    BY DEF FreeFrom
  <2> QED
    BY <2>1, WordFacts, FS_Subset
<1>5. IsFiniteSet(I) /\ Cardinality(I) = c - 1 - target
  <2>1. target + 1 \in Int /\ c - 1 \in Int
    BY <1>0, <1>1
  <2>2. Cardinality(I) = IF target + 1 > c - 1 THEN 0 ELSE (c - 1) - (target + 1) + 1
    BY <2>1, FS_Interval
  <2> QED
    BY <1>0, <1>1, <1>2, <2>1, <2>2, FS_Interval
<1> HIDE DEF I
<1>6. Cardinality(I) <= Cardinality(FreeFrom(FreshMap, target))
  BY <1>3, <1>4, FS_Subset
<1>7. Cardinality(FreeFrom(FreshMap, target)) \in Nat
  BY <1>4, FS_CardinalityType
<1> QED
  BY <1>0, <1>1, <1>2, <1>5, <1>6, <1>7

LEMMA SplitRoom ==
    ASSUME RoomOK, NEW k, NEW here, NEW next, Split(k, here, next),
           here \in {"split1", "split2"}, next \in {"split2", "place"}
    PROVE  RoomOK'
<1>1. target = 0 /\ target' = target /\ stage' \in {"split2", "place", "failed"}
  BY DEF RoomOK, Split
<1> QED
  BY <1>1 DEF RoomOK

LEMMA PlaceRoom ==
    ASSUME RoomOK, Place
    PROVE  RoomOK'
<1>1. Required' = Required /\ ConfigStart' = ConfigStart
  BY DEF Place, mountVars, vars, Required, ExtraBlocks, RootBlocksNeeded, Live, XexpAt,
         ConfigStart
<1>2. stage' = "boot" /\ roomy' = (Required <= Minus(ConfigStart, target'))
  BY DEF Place
<1> QED
  BY <1>1, <1>2 DEF RoomOK

LEMMA WriteBootRoom ==
    ASSUME AInv, AInv', RoomOK, WriteBoot
    PROVE  RoomOK'
<1>0. /\ stage = "boot" /\ stage' = "payloads" /\ JobOK /\ Carries(entries)
      /\ job.overflow[1] # <<>> => XexpAt(entries, 1) # {}
      /\ entries' = Prepended(Prepended(entries, 1), 2)
      /\ UNCHANGED <<job, target, roomy>>
  BY DEF AInv, EarlyOK, Early, WriteBoot
<1> SUFFICES ASSUME Counted
             PROVE  DataBlocks(entries') + RootBlocksNeeded' <= Minus(ConfigStart, target)
  BY <1>0 DEF RoomOK, Counted
<1>1. entries' = Prepended(entries, 1)
  BY <1>0 DEF Counted, Prepended
<1>2. DataBlocks(entries') = DataBlocks(entries) + ExtraBlocks /\ Len(entries') = Len(entries)
  BY <1>0, <1>1, PrependedBlocks
<1>3. Carries(entries)'
  BY <1>0 DEF AInv, EarlyOK, Early
<1>4. RootBlocksNeeded' = RootBlocksNeeded
  BY <1>0, <1>2, <1>3, RootNeedsSame DEF Carries
<1>5. Required <= Minus(ConfigStart, target)
  BY <1>0 DEF RoomOK, Counted
<1> QED
  BY <1>2, <1>4, <1>5 DEF Required

LEMMA WritePayloadsRoom ==
    ASSUME RoomOK, WritePayloads
    PROVE  RoomOK'
<1>1. RootBlocksNeeded' = RootBlocksNeeded
  BY DEF WritePayloads, RootBlocksNeeded, Live
<1> QED
  BY <1>1 DEF RoomOK, WritePayloads, Counted


LEMMA StartRootRoom ==
    ASSUME AInv, AInv', RoomOK, StartRoot
    PROVE  RoomOK'
<1>1. CASE stage' = "mobile"
  BY <1>1 DEF RoomOK
<1>2. CASE stage' = "fs" /\ entries' = Unplaced(entries) /\ block_map' = FreshMap /\ writing' = 1
  <2>0. /\ stage = "root" /\ JobOK /\ Carries(entries) /\ Carries(entries)'
        /\ target \in FirstUsable..(ReserveStart - 1)
        /\ UNCHANGED <<job, target, roomy>>
    BY <1>2 DEF AInv, EarlyOK, Early, PlacingOK, StartRoot, AssemblyTypeOK
  <2> SUFFICES ASSUME Counted, Clear
               PROVE  /\ Cardinality(FreeFrom(block_map', target)) + 1
                            >= NeedFrom(entries', writing') + RootBlocksNeeded'
                      /\ \A i \in writing'..Len(entries') : entries'[i].block_number = 0
    BY <1>2, <2>0 DEF RoomOK, Counted, Clear
  <2>1. /\ Carries(entries') /\ Len(entries') = Len(entries)
        /\ \A i \in 1..Len(entries') : /\ entries'[i].block_number = 0
                                       /\ entries'[i].data = entries[i].data
    BY <1>2, <2>0, UnplacedFacts
  <2>2. RootBlocksNeeded' = RootBlocksNeeded
    BY <2>0, <2>1, RootNeedsSame DEF Carries
  <2>3. DataBlocks(entries) + RootBlocksNeeded <= Minus(ConfigStart, target)
    BY <2>0 DEF RoomOK
  <2>4. RootBlocksNeeded \in Nat /\ RootBlocksNeeded >= 1 /\ DataBlocks(entries) \in Nat
    <3>1. entries \in Seq(Entry) /\ Len(entries) \in Nat
      BY <2>0 DEF Carries
    <3> QED
      BY <2>0, <3>1, RootNeeds, DataBlocksIsSum, SumFacts DEF Carries
  <2>5. NeedFrom(entries', 1) = DataBlocks(entries)
    <3>1. BlocksIn(entries', 1..Len(entries')) = BlocksIn(entries, 1..Len(entries))
      <4>1. \A i \in 1..Len(entries) :
               BlocksNeeded(entries'[i].data) = BlocksNeeded(entries[i].data)
        BY <2>1
      <4> QED
        BY <2>1, <4>1, SumSame
    <3>2. DataBlocks(entries) = Cardinality(BlocksIn(entries, 1..Len(entries)))
      BY <2>0, DataBlocksIsSum DEF Carries
    <3> QED
      BY <3>1, <3>2 DEF NeedFrom
  <2> PICK n \in Nat \ {0} : n = DataBlocks(entries) + RootBlocksNeeded
    BY <2>4
  <2>6. Cardinality(FreeFrom(FreshMap, target)) + 1 >= n
    BY <2>0, <2>3, FreshRoom
  <2> QED
    BY <1>2, <2>1, <2>2, <2>5, <2>6
<1> QED
  BY <1>1, <1>2 DEF StartRoot

\* The entry at w, and those behind it.
LEMMA NeedSplit ==
    ASSUME NEW es \in Seq(Entry), NEW w \in 1..Len(es)
    PROVE  /\ NeedFrom(es, w) = BlocksNeeded(es[w].data) + NeedFrom(es, w + 1)
           /\ NeedFrom(es, w) \in Nat /\ NeedFrom(es, w + 1) \in Nat
           /\ BlocksNeeded(es[w].data) \in Nat
<1> PICK S : S = (w + 1)..Len(es)
  OBVIOUS
<1>1. S \in SUBSET (1..Len(es)) /\ w \notin S /\ S \cup {w} = w..Len(es)
  OBVIOUS
<1>2. Cardinality(BlocksIn(es, S \cup {w})) =
         Cardinality(BlocksIn(es, S)) + BlocksNeeded(es[w].data)
  BY <1>1, SumAdd
<1>3. Cardinality(BlocksIn(es, S)) \in Nat
  BY <1>1, SumFacts
<1>4. BlocksNeeded(es[w].data) \in Nat
  <2>1. es[w] \in Entry
    OBVIOUS
  <2> QED
    BY <2>1, NeededFacts DEF Entry
<1>5. NeedFrom(es, w) = Cardinality(BlocksIn(es, S \cup {w}))
  BY <1>1 DEF NeedFrom
<1>6. NeedFrom(es, w + 1) = Cardinality(BlocksIn(es, S))
  BY DEF NeedFrom
<1> QED
  BY <1>2, <1>3, <1>4, <1>5, <1>6

LEMMA PlaceFileRoom ==
    ASSUME AInv, RoomOK, PlaceFile
    PROVE  RoomOK'
<1>0. /\ stage = "fs" /\ PlacingOK /\ IInv /\ Carries(entries) /\ block_number = target
      /\ writing \in 1..Len(entries) /\ ~entries[writing].deleted /\ result = "running"
      /\ UNCHANGED <<job, target, roomy>>
  BY DEF AInv, PlacingOK, PlaceFile, WriteEntry, Carries, WritingOK
<1> PICK s : s = SetEntryData(entries[writing].block_number, entries[writing].data)
  OBVIOUS
<1>1. /\ block_map' = s.map
      /\ writing' = IF s.ok THEN writing + 1 ELSE 0
      /\ result' = IF s.ok THEN result ELSE "err"
      /\ stage' = IF result' = "err" THEN "failed" ELSE "fs"
  BY <1>0 DEF PlaceFile, WriteEntry
<1>2. CASE ~(Counted /\ Clear)
  BY <1>0, <1>1, <1>2 DEF RoomOK, Counted, Clear
<1>3. CASE Counted /\ Clear
  <2>1. /\ Cardinality(FreeFrom(block_map, target)) + 1
              >= NeedFrom(entries, writing) + RootBlocksNeeded
        /\ \A i \in writing..Len(entries) : entries[i].block_number = 0
    BY <1>0, <1>3 DEF RoomOK
  <2>2. /\ entries' \in Seq(Entry) /\ Len(entries') = Len(entries) /\ Len(entries) \in Nat
        /\ entries \in Seq(Entry)
        /\ \A i \in 1..Len(entries) :
              /\ entries'[i].data = entries[i].data
              /\ entries'[i].deleted = entries[i].deleted
              /\ i # writing => entries'[i] = entries[i]
    BY <1>0, PlaceFileEntries DEF Carries
  <2>3. RootBlocksNeeded' = RootBlocksNeeded /\ RootBlocksNeeded \in Nat /\ RootBlocksNeeded >= 1
    BY <1>0, <2>2, RootNeedsSame, RootNeeds DEF Carries
  <2>4. entries[writing].block_number = 0 /\ entries[writing].data \in Seq(Chunk)
    BY <1>0, <2>1, <2>2, EntryTypes
  <2> PICK n : n = BlocksNeeded(entries[writing].data)
    OBVIOUS
  <2>5. /\ NeedFrom(entries, writing) = n + NeedFrom(entries, writing + 1)
        /\ NeedFrom(entries, writing + 1) \in Nat /\ n \in Nat
    BY <1>0, <2>2, NeedSplit
  <2> PICK a : a = Cardinality(FreeFrom(block_map, target))
    OBVIOUS
  <2>6. a \in Nat
    <3>1. FreeFrom(block_map, target) \subseteq Blocks
      BY DEF FreeFrom
    <3> QED
      BY <3>1, WordFacts, FS_Subset, FS_CardinalityType
  <2>7. a >= n
    BY <2>1, <2>3, <2>5, <2>6
  <2>8. s.ok /\ Cardinality(FreeFrom(s.map, target)) >= a - n
    BY <1>0, <2>4, <2>5, <2>7, EntryFits
  <2>9. BlocksIn(entries', (writing + 1)..Len(entries')) =
           BlocksIn(entries, (writing + 1)..Len(entries))
    <3>1. \A i \in (writing + 1)..Len(entries) : i \in 1..Len(entries)
      BY <1>0, <2>2
    <3>2. \A i \in (writing + 1)..Len(entries) :
             BlocksNeeded(entries'[i].data) = BlocksNeeded(entries[i].data)
      BY <2>2, <3>1
    <3> QED
      BY <2>2, <3>2, SumSame
  <2>10. NeedFrom(entries', writing') = NeedFrom(entries, writing + 1)
    BY <1>1, <2>8, <2>9 DEF NeedFrom
  <2>11. \A i \in writing'..Len(entries') : entries'[i].block_number = 0
    <3>1. \A i \in (writing + 1)..Len(entries) :
             i \in 1..Len(entries) /\ i \in writing..Len(entries) /\ i # writing
      BY <1>0, <2>2
    <3> QED
      BY <1>1, <2>1, <2>2, <2>8, <3>1
  <2>12. stage' = "fs"
    BY <1>0, <1>1, <2>8
  <2>13. Cardinality(FreeFrom(s.map, target)) \in Nat
    <3>1. FreeFrom(s.map, target) \subseteq Blocks
      BY DEF FreeFrom
    <3> QED
      BY <3>1, WordFacts, FS_Subset, FS_CardinalityType
  <2> PICK c : c = Cardinality(FreeFrom(s.map, target))
    OBVIOUS
  <2> PICK r : r = RootBlocksNeeded
    OBVIOUS
  <2> PICK q : q = NeedFrom(entries, writing + 1)
    OBVIOUS
  <2>14. c + 1 >= q + r
    <3>1. a + 1 >= (n + q) + r /\ c >= a - n
      BY <2>1, <2>5, <2>8
    <3>2. a \in Nat /\ n \in Nat /\ q \in Nat /\ r \in Nat /\ c \in Nat
      BY <2>3, <2>5, <2>6, <2>13
    <3> QED
      BY <3>1, <3>2, SMT
  <2>15. Cardinality(FreeFrom(block_map', target')) + 1
            >= NeedFrom(entries', writing') + RootBlocksNeeded'
    BY <1>0, <1>1, <2>3, <2>10, <2>14
  <2> QED
    BY <2>11, <2>12, <2>15 DEF RoomOK
<1> QED
  BY <1>2, <1>3


LEMMA PlaceRootRoom ==
    ASSUME AInv, RoomOK, PlaceRoot
    PROVE  RoomOK'
<1>0. /\ stage = "fs" /\ PlacingOK /\ IInv /\ Carries(entries) /\ block_number = target
      /\ writing = Len(entries) + 1 /\ target \in FirstUsable..(ReserveStart - 1)
      /\ UNCHANGED <<job, target, roomy>>
      /\ stage' = IF result' = "err" THEN "failed" ELSE "mobile"
  BY DEF AInv, PlacingOK, PlaceRoot, WriteRoot, AssemblyTypeOK
<1>1. target # 0
  BY <1>0, SizeAssumption
<1>2. CASE ~(Counted /\ Clear) \/ stage' = "mobile"
  BY <1>0, <1>2 DEF RoomOK, Counted, Clear
<1>3. CASE Counted /\ Clear
  <2>1. Cardinality(FreeFrom(block_map, target)) + 1
           >= NeedFrom(entries, writing) + RootBlocksNeeded
    BY <1>0, <1>3 DEF RoomOK
  <2>2. NeedFrom(entries, writing) \in Nat
    <3>1. entries \in Seq(Entry) /\ writing..Len(entries) \in SUBSET (1..Len(entries))
      BY <1>0 DEF Carries
    <3> QED
      BY <3>1, SumFacts DEF NeedFrom
  <2>3. RootBlocksNeeded \in Nat /\ RootBlocksNeeded >= 1
    BY <1>0, RootNeedsBlocks
  <2> PICK k \in Nat : k = RootBlocksNeeded - 1
    BY <2>3
  <2> DEFINE F == FreeFrom(block_map, target)
             G == FreeFrom(RootCut, target)
  <2>4. F \subseteq Blocks /\ G \subseteq Blocks
    BY DEF FreeFrom
  <2>5. IsFiniteSet(G) /\ Cardinality(G) \in Nat /\ Cardinality(F) \in Nat
    BY <2>4, WordFacts, FS_Subset, FS_CardinalityType
  <2>6. F \subseteq G
    <3> SUFFICES ASSUME NEW x \in F PROVE RootCut[x] = Free
      BY DEF FreeFrom
    <3>1. x \in Blocks /\ block_map[x] = Free
      BY DEF FreeFrom
    <3>2. x # block_number
      BY <1>0, <3>1 DEF IInv, RootOK
    <3>3. x \in RootChain => RootCut[x] = Free
      BY <1>0, <1>1, <3>2, RootCutWords
    <3>4. x \notin RootChain => RootCut[x] = block_map[x]
      BY <1>0, <3>1, <3>2, RootCutWords
    <3> QED
      BY <3>1, <3>3, <3>4
  <2>7. Cardinality(F) <= Cardinality(G)
    <3> HIDE DEF F, G
    <3> QED
      BY <2>5, <2>6, FS_Subset
  <2>8. Cardinality(G) >= k
    BY <2>1, <2>2, <2>3, <2>5, <2>7
  <2>9. RootGrowth = Lowest(G, k)
    BY <1>0, <1>1 DEF RootGrowth
  <2>10. Cardinality(Lowest(G, k)) >= k /\ Cardinality(Lowest(G, k)) \in Nat
    <3> HIDE DEF G
    <3> QED
      BY <2>4, <2>8, LowestAtMost
  <2>11. ~(Cardinality(RootGrowth) + 1 < RootBlocksNeeded)
    BY <2>3, <2>9, <2>10
  <2>12. result' = "ok"
    BY <1>0, <1>1, <2>11 DEF PlaceRoot, WriteRoot
  <2> QED
    BY <1>0, <2>12 DEF RoomOK
<1> QED
  BY <1>2, <1>3

LEMMA RoomStep ==
    ASSUME AInv, AInv', RoomOK, [AssemblyNext]_allVars
    PROVE  RoomOK'
<1>1. CASE Split1
  BY <1>1, SplitRoom DEF Split1
<1>2. CASE Split2
  BY <1>2, SplitRoom DEF Split2
<1>3. CASE Place
  BY <1>3, PlaceRoom
<1>4. CASE WriteBoot
  BY <1>4, WriteBootRoom
<1>5. CASE WritePayloads
  BY <1>5, WritePayloadsRoom
<1>6. CASE StartRoot
  BY <1>6, StartRootRoom
<1>7. CASE PlaceFile
  BY <1>7, PlaceFileRoom
<1>8. CASE PlaceRoot
  BY <1>8, PlaceRootRoom
<1>9. CASE PlaceMobile \/ Finalize \/ Scan \/ ReadBack
  <2>1. stage' \in {"mobile", "built", "bare", "scanned", "loaded"}
    BY <1>9 DEF PlaceMobile, Finalize, Scan, ReadBack
  <2> QED
    BY <2>1 DEF RoomOK
<1>10. CASE UNCHANGED allVars
  <2>1. UNCHANGED <<block_number, entries, block_map, writing, stage, job, target, roomy>>
    BY <1>10 DEF allVars, buildVars, mountVars, vars
  <2>2. RootBlocksNeeded' = RootBlocksNeeded
    BY <2>1 DEF RootBlocksNeeded, Live
  <2>3. Required' = Required
    BY <2>1, <2>2 DEF Required, ExtraBlocks, XexpAt
  <2> QED
    BY <2>1, <2>2, <2>3 DEF RoomOK, Counted, Clear
<1> QED
  BY <1>1, <1>2, <1>3, <1>4, <1>5, <1>6, <1>7, <1>8, <1>9, <1>10 DEF AssemblyNext

\* When the space check finds room, placing the files runs out of blocks only
\* for what the check does not count: boot chain or payloads above the root
\* and the overflow of CG1 (assemble_logical).
THEOREM SpaceCheckIsRight == AssemblySpec => []RoomIsEnough
<1>1. Staging => RoomOK
  BY DEF Staging, RoomOK
<1>2. AInv /\ AInv' /\ RoomOK /\ [AssemblyNext]_allVars => RoomOK'
  BY RoomStep
<1>3. AInv /\ RoomOK => RoomIsEnough
  <2> SUFFICES ASSUME AInv, RoomOK, stage = "failed", target # 0, roomy,
                      job.overflow[2] = <<>>
               PROVE  \E x \in Boot \cup job.payloads : x > target
    BY DEF RoomIsEnough
  <2>1. ~Clear
    BY DEF RoomOK, Counted
  <2>2. PICK x \in Boot \cup job.payloads : ~(x <= target)
    BY <2>1 DEF Clear
  <2>3. x \in Nat /\ target \in Nat
    <3>1. x \in Blocks
      BY JobFacts, AssemblyAssumption DEF AInv
    <3>2. FirstUsable \in Nat /\ ReserveStart \in Nat /\ N \in Nat
      BY SizeAssumption
    <3>3. target \in Blocks \/ target \in FirstUsable..(ReserveStart - 1)
      BY DEF AInv, AssemblyTypeOK
    <3> QED
      BY <3>1, <3>2, <3>3 DEF Blocks
  <2> QED
    BY <2>2, <2>3
<1> QED
  BY <1>1, <1>2, <1>3, AssemblyInvariance, PTL DEF AssemblySpec

=============================================================================
