---------------------------- MODULE SearchProofs ----------------------------
(***************************************************************************)
(* What a search guarantees for every INI, set of options, contents of the *)
(* folders and dump: types, that it fails only for a line with no          *)
(* acceptable copy, that a built image holds what the INI lists, and that  *)
(* it is the console's whose dump lies in the data folder.                 *)
(*                                                                         *)
(* The inductive invariant is about the lines that were passed: each has a *)
(* copy that its checks accept, and for each update line that was in no    *)
(* update every container has been read, so that the FlashFS files inside  *)
(* are known.  That an image is paired with the dump's console needs no    *)
(* more: it is a matter of the step that builds it.                        *)
(***************************************************************************)
EXTENDS Search, FiniteSetTheorems, WellFoundedInduction, TLAPS

-----------------------------------------------------------------------------
(* First and last places. *)

LEMMA FirstFact ==
    ASSUME NEW S, S \subseteq Nat, S # {}
    PROVE  First(S) \in S /\ \A y \in S : First(S) <= y
<1>1. PICK x \in S : \A y \in S : ~ (<<y, x>> \in OpToRel(<, Nat))
  BY NatLessThanWellFounded, WFMin
<1>2. \A y \in S : x <= y
  <2> SUFFICES ASSUME NEW y \in S, y < x PROVE FALSE
    OBVIOUS
  <2>1. <<y, x>> \in OpToRel(<, Nat)
    BY DEF OpToRel
  <2> QED
    BY <1>1, <2>1
<1> QED
  BY <1>2 DEF First

LEMMA LastFact ==
    ASSUME NEW n \in Nat, NEW S, S \subseteq 1..n, S # {}
    PROVE  \E i \in S : \A j \in S : j <= i
<1> DEFINE T == {m \in 0..n : n - m \in S}
<1>1. PICK i \in S : TRUE
  OBVIOUS
<1>2. n - i \in T
  <2>1. i \in 1..n /\ n - (n - i) = i
    OBVIOUS
  <2> QED
    BY <2>1
<1>3. PICK t \in T : \A u \in T : t <= u
  <2>0. T \subseteq Nat
    OBVIOUS
  <2> HIDE DEF T
  <2>1. T \subseteq Nat /\ T # {}
    BY <1>2, <2>0
  <2>2. First(T) \in T /\ \A u \in T : First(T) <= u
    BY <2>1, FirstFact, Zenon
  <2> QED
    BY <2>2
<1>4. ASSUME NEW j \in S PROVE j <= n - t
  <2>1. j \in 1..n /\ n - (n - j) = j
    OBVIOUS
  <2>2. n - j \in T
    BY <2>1
  <2>3. t <= n - j /\ t \in 0..n
    BY <1>3, <2>2
  <2> QED
    BY <2>1, <2>3
<1>5. n - t \in S
  BY <1>3
<1> QED
  BY <1>4, <1>5

-----------------------------------------------------------------------------
(* Tiers. *)

LEMMA FirstOfFacts ==
    ASSUME NEW X, NEW t \in Seq(SUBSET X)
    PROVE  /\ FirstOf(t) \subseteq X
           /\ FirstOf(t) = {} <=> \A i \in 1..Len(t) : t[i] = {}
<1> DEFINE hits == {i \in DOMAIN t : t[i] # {}}
<1>1. DOMAIN t = 1..Len(t) /\ Len(t) \in Nat /\ \A i \in 1..Len(t) : t[i] \subseteq X
  OBVIOUS
<1>2. CASE hits = {}
  BY <1>1, <1>2 DEF FirstOf
<1>3. CASE hits # {}
  <2>1. First(hits) \in hits
    <3>1. hits \subseteq Nat
      BY <1>1
    <3> HIDE DEF hits
    <3> QED
      BY <1>3, <3>1, FirstFact, Zenon
  <2>2. FirstOf(t) = t[First(hits)]
    BY <1>3 DEF FirstOf
  <2> QED
    BY <1>1, <2>1, <2>2
<1> QED
  BY <1>2, <1>3

-----------------------------------------------------------------------------
(* The invariant. *)

\* What the checks of a line let through.
Good(line)     == {c \in Section : Accepts(line, c)}
GoodData(line) == {d \in Data : AcceptsFile(line, d)}

ParsedLine == [prefix : BlPrefixes, num : Nat, hash : Versions \cup {NoHash}, chain : Nat]
ShelfFile  == [name : AllNames, suffix : 0 .. 2, data : Data]

\* Each chain begins with a first line.
ChainsBegin(lines) ==
    \A i \in DOMAIN lines : lines[i].chain = 1 =>
        \E j \in DOMAIN lines : lines[j].prefix = lines[i].prefix /\ lines[j].chain = 0

GivenOK ==
    /\ options \in Options /\ world \in World
    /\ ini.main \in Seq(ParsedLine) /\ ini.security \in Seq(STRING)
    /\ ini.payloads \in Seq(FileLine(STRING)) /\ ini.files \in Seq(FileLine(AllNames))
    /\ ChainsBegin(ini.main)

\* Before a list is entered the search stands at line 1; Build has a dump.
StageOK ==
    /\ stage \in {"patches", "smc"} => at = 1
    /\ caller = "build" => donor # NoNand

\* The lines of a list that the search has passed.
Passed(list, later) ==
    IF stage = list THEN 1..(at - 1)
    ELSE IF stage \in later THEN 1..Len(Lines(list)) ELSE {}
PassedBoot  == Passed("boot", {"files", "end"})
PassedFiles == Passed("files", {"end"})

\* Lines that share a name ask for the same bytes: what is found for a name is
\* kept once, so that a second line of the name replaces what the first found.
NamesAgree ==
    /\ \A i, j \in DOMAIN ini.main :
          Name(ini.main[i]) = Name(ini.main[j]) => ini.main[i].hash = ini.main[j].hash
    /\ \A i, j \in DOMAIN ini.files :
          /\ ini.files[i].name = ini.files[j].name
          /\ ~ini.files[i].bypassed /\ ~ini.files[j].bypassed
          => ini.files[i].hash = ini.files[j].hash

\* Lines whose copies can be vouched for: no check was waived.
Strict == NamesAgree /\ ~options.gxunsafe

FoundOK ==
    /\ found = [boot |-> found.boot, security |-> found.security,
                payloads |-> found.payloads, files |-> found.files]
    /\ DOMAIN found.files \subseteq AllNames
    /\ \A n \in DOMAIN found.security : n # "kv" => found.security[n] \in Data
    /\ \A i \in PassedBoot : Name(ini.main[i]) \in DOMAIN found.boot
    /\ \A i \in PassedFiles : ~ini.files[i].bypassed => ini.files[i].name \in DOMAIN found.files

ListedOK == Strict =>
    /\ \A i \in PassedBoot : IsAsListed(ini.main[i], found.boot[Name(ini.main[i])])
    /\ \A i \in PassedFiles :
          ~ini.files[i].bypassed => AcceptsFile(ini.files[i], found.files[ini.files[i].name])
    /\ ImageAsListed

\* Every container has been read for a line that none of them satisfies.
PoolOK ==
    /\ pool \in Seq(SUBSET ShelfFile)
    /\ \A i \in PassedBoot : LookedThrough(ini.main[i]) =>
          \A c \in ToSet(world.containers) : \E k \in DOMAIN pool : pool[k] = Wanted(c)

SInv == /\ TypeOK /\ GivenOK /\ StageOK /\ FoundOK /\ ListedOK /\ PoolOK
        /\ FailsOnlyForMissing

-----------------------------------------------------------------------------
(* Initial states. *)

LEMMA ParsedOK ==
    ASSUME NEW raw \in Ini
    PROVE  /\ Parsed(raw).main \in Seq(ParsedLine) /\ Parsed(raw).security = raw.security
           /\ Parsed(raw).payloads = raw.payloads /\ Parsed(raw).files = raw.files
           /\ ChainsBegin(Parsed(raw).main)
<1> DEFINE main == [i \in DOMAIN raw.main |->
                      [prefix |-> raw.main[i].prefix, num |-> raw.main[i].num,
                       hash |-> raw.main[i].hash, chain |-> Chain(raw.main, i)]]
<1>1. raw.main \in Seq(BootLine)
  BY DEF Ini
<1>2. \A i \in DOMAIN raw.main : Chain(raw.main, i) \in Nat
  <2> TAKE i \in DOMAIN raw.main
  <2>1. IsFiniteSet(1..(i - 1)) /\ i \in Int
    BY <1>1, FS_Interval
  <2>2. IsFiniteSet({j \in 1..(i - 1) : raw.main[j].prefix = raw.main[i].prefix})
    BY <2>1, FS_Subset
  <2> QED
    BY <2>2, FS_CardinalityType DEF Chain
<1>3. ASSUME NEW i \in 1..Len(raw.main) PROVE main[i] \in ParsedLine
  <2>1. raw.main[i] \in BootLine /\ i \in DOMAIN raw.main
    BY <1>1
  <2>2. Chain(raw.main, i) \in Nat
    BY <1>2, <2>1
  <2>3. /\ raw.main[i].prefix \in BlPrefixes /\ raw.main[i].num \in Nat
        /\ raw.main[i].hash \in Versions \cup {NoHash}
    BY <2>1 DEF BootLine
  <2>4. main[i] = [prefix |-> raw.main[i].prefix, num |-> raw.main[i].num,
                   hash |-> raw.main[i].hash, chain |-> Chain(raw.main, i)]
    BY <2>1
  <2> HIDE DEF main
  <2> QED
    BY <2>2, <2>3, <2>4 DEF ParsedLine
<1>4. main \in Seq(ParsedLine)
  <2>1. DOMAIN main = 1..Len(raw.main) /\ Len(raw.main) \in Nat
    BY <1>1
  <2> HIDE DEF main
  <2>2. main = [i \in 1..Len(raw.main) |-> main[i]]
    BY <2>1 DEF main
  <2> QED
    BY <1>3, <2>1, <2>2
<1>5. Parsed(raw) = [raw EXCEPT !.main = main]
  BY DEF Parsed
<1>6. ASSUME NEW i \in DOMAIN main, main[i].chain = 1
      PROVE  \E j \in DOMAIN main : main[j].prefix = main[i].prefix /\ main[j].chain = 0
  <2> DEFINE Like == {k \in DOMAIN raw.main : raw.main[k].prefix = raw.main[i].prefix}
             Before(k) == {l \in 1..(k - 1) : raw.main[l].prefix = raw.main[k].prefix}
  <2>1. DOMAIN main = DOMAIN raw.main /\ DOMAIN raw.main = 1..Len(raw.main)
        /\ \A k \in DOMAIN main : main[k].prefix = raw.main[k].prefix
                                /\ main[k].chain = Cardinality(Before(k))
    BY <1>1 DEF Chain
  <2>2. i \in Like /\ Like \subseteq Nat /\ Like \subseteq DOMAIN raw.main
    BY <1>6, <2>1
  <2>3. First(Like) \in Like /\ \A k \in Like : First(Like) <= k
    <3> HIDE DEF Like
    <3>1. Like # {}
      BY <2>2
    <3> QED
      BY <2>2, <3>1, FirstFact
  <2>4. PICK j \in Like : \A k \in Like : j <= k
    BY <2>3
  <2>5. Before(j) = {}
    BY <2>1, <2>4
  <2>6. Cardinality(Before(j)) = 0
    BY <2>5, FS_EmptySet
  <2> QED
    BY <2>1, <2>2, <2>4, <2>6
<1> HIDE DEF main
<1>7. ChainsBegin(main)
  BY <1>6 DEF ChainsBegin
<1> QED
  BY <1>4, <1>5, <1>7 DEF Ini

LEMMA InitSInv == Init => SInv
<1> SUFFICES ASSUME Init PROVE SInv
  OBVIOUS
<1> PICK s \in Scenarios : /\ ini = Parsed(s.ini) /\ options = s.options /\ world = s.world
                           /\ donor = s.donor /\ active \in s.session
  BY DEF Init
<1>1. /\ s.ini \in Ini /\ s.options \in Options /\ s.world \in World
      /\ s.donor \in Nand \cup {NoNand} /\ s.session \subseteq Nand \cup {NoNand}
  BY SearchAssumption DEF IsDump
<1>3. GivenOK
  <2>1. ini.main \in Seq(ParsedLine) /\ ini.security = s.ini.security
        /\ ini.payloads = s.ini.payloads /\ ini.files = s.ini.files
        /\ ChainsBegin(ini.main)
    BY <1>1, ParsedOK
  <2> QED
    BY <1>1, <2>1 DEF GivenOK, Ini
<1>4. TypeOK
  BY <1>1 DEF Init, TypeOK, Nothing, After
<1>5. StageOK /\ PassedBoot = {} /\ PassedFiles = {}
  BY DEF Init, StageOK, PassedBoot, PassedFiles, Passed
<1>6. FoundOK
  BY <1>5 DEF Init, FoundOK, Nothing
<1>7. ListedOK /\ PoolOK /\ FailsOnlyForMissing
  BY <1>5 DEF Init, ListedOK, PoolOK, FailsOnlyForMissing, ImageAsListed
<1> QED
  BY <1>3, <1>4, <1>5, <1>6, <1>7 DEF SInv

-----------------------------------------------------------------------------
(* Copies of a boot section. *)

LEMMA LinesFacts ==
    ASSUME GivenOK
    PROVE  /\ \A s \in {"security", "payloads", "boot", "files"} : Len(Lines(s)) \in Nat
           /\ Lines("boot") = ini.main /\ Lines("files") = ini.files
           /\ Lines("security") = ini.security /\ Lines("payloads") = ini.payloads
           /\ DOMAIN ini.main = 1..Len(ini.main)
           /\ \A i \in DOMAIN ini.main : ini.main[i] \in ParsedLine
           /\ DOMAIN ini.files = 1..Len(ini.files)
           /\ \A i \in DOMAIN ini.files : ini.files[i] \in FileLine(AllNames)
<1>1. /\ ini.main \in Seq(ParsedLine) /\ ini.security \in Seq(STRING)
      /\ ini.payloads \in Seq(FileLine(STRING)) /\ ini.files \in Seq(FileLine(AllNames))
  BY DEF GivenOK
<1>2. /\ Lines("boot") = ini.main /\ Lines("files") = ini.files
      /\ Lines("security") = ini.security /\ Lines("payloads") = ini.payloads
  BY DEF Lines
<1> QED
  BY <1>1, <1>2

LEMMA FolderGood ==
    ASSUME GivenOK, NEW dir, NEW line
    PROVE  Folder(dir, line) \subseteq Good(line)
<1>1. world.boot \subseteq [dir : {"mydata", "build", "common"}, name : BlPrefixes \X Nat,
                            section : Section]
  BY DEF GivenOK, World
<1>2. \A g \in world.boot : g.section \in Section
  BY <1>1
<1> QED
  BY <1>2 DEF Folder, Accepted, Good

LEMMA UpdateGood ==
    ASSUME NEW updates \in SUBSET UpdateFile, NEW line
    PROVE  UpdateCopies(line, updates) \subseteq Good(line)
<1>1. \A u \in updates : u.cf \in Section /\ u.cg \in Section
  BY DEF UpdateFile
<1> QED
  BY <1>1 DEF UpdateCopies, Accepted, Good

LEMMA WorldUpdates ==
    ASSUME GivenOK
    PROVE  /\ world.xboxupd \in SUBSET UpdateFile
           /\ world.containers \in Seq(Container)
           /\ DOMAIN world.containers = 1..Len(world.containers)
           /\ Len(world.containers) \in Nat
           /\ \A i \in 1..Len(world.containers) :
                 /\ world.containers[i].update \in SUBSET UpdateFile
                 /\ world.containers[i].files \in SUBSET ShelfFile
<1>1. world.xboxupd \in SUBSET UpdateFile /\ world.containers \in Seq(Container)
  BY DEF GivenOK, World
<1>2. /\ DOMAIN world.containers = 1..Len(world.containers)
      /\ Len(world.containers) \in Nat
      /\ \A i \in 1..Len(world.containers) : world.containers[i] \in Container
  BY <1>1
<1> QED
  BY <1>1, <1>2 DEF Container, ShelfFile

LEMMA NandSlotIsSlot ==
    ASSUME NEW line \in ParsedLine
    PROVE  NandSlot(line) \subseteq Slots
<1>1. line.prefix \in BlPrefixes
  BY DEF ParsedLine
<1> QED
  BY <1>1 DEF NandSlot, IsUpdate, UpdateSlot, Slots, BlPrefixes

LEMMA SourceTypes ==
    ASSUME TypeOK
    PROVE  SourceNand \in Nand \cup {NoNand}
BY DEF TypeOK, SourceNand

LEMMA NandGood ==
    ASSUME TypeOK, NEW line \in ParsedLine
    PROVE  FromNand(line) \subseteq Good(line)
<1>1. CASE SourceNand = NoNand
  BY <1>1 DEF FromNand
<1>2. CASE SourceNand # NoNand
  <2>1. SourceNand \in Nand
    BY <1>2, SourceTypes
  <2>2. SourceNand.boot \in [Slots -> Section \cup {NoSection}]
    BY <2>1 DEF Nand
  <2>3. \A s \in NandSlot(line) : SourceNand.boot[s] \in Section \cup {NoSection}
    BY <2>2, NandSlotIsSlot
  <2> QED
    BY <1>2, <2>3 DEF FromNand, Accepted, Good
<1> QED
  BY <1>1, <1>2

LEMMA FolderTiersFacts ==
    ASSUME GivenOK, NEW line
    PROVE  /\ FirstOf(FolderTiers(line)) \subseteq Good(line)
           /\ FirstOf(FolderTiers(line)) = {} =>
                 Folder("mydata", line) = {} /\ Folder("build", line) = {}
           /\ /\ IsUpdate(line)
              /\ Folder("mydata", line) = {} /\ Folder("build", line) = {}
              => FirstOf(FolderTiers(line)) = {}
<1> DEFINE m == Folder("mydata", line)
           b == Folder("build", line)
           c == Folder("common", line)
<1>1. m \in SUBSET Good(line) /\ b \in SUBSET Good(line) /\ c \in SUBSET Good(line)
  BY FolderGood
<1>2. CASE line.prefix = "cbx"
  <2>1. FolderTiers(line) = <<b, m, c>> \o <<m, b>>
    BY <1>2 DEF FolderTiers
  <2> HIDE DEF m, b, c
  <2>2. PICK X : X = SUBSET Good(line)
    OBVIOUS
  <2>3. PICK t : t = <<b, m, c>> \o <<m, b>>
    OBVIOUS
  <2>4. <<b, m, c>> \in Seq(X) /\ <<m, b>> \in Seq(X)
    BY <1>1, <2>2
  <2>5. t \in Seq(X) /\ Len(t) = 5 /\ t[1] = b /\ t[2] = m
    BY <2>3, <2>4
  <2>6. FirstOf(t) \subseteq Good(line)
        /\ (FirstOf(t) = {} <=> \A i \in 1..Len(t) : t[i] = {})
    BY <2>2, <2>5, FirstOfFacts
  <2>7. FirstOf(t) = {} => m = {} /\ b = {}
    BY <2>5, <2>6
  <2> QED
    BY <1>2, <2>1, <2>3, <2>6, <2>7 DEF IsUpdate, m, b
<1>3. CASE line.prefix # "cbx"
  <2>1. FolderTiers(line) = <<>> \o <<m, b>>
    BY <1>3 DEF FolderTiers
  <2> HIDE DEF m, b, c
  <2>2. PICK X : X = SUBSET Good(line)
    OBVIOUS
  <2>3. <<>> \o <<m, b>> = <<m, b>> /\ <<m, b>> \in Seq(X)
    BY <1>1, <2>2
  <2>4. FirstOf(<<m, b>>) \subseteq Good(line)
        /\ (FirstOf(<<m, b>>) = {} <=> \A i \in 1..Len(<<m, b>>) : <<m, b>>[i] = {})
    BY <2>2, <2>3, FirstOfFacts
  <2>5. FirstOf(<<m, b>>) = {} <=> m = {} /\ b = {}
    BY <2>4
  <2> QED
    BY <2>1, <2>3, <2>4, <2>5 DEF m, b
<1> QED
  BY <1>2, <1>3

LEMMA ScanFacts ==
    ASSUME GivenOK, pool \in Seq(SUBSET ShelfFile), NEW line
    PROVE  /\ Scan(line).copies \subseteq Good(line)
           /\ Scan(line).files \in Seq(SUBSET ShelfFile)
           /\ \A k \in DOMAIN pool : k \in DOMAIN Scan(line).files
                                     /\ Scan(line).files[k] = pool[k]
           /\ Scan(line).copies = {} <=>
                 \A i \in 1..Len(world.containers) :
                    UpdateCopies(line, world.containers[i].update) = {}
           /\ Scan(line).copies = {} =>
                 \A c \in ToSet(world.containers) :
                    \E k \in DOMAIN Scan(line).files : Scan(line).files[k] = Wanted(c)
<1> DEFINE n == Len(world.containers)
           held == [i \in DOMAIN world.containers |->
                      UpdateCopies(line, world.containers[i].update)]
           hits == {i \in DOMAIN held : held[i] # {}}
           read == IF hits = {} THEN n ELSE First(hits)
           more == [i \in 1 .. read |-> Wanted(world.containers[i])]
           scan == Scan(line)
<1>1. /\ DOMAIN world.containers = 1..n /\ n \in Nat
      /\ \A i \in 1..n : /\ world.containers[i].update \in SUBSET UpdateFile
                         /\ world.containers[i].files \in SUBSET ShelfFile
  BY WorldUpdates
<1>2. scan.copies = FirstOf(held) /\ scan.files = pool \o more
  BY DEF Scan
<1>3. held \in Seq(SUBSET Good(line)) /\ Len(held) = n
  <2>1. \A i \in 1..n : UpdateCopies(line, world.containers[i].update) \in SUBSET Good(line)
    BY <1>1, UpdateGood
  <2>2. held = [i \in 1..n |-> UpdateCopies(line, world.containers[i].update)]
    BY <1>1
  <2> QED
    BY <1>1, <2>1, <2>2
<1>4. /\ FirstOf(held) \subseteq Good(line)
      /\ FirstOf(held) = {} <=> \A i \in 1..n : held[i] = {}
  <2> HIDE DEF held, n
  <2> QED
    BY <1>3, FirstOfFacts
<1>5. hits \subseteq 1..n
  BY <1>1
<1>6. read \in 0..n
  <2>1. CASE hits = {}
    BY <1>1, <2>1
  <2>2. CASE hits # {}
    <3>1. hits \subseteq Nat
      BY <1>1, <1>5
    <3> HIDE DEF hits
    <3>2. First(hits) \in hits
      BY <2>2, <3>1, FirstFact, Zenon
    <3>3. First(hits) \in 1..n
      BY <1>5, <3>2
    <3>4. read = First(hits)
      BY <2>2
    <3> HIDE DEF read
    <3> QED
      BY <1>1, <3>3, <3>4
  <2> QED
    BY <2>1, <2>2
<1>7. more \in Seq(SUBSET ShelfFile) /\ Len(more) = read
      /\ \A i \in 1..read : more[i] = Wanted(world.containers[i])
  <2>1. \A i \in 1..n : Wanted(world.containers[i]) \in SUBSET ShelfFile
    BY <1>1 DEF Wanted
  <2> HIDE DEF read
  <2> QED
    BY <1>1, <1>6, <2>1
<1> HIDE DEF more, read
<1>8. /\ scan.files \in Seq(SUBSET ShelfFile)
      /\ \A k \in DOMAIN pool : k \in DOMAIN scan.files /\ scan.files[k] = pool[k]
      /\ \A i \in 1..read : /\ Len(pool) + i \in DOMAIN scan.files
                            /\ scan.files[Len(pool) + i] = more[i]
  <2> PICK X : X = SUBSET ShelfFile
    OBVIOUS
  <2>1. pool \in Seq(X) /\ more \in Seq(X)
    BY <1>7
  <2> HIDE DEF scan
  <2> QED
    BY <1>2, <1>6, <1>7, <2>1
<1>9. scan.copies = {} <=> \A i \in 1..n : UpdateCopies(line, world.containers[i].update) = {}
  BY <1>1, <1>2, <1>4
<1>10. ASSUME scan.copies = {}, NEW c \in ToSet(world.containers)
       PROVE  \E k \in DOMAIN scan.files : scan.files[k] = Wanted(c)
  <2>1. hits = {}
    BY <1>1, <1>2, <1>4, <1>10
  <2>2. read = n
    BY <2>1 DEF read
  <2>3. PICK i \in 1..n : c = world.containers[i]
    BY <1>1 DEF ToSet
  <2> QED
    BY <1>7, <1>8, <2>2, <2>3
<1> QED
  BY <1>2, <1>4, <1>8, <1>9, <1>10

\* The line that is patched as target CB is none of a CD.
LEMMA TargetCbIsCb ==
    ASSUME GivenOK, NEW line \in ParsedLine, Name(line) = TargetCb
    PROVE  line.prefix # "cd"
<1> DEFINE main == ini.main
           cbb == {i \in DOMAIN ini.main : ini.main[i].prefix \in {"cbb"}}
           cb  == {i \in DOMAIN ini.main : ini.main[i].prefix \in {"cb", "sb"}}
           last  == CHOOSE i \in cbb : \A j \in cbb : j <= i
           first == CHOOSE i \in cb : \A j \in cb : i <= j
<1>1. TargetCb = IF cbb # {} THEN Name(main[last]) ELSE IF cb # {} THEN Name(main[first])
                 ELSE NoLine
  BY DEF TargetCb
<1>2. DOMAIN main = 1..Len(main) /\ Len(main) \in Nat
  BY LinesFacts
<1>3. Name(line) \in BlPrefixes \X Nat
  BY DEF Name, ParsedLine
<1>4. Name(line) # NoLine
  BY <1>3, SearchAssumption
<1>5. CASE cbb # {}
  <2>1. \E i \in cbb : \A j \in cbb : j <= i
    <3>1. cbb \subseteq 1..Len(main)
      BY <1>2
    <3> HIDE DEF cbb, main
    <3> QED
      BY <1>2, <1>5, <3>1, LastFact
  <2>2. last \in cbb
    BY <2>1
  <2>3. main[last].prefix = "cbb"
    BY <2>2
  <2> QED
    BY <1>1, <1>5, <2>3 DEF Name
<1>6. CASE cbb = {} /\ cb # {}
  <2>1. \E i \in cb : \A j \in cb : i <= j
    <3>1. cb \subseteq Nat
      BY <1>2
    <3> HIDE DEF cb
    <3> QED
      BY <1>6, <3>1, FirstFact
  <2>2. first \in cb
    BY <2>1
  <2>3. main[first].prefix \in {"cb", "sb"}
    BY <2>2
  <2>4. Name(line) = Name(main[first])
    BY <1>1, <1>6
  <2> QED
    BY <2>3, <2>4 DEF Name
<1> QED
  BY <1>1, <1>4, <1>5, <1>6

\* What was let through is, patched where it should be, what the line asks for.
LEMMA GoodIsListed ==
    ASSUME GivenOK, NEW line \in ParsedLine, NEW c \in Good(line)
    PROVE  /\ Patched(line, c) \in Section
           /\ ~options.gxunsafe => IsAsListed(line, Patched(line, c))
<1> DEFINE meant == /\ ~options.nochainpatch
                    /\ \/ Name(line) = TargetCb /\ Patches({"cb", "cbb"})
                       \/ Name(line) # TargetCb /\ line.prefix = "cd" /\ Patches({"cd"})
           p == Patched(line, c)
<1>1. c \in Section /\ Accepts(line, c)
  BY DEF Good
<1>2. p = IF meant THEN [c EXCEPT !.patched = TRUE] ELSE c
  BY DEF Patched
<1>3. /\ p \in Section /\ p.type = c.type /\ p.ver = c.ver /\ p.sound = c.sound
      /\ p.patched = IF meant THEN TRUE ELSE c.patched
  <2> HIDE DEF meant, p
  <2> QED
    BY <1>1, <1>2 DEF Section
<1>4. ASSUME ~options.gxunsafe PROVE IsAsListed(line, p)
  <2>1. MatchesName(line, p)
    BY <1>1, <1>3 DEF Accepts, MatchesName
  <2>2. line.hash # NoHash => HasHash(c, line.hash)
    BY <1>1, <1>4 DEF Accepts
  <2>3. line.hash # NoHash => c.sound /\ c.ver = line.hash /\ ~c.patched
    BY <2>2 DEF HasHash
  <2>4. meant <=> /\ ~options.nochainpatch
                  /\ \/ Name(line) = TargetCb /\ Patches({"cb", "cbb"})
                     \/ line.prefix = "cd" /\ Patches({"cd"})
    BY TargetCbIsCb
  <2> HIDE DEF meant, p
  <2> QED
    BY <1>3, <2>1, <2>3, <2>4 DEF IsAsListed
<1> QED
  BY <1>3, <1>4

LEMMA LookedFacts ==
    ASSUME GivenOK, NEW line, LookedThrough(line)
    PROVE  /\ IsUpdate(line) /\ FirstOf(FolderTiers(line)) = {}
           /\ UpdateCopies(line, world.xboxupd) = {}
           /\ \A i \in 1..Len(world.containers) :
                 UpdateCopies(line, world.containers[i].update) = {}
<1>1. /\ IsUpdate(line) /\ Folder("mydata", line) = {} /\ Folder("build", line) = {}
      /\ UpdateCopies(line, world.xboxupd) = {}
      /\ \A c \in ToSet(world.containers) : UpdateCopies(line, c.update) = {}
  BY DEF LookedThrough
<1>2. \A i \in 1..Len(world.containers) : world.containers[i] \in ToSet(world.containers)
  BY WorldUpdates DEF ToSet
<1> QED
  BY <1>1, <1>2, FolderTiersFacts

-----------------------------------------------------------------------------
(* What a step that leaves the INI, the options and the folders alone keeps. *)

LEMMA GivenSame ==
    ASSUME GivenOK, UNCHANGED given
    PROVE  /\ GivenOK' /\ (Strict' <=> Strict)
           /\ \A s : Lines(s)' = Lines(s)
           /\ \A c : Wanted(c)' = Wanted(c)
           /\ \A line, section : MatchesName(line, section)' <=> MatchesName(line, section)
           /\ \A line, d : AcceptsFile(line, d)' <=> AcceptsFile(line, d)
<1>1. ini' = ini /\ options' = options /\ world' = world
  BY DEF given
<1>2. GivenOK'
  BY <1>1 DEF GivenOK
<1>3. Strict' <=> Strict
  BY <1>1 DEF Strict, NamesAgree
<1>4. \A s : Lines(s)' = Lines(s)
  BY <1>1 DEF Lines
<1>5. \A c : Wanted(c)' = Wanted(c)
  BY <1>1 DEF Wanted, IsListed
<1> QED
  BY <1>1, <1>2, <1>3, <1>4, <1>5 DEF AcceptsFile, MatchesName

LEMMA TargetSame ==
    ASSUME UNCHANGED given
    PROVE  /\ TargetCb' = TargetCb
           /\ \A p : Expected(p)' = Expected(p)
<1>1. ini' = ini
  BY DEF given
<1> QED
  BY <1>1 DEF TargetCb, Expected

LEMMA LookedSame ==
    ASSUME UNCHANGED given
    PROVE  \A line : /\ LookedThrough(line)' <=> LookedThrough(line)
                     /\ \A d : Folder(d, line)' = Folder(d, line)
                     /\ \A u : UpdateCopies(line, u)' = UpdateCopies(line, u)
<1>1. ini' = ini /\ options' = options /\ world' = world
  BY DEF given
<1> TAKE line
<1>2. \A c : Accepts(line, c)' <=> Accepts(line, c)
  BY <1>1 DEF Accepts, MatchesName
<1>3. \A s : Accepted(line, s)' = Accepted(line, s)
  BY <1>2 DEF Accepted
<1>4. \A d : Folder(d, line)' = Folder(d, line)
  BY <1>1, <1>2 DEF Folder, Accepted
<1>5. \A u : UpdateCopies(line, u)' = UpdateCopies(line, u)
  BY <1>1, <1>2, TargetSame DEF UpdateCopies, Accepted
<1> QED
  BY <1>1, <1>4, <1>5 DEF LookedThrough

LEMMA ListedSame ==
    ASSUME UNCHANGED <<given, patch>>
    PROVE  \A line, section : IsAsListed(line, section)' <=> IsAsListed(line, section)
<1>1. ini' = ini /\ options' = options /\ patch' = patch /\ TargetCb' = TargetCb
  BY TargetSame DEF given
<1> QED
  BY <1>1 DEF IsAsListed, MatchesName, Patches, Name

-----------------------------------------------------------------------------
(* Steps that find no boot section and no FlashFS file. *)

LEMMA FailKeeps ==
    ASSUME SInv, InStage(stage), Fail, FailsOnlyForMissing'
    PROVE  SInv'
<1>1. /\ UNCHANGED given /\ stage' = "failed"
      /\ UNCHANGED <<donor, active, caller, built, found, pool>>
  BY DEF InStage, Fail
<1>2. TypeOK'
  BY <1>1 DEF SInv, TypeOK, After
<1>3. GivenOK' /\ StageOK'
  BY <1>1, GivenSame DEF SInv, StageOK
<1>4. PassedBoot' = {} /\ PassedFiles' = {}
  BY <1>1 DEF PassedBoot, PassedFiles, Passed
<1>5. FoundOK' /\ PoolOK' /\ ListedOK'
  BY <1>1, <1>4 DEF SInv, FoundOK, PoolOK, ListedOK, ImageAsListed
<1> QED
  BY <1>2, <1>3, <1>5 DEF SInv

\* The lines that were passed stay those, and what was found for them.
LEMMA QuietKeeps ==
    ASSUME SInv, UNCHANGED given, UNCHANGED pool,
           found'.boot = found.boot, found'.files = found.files,
           PassedBoot' \subseteq PassedBoot,
           \A i \in PassedFiles' : i \in PassedFiles \/ ini.files[i].bypassed,
           PassedBoot # {} => UNCHANGED patch,
           stage' \notin {"failed", "done"},
           TypeOK', StageOK',
           found' = [boot |-> found'.boot, security |-> found'.security,
                     payloads |-> found'.payloads, files |-> found'.files],
           \A n \in DOMAIN found'.security : n # "kv" => found'.security[n] \in Data
    PROVE  SInv'
<1>1. ini' = ini /\ options' = options /\ world' = world
  BY DEF given
<1>2. GivenOK' /\ (Strict' <=> Strict) /\ FailsOnlyForMissing' /\ ImageAsListed'
  BY GivenSame DEF SInv, FailsOnlyForMissing, ImageAsListed
<1>3. FoundOK'
  BY <1>1 DEF SInv, FoundOK
<1>4. PoolOK'
  <2>1. \A i \in PassedBoot' : i \in PassedBoot
    OBVIOUS
  <2>2. \A i : LookedThrough(ini.main[i])' => LookedThrough(ini.main[i])
    BY <1>1, LookedSame
  <2> QED
    BY <1>1, <2>1, <2>2, GivenSame DEF SInv, PoolOK
<1>5. ListedOK'
  <2> SUFFICES ASSUME Strict
               PROVE /\ \A i \in PassedBoot' :
                           IsAsListed(ini.main[i], found.boot[Name(ini.main[i])])'
                     /\ \A i \in PassedFiles' : ~ini.files[i].bypassed =>
                           AcceptsFile(ini.files[i], found.files[ini.files[i].name])'
    BY <1>1, <1>2 DEF ListedOK, Name
  <2>1. ASSUME NEW i \in PassedBoot'
        PROVE  IsAsListed(ini.main[i], found.boot[Name(ini.main[i])])'
    <3>1. IsAsListed(ini.main[i], found.boot[Name(ini.main[i])])
      BY <2>1 DEF SInv, ListedOK
    <3>2. UNCHANGED patch
      BY <2>1
    <3> QED
      BY <1>1, <3>1, <3>2, ListedSame DEF Name
  <2>2. ASSUME NEW i \in PassedFiles', ~ini.files[i].bypassed
        PROVE  AcceptsFile(ini.files[i], found.files[ini.files[i].name])'
    <3>1. AcceptsFile(ini.files[i], found.files[ini.files[i].name])
      BY <2>2 DEF SInv, ListedOK
    <3> QED
      BY <1>1, <3>1, GivenSame DEF AcceptsFile
  <2> QED
    BY <2>1, <2>2
<1> QED
  BY <1>2, <1>3, <1>4, <1>5 DEF SInv

LEMMA BeginStep ==
    ASSUME SInv, BeginLoad \/ BeginIni \/ BeginBuild
    PROVE  SInv'
<1>1. /\ UNCHANGED <<given, donor, active, built>>
      /\ stage' = "patches" /\ at' = 1 /\ found' = Nothing /\ pool' = <<>>
      /\ caller' \in {"none", "load", "ini", "build"}
      /\ caller' = "build" => donor # NoNand
  BY DEF BeginLoad, BeginIni, BeginBuild, Begin
<1>2. TypeOK'
  BY <1>1 DEF SInv, TypeOK, Nothing, After
<1>3. GivenOK' /\ StageOK'
  BY <1>1, GivenSame DEF SInv, StageOK
<1>4. PassedBoot' = {} /\ PassedFiles' = {}
  BY <1>1 DEF PassedBoot, PassedFiles, Passed
<1>5. FoundOK' /\ PoolOK' /\ ListedOK' /\ FailsOnlyForMissing'
  BY <1>1, <1>4 DEF FoundOK, PoolOK, ListedOK, ImageAsListed, FailsOnlyForMissing, Nothing
<1> QED
  BY <1>2, <1>3, <1>5 DEF SInv

LEMMA ChoosePatchStep ==
    ASSUME SInv, ChoosePatch
    PROVE  SInv'
<1>1. stage = "patches" /\ InStage(stage) /\ UNCHANGED <<given, donor, active, caller, built>>
  BY DEF ChoosePatch, InStage
<1>2. CASE Fail
  <2>1. FailsOnlyForMissing'
    BY <1>1, <1>2 DEF Fail, FailsOnlyForMissing
  <2> QED
    BY <1>1, <1>2, <2>1, FailKeeps
<1>3. CASE stage' = "security" /\ UNCHANGED <<at, error, found, pool>>
  <2>1. PassedBoot' = {} /\ PassedFiles' = {} /\ PassedBoot = {}
    BY <1>1, <1>3 DEF PassedBoot, PassedFiles, Passed
  <2>2. Lines("security")' = Lines("security") /\ Len(Lines("security")) \in Nat /\ at = 1
    BY <1>1, GivenSame, LinesFacts DEF SInv, StageOK
  <2>3. TypeOK'
    BY <1>1, <1>3, <2>2 DEF SInv, TypeOK, After
  <2>4. StageOK'
    BY <1>1, <1>3 DEF SInv, StageOK
  <2>5. /\ found' = [boot |-> found'.boot, security |-> found'.security,
                     payloads |-> found'.payloads, files |-> found'.files]
        /\ \A n \in DOMAIN found'.security : n # "kv" => found'.security[n] \in Data
    BY <1>3 DEF SInv, FoundOK
  <2> QED
    BY <1>1, <1>3, <2>1, <2>3, <2>4, <2>5, QuietKeeps
<1> QED
  BY <1>2, <1>3 DEF ChoosePatch

LEMMA NextStageStep ==
    ASSUME SInv, NextStage
    PROVE  SInv'
<1>1. /\ stage \in {"security", "payloads", "boot", "files"}
      /\ UNCHANGED <<given, donor, active, caller, built, patch, found, pool>>
      /\ at > Len(Lines(stage)) /\ stage' = After[stage] /\ at' = 1
  BY DEF NextStage, InStage
<1>2. /\ \A s \in {"security", "payloads", "boot", "files"} :
            Lines(s)' = Lines(s) /\ Len(Lines(s)) \in Nat
      /\ at \in 1..Len(Lines(stage)) + 1
  BY <1>1, GivenSame, LinesFacts DEF SInv, TypeOK, After
<1>3. at - 1 = Len(Lines(stage))
  BY <1>1, <1>2
<1>4. PassedBoot' = PassedBoot /\ PassedFiles' = PassedFiles
  <2>1. CASE stage = "boot"
    BY <1>1, <1>2, <1>3, <2>1 DEF PassedBoot, PassedFiles, Passed, After
  <2>2. CASE stage = "files"
    BY <1>1, <1>2, <1>3, <2>2 DEF PassedBoot, PassedFiles, Passed, After
  <2>3. CASE stage = "payloads"
    BY <1>1, <1>2, <2>3 DEF PassedBoot, PassedFiles, Passed, After
  <2>4. CASE stage = "security"
    BY <1>1, <1>2, <2>4 DEF PassedBoot, PassedFiles, Passed, After
  <2> QED
    BY <1>1, <2>1, <2>2, <2>3, <2>4
<1>5. TypeOK'
  BY <1>1, <1>2 DEF SInv, TypeOK, After
<1>6. StageOK' /\ stage' \notin {"failed", "done"}
  BY <1>1 DEF SInv, StageOK, After
<1>7. /\ found' = [boot |-> found'.boot, security |-> found'.security,
                   payloads |-> found'.payloads, files |-> found'.files]
      /\ \A n \in DOMAIN found'.security : n # "kv" => found'.security[n] \in Data
  BY <1>1 DEF SInv, FoundOK
<1> QED
  BY <1>1, <1>4, <1>5, <1>6, <1>7, QuietKeeps

-----------------------------------------------------------------------------
(* Security files, SMC and payloads. *)

LEMMA FcrtIsData ==
    ASSUME NEW nand \in Nand
    PROVE  NandFcrt(nand) \subseteq Data
<1>1. \A f \in nand.files : f.data \in Data
  BY DEF Nand
<1> QED
  BY <1>1 DEF NandFcrt, LiveFiles

SecurityData(name) == IF name = "kv" THEN Data \cup {Empty} ELSE Data

LEMMA SecurityFacts ==
    ASSUME TypeOK, GivenOK, NEW name
    PROVE  /\ FirstOf(SecurityTiers(name)) \subseteq SecurityData(name)
           /\ FirstOf(SecurityTiers(name)) = {} =>
                 \A f \in world.security : f.name = name => f.dir = "stfs" /\ options.nosusecurity
<1> DEFINE In1(dir) == {f.data : f \in {g \in world.security : g.dir = dir /\ g.name = name}}
<1>1. NandSecurity(name) \in SUBSET SecurityData(name)
  <2>1. SourceNand # NoNand => SourceNand.kv \in Data \cup {Empty} /\ SourceNand.fcrt \subseteq Data
    BY SourceTypes DEF Nand
  <2> QED
    BY <2>1 DEF NandSecurity, SecurityData
<1>2. \A f \in world.security : f.data \in Data /\ f.dir \in {"mydata", "build", "stfs", "common"}
  BY DEF GivenOK, World
<1>3. \A d : In1(d) \in SUBSET SecurityData(name)
  BY <1>2 DEF SecurityData
<1> DEFINE stfs == IF options.nosusecurity THEN {} ELSE In1("stfs")
<1>4. stfs \in SUBSET SecurityData(name)
  BY <1>3
<1>5. SecurityTiers(name) = <<NandSecurity(name), In1("mydata"), In1("build"), stfs, In1("common")>>
  BY DEF SecurityTiers
<1>6. \A f \in world.security : f.name = name => f.data \in In1(f.dir)
  OBVIOUS
<1>7. stfs = {} => options.nosusecurity \/ In1("stfs") = {}
  OBVIOUS
<1>t. PICK t : t = <<NandSecurity(name), In1("mydata"), In1("build"), stfs, In1("common")>>
  OBVIOUS
<1> HIDE DEF In1, stfs
<1>X. PICK X : X = SUBSET SecurityData(name)
  OBVIOUS
<1>8. /\ t \in Seq(X) /\ Len(t) = 5
      /\ t[2] = In1("mydata") /\ t[3] = In1("build") /\ t[4] = stfs /\ t[5] = In1("common")
  BY <1>1, <1>3, <1>4, <1>t, <1>X
<1>9. /\ FirstOf(t) \subseteq SecurityData(name)
      /\ FirstOf(t) = {} <=> \A i \in 1..Len(t) : t[i] = {}
  <2>1. t \in Seq(SUBSET SecurityData(name))
    BY <1>8, <1>X
  <2>2. \A Y, u : u \in Seq(SUBSET Y) =>
           FirstOf(u) \subseteq Y /\ (FirstOf(u) = {} <=> \A i \in 1..Len(u) : u[i] = {})
    BY FirstOfFacts
  <2> QED
    BY <2>1, <2>2
<1>10. FirstOf(t) = {} => In1("mydata") = {} /\ In1("build") = {} /\ stfs = {} /\ In1("common") = {}
  BY <1>8, <1>9
<1> QED
  BY <1>2, <1>5, <1>6, <1>7, <1>9, <1>10, <1>t

\* A security file that is found.
LEMMA PutSecurity ==
    ASSUME SInv, NEW name, NEW c \in SecurityData(name),
           found' = [found EXCEPT !.security = Put(@, name, c)]
    PROVE  /\ found'.boot = found.boot /\ found'.files = found.files
           /\ found' = [boot |-> found'.boot, security |-> found'.security,
                        payloads |-> found'.payloads, files |-> found'.files]
           /\ \A n \in DOMAIN found'.security : n # "kv" => found'.security[n] \in Data
           /\ \A n \in DOMAIN found'.security : found'.security[n] \in Data \cup {Empty}
<1>1. /\ found = [boot |-> found.boot, security |-> found.security,
                  payloads |-> found.payloads, files |-> found.files]
      /\ \A n \in DOMAIN found.security : n # "kv" => found.security[n] \in Data
      /\ \A n \in DOMAIN found.security : found.security[n] \in Data \cup {Empty}
  BY DEF SInv, FoundOK, TypeOK
<1> PICK s : s = Put(found.security, name, c)
  OBVIOUS
<1>2. found' = [boot |-> found.boot, security |-> s,
                payloads |-> found.payloads, files |-> found.files]
  BY <1>1
<1>3. DOMAIN s = DOMAIN found.security \cup {name} /\ s[name] = c
      /\ \A n \in DOMAIN found.security : n # name => s[n] = found.security[n]
  BY DEF Put
<1>4. \A n \in DOMAIN s : (n # "kv" => s[n] \in Data) /\ s[n] \in Data \cup {Empty}
  BY <1>1, <1>3 DEF SecurityData
<1> QED
  BY <1>2, <1>4

\* A line of the two lists before the boot sections is passed.
LEMMA QuietFind ==
    ASSUME SInv, stage \in {"security", "smc", "payloads"}, InStage(stage), UNCHANGED <<patch, pool>>,
           \/ stage = "smc" /\ stage' = "payloads" /\ UNCHANGED at
           \/ stage # "smc" /\ at <= Len(Lines(stage)) /\ Advance,
           found'.boot = found.boot, found'.files = found.files,
           found' = [boot |-> found'.boot, security |-> found'.security,
                     payloads |-> found'.payloads, files |-> found'.files],
           \A n \in DOMAIN found'.security : n # "kv" => found'.security[n] \in Data,
           \A n \in DOMAIN found'.security : found'.security[n] \in Data \cup {Empty}
    PROVE  SInv'
<1>1. UNCHANGED <<given, donor, active, caller, built>>
  BY DEF InStage
<1>2. \A s \in {"security", "payloads"} : Lines(s)' = Lines(s) /\ Len(Lines(s)) \in Nat
  BY <1>1, GivenSame, LinesFacts DEF SInv
<1>3. stage' \in {"security", "payloads"}
  BY DEF Advance
<1>4. PassedBoot' = {} /\ PassedFiles' = {} /\ PassedBoot = {}
  BY <1>3 DEF PassedBoot, PassedFiles, Passed
<1>5. TypeOK /\ StageOK
  BY DEF SInv
<1>6. stage' \in DOMAIN After \ {"smc"} /\ at' \in 1 .. Len(Lines(stage')) + 1
  <2>1. CASE stage = "smc"
    BY <1>2, <1>5, <2>1 DEF StageOK, After
  <2>2. CASE stage \in {"security", "payloads"}
    <3>1. at \in 1..Len(Lines(stage)) + 1
      BY <1>5, <2>2 DEF TypeOK, After
    <3>2. Len(Lines(stage)) \in Nat
      BY <1>2, <2>2
    <3>3. at' \in 1..Len(Lines(stage)) + 1 /\ stage' = stage
      BY <2>2, <3>1, <3>2 DEF Advance
    <3> QED
      BY <2>2, <3>3 DEF After
  <2> QED
    BY <2>1, <2>2
<1>7. (stage' \in DOMAIN After \ {"smc"} => at' \in 1 .. Len(Lines(stage)') + 1)
  <2>1. \A s : Lines(s)' = Lines(s)
    BY <1>1, GivenSame DEF SInv
  <2>2. Lines(stage)' = Lines(stage')
    BY <1>1 DEF Lines, given
  <2> QED
    BY <1>6, <2>2
<1>8. TypeOK'
  BY <1>1, <1>3, <1>5, <1>7 DEF TypeOK, After
<1>9. StageOK'
  BY <1>1, <1>3, <1>5 DEF StageOK
<1> QED
  BY <1>1, <1>3, <1>4, <1>8, <1>9, QuietKeeps

LEMMA FindSecurityStep ==
    ASSUME SInv, FindSecurity
    PROVE  SInv'
<1> DEFINE name == Lines("security")[at]
           copies == FirstOf(SecurityTiers(name))
<1>1. /\ stage = "security" /\ InStage(stage) /\ at <= Len(Lines("security"))
      /\ Line = name /\ UNCHANGED <<given, donor, active, caller, built>>
  BY DEF FindSecurity, AtLine, InStage, Line
<1>2. /\ copies \subseteq SecurityData(name)
      /\ copies = {} => \A f \in world.security : f.name = name => f.dir = "stfs" /\ options.nosusecurity
  BY SecurityFacts DEF SInv
<1>3. CASE Advance /\ UNCHANGED <<found, pool>>
  <2>1. UNCHANGED patch
    BY <1>3 DEF Advance
  <2>2. /\ found' = [boot |-> found'.boot, security |-> found'.security,
                     payloads |-> found'.payloads, files |-> found'.files]
        /\ \A n \in DOMAIN found'.security : n # "kv" => found'.security[n] \in Data
        /\ \A n \in DOMAIN found'.security : found'.security[n] \in Data \cup {Empty}
    BY <1>3 DEF SInv, FoundOK, TypeOK
  <2> QED
    BY <1>1, <1>3, <2>1, <2>2, QuietFind
<1>4. CASE Fail /\ copies = {} /\ name # "odd"
  <2>1. error' = <<"security", at>> /\ ini' = ini /\ world' = world /\ options' = options
    BY <1>1, <1>4 DEF Fail, given
  <2>2. error'[1] = "security" /\ error'[2] = at /\ ini.security[at] = name
    BY <2>1 DEF Lines
  <2>3. FailsOnlyForMissing'
    BY <1>2, <1>4, <2>1, <2>2 DEF FailsOnlyForMissing
  <2> QED
    BY <1>1, <1>4, <2>3, FailKeeps
<1>5. ASSUME Advance, UNCHANGED pool, NEW c \in copies,
             found' = [found EXCEPT !.security = Put(@, name, c)]
      PROVE  SInv'
  <2>1. UNCHANGED patch
    BY <1>5 DEF Advance
  <2>2. c \in SecurityData(name)
    BY <1>2
  <2> HIDE DEF name, copies
  <2>3. /\ found'.boot = found.boot /\ found'.files = found.files
        /\ found' = [boot |-> found'.boot, security |-> found'.security,
                     payloads |-> found'.payloads, files |-> found'.files]
        /\ \A n \in DOMAIN found'.security : n # "kv" => found'.security[n] \in Data
        /\ \A n \in DOMAIN found'.security : found'.security[n] \in Data \cup {Empty}
    BY <1>5, <2>2, PutSecurity
  <2> QED
    BY <1>1, <1>5, <2>1, <2>3, QuietFind
<1>6. \/ Advance /\ UNCHANGED <<found, pool>>
      \/ Fail /\ copies = {} /\ name # "odd"
      \/ /\ Advance /\ UNCHANGED pool
         /\ \E c \in copies : found' = [found EXCEPT !.security = Put(@, name, c)]
  <2>1. LET seen == FirstOf(SecurityTiers(Line))
        IN  IF (Line = "fcrt" /\ options.nofcrt) \/ (Line = "odd" /\ seen = {})
            THEN Advance /\ UNCHANGED <<found, pool>>
            ELSE IF seen = {} THEN Fail
            ELSE /\ Advance
                 /\ \E c \in seen : found' = [found EXCEPT !.security = Put(@, Line, c)]
                 /\ UNCHANGED pool
    BY DEF FindSecurity
  <2> QED
    BY <1>1, <2>1
<1> QED
  BY <1>3, <1>4, <1>5, <1>6

LEMMA SmcFacts ==
    ASSUME GivenOK, NEW X,
           X = FirstOf(<<{f.data : f \in {g \in world.smc : g.dir = "mydata" /\ g.file = "SMC"}},
                         {f.data : f \in {g \in world.smc : g.dir = "mydata" /\ g.file = "CLEAN"}},
                         {f.data : f \in {g \in world.smc : g.dir = "smc" /\ g.file = "SMC"}},
                         {f.data : f \in {g \in world.smc : g.dir = "smc" /\ g.file = "CLEAN"}}>>)
    PROVE  X \subseteq Data
<1> DEFINE At(dir, file) == {f.data : f \in {g \in world.smc : g.dir = dir /\ g.file = file}}
<1>1. \A f \in world.smc : f.data \in Data
  BY DEF GivenOK, World
<1>2. \A d, f : At(d, f) \in SUBSET Data
  BY <1>1
<1>3. X = FirstOf(<<At("mydata", "SMC"), At("mydata", "CLEAN"), At("smc", "SMC"), At("smc", "CLEAN")>>)
  OBVIOUS
<1> HIDE DEF At
<1>t. PICK t : t = <<At("mydata", "SMC"), At("mydata", "CLEAN"), At("smc", "SMC"), At("smc", "CLEAN")>>
  OBVIOUS
<1>4. t \in Seq(SUBSET Data)
  BY <1>2, <1>t
<1>5. FirstOf(t) \subseteq Data
  BY <1>4, FirstOfFacts
<1> QED
  BY <1>3, <1>5, <1>t

LEMMA FindSmcStep ==
    ASSUME SInv, FindSmc
    PROVE  SInv'
<1> DEFINE copies == FirstOf(
      <<{f.data : f \in {g \in world.smc : g.dir = "mydata" /\ g.file = "SMC"}},
        {f.data : f \in {g \in world.smc : g.dir = "mydata" /\ g.file = "CLEAN"}},
        {f.data : f \in {g \in world.smc : g.dir = "smc" /\ g.file = "SMC"}},
        {f.data : f \in {g \in world.smc : g.dir = "smc" /\ g.file = "CLEAN"}}>>)
<1>1. copies \subseteq Data
  BY SmcFacts DEF SInv
<1>2. /\ stage = "smc" /\ InStage(stage) /\ UNCHANGED <<given, donor, active, caller, built>>
      /\ \/ Fail
         \/ /\ stage' = After.smc
            /\ \E c \in copies : found' = [found EXCEPT !.security = Put(@, "smc", c)]
            /\ UNCHANGED <<at, error, patch, pool>>
  BY DEF FindSmc, InStage
<1> HIDE DEF copies
<1>3. CASE Fail
  <2>1. FailsOnlyForMissing'
    BY <1>2, <1>3 DEF Fail, FailsOnlyForMissing
  <2> QED
    BY <1>2, <1>3, <2>1, FailKeeps
<1>4. ASSUME stage' = After.smc, UNCHANGED <<at, error, patch, pool>>, NEW c \in copies,
             found' = [found EXCEPT !.security = Put(@, "smc", c)]
      PROVE  SInv'
  <2>1. c \in SecurityData("smc")
    BY <1>1 DEF SecurityData
  <2>2. /\ found'.boot = found.boot /\ found'.files = found.files
        /\ found' = [boot |-> found'.boot, security |-> found'.security,
                     payloads |-> found'.payloads, files |-> found'.files]
        /\ \A n \in DOMAIN found'.security : n # "kv" => found'.security[n] \in Data
        /\ \A n \in DOMAIN found'.security : found'.security[n] \in Data \cup {Empty}
    BY <1>4, <2>1, PutSecurity
  <2>3. stage' = "payloads"
    BY <1>4 DEF After
  <2> QED
    BY <1>2, <1>4, <2>2, <2>3, QuietFind
<1> QED
  BY <1>2, <1>3, <1>4

LEMMA FindPayloadStep ==
    ASSUME SInv, FindPayload
    PROVE  SInv'
<1>1. /\ stage = "payloads" /\ InStage(stage) /\ at <= Len(Lines(stage))
      /\ UNCHANGED <<given, donor, active, caller, built>>
      /\ \/ Fail
         \/ /\ Advance /\ UNCHANGED pool
            /\ \E c : found' = [found EXCEPT !.payloads = Put(@, Line.name, c)]
  BY DEF FindPayload, AtLine, InStage
<1>2. CASE Fail
  <2>1. error'[1] = "payloads"
    BY <1>1, <1>2 DEF Fail
  <2>2. FailsOnlyForMissing'
    BY <2>1 DEF FailsOnlyForMissing
  <2> QED
    BY <1>1, <1>2, <2>2, FailKeeps
<1>3. ASSUME Advance, UNCHANGED pool, NEW c,
             found' = [found EXCEPT !.payloads = Put(@, Line.name, c)]
      PROVE  SInv'
  <2>1. UNCHANGED patch
    BY <1>3 DEF Advance
  <2>2. /\ found = [boot |-> found.boot, security |-> found.security,
                    payloads |-> found.payloads, files |-> found.files]
        /\ \A n \in DOMAIN found.security : n # "kv" => found.security[n] \in Data
        /\ \A n \in DOMAIN found.security : found.security[n] \in Data \cup {Empty}
    BY DEF SInv, FoundOK, TypeOK
  <2> PICK p : p = Put(found.payloads, Line.name, c)
    OBVIOUS
  <2>3. found' = [boot |-> found.boot, security |-> found.security,
                  payloads |-> p, files |-> found.files]
    BY <1>3, <2>2
  <2>4. /\ found'.boot = found.boot /\ found'.files = found.files
        /\ found' = [boot |-> found'.boot, security |-> found'.security,
                     payloads |-> found'.payloads, files |-> found'.files]
        /\ \A n \in DOMAIN found'.security : n # "kv" => found'.security[n] \in Data
        /\ \A n \in DOMAIN found'.security : found'.security[n] \in Data \cup {Empty}
    BY <2>2, <2>3
  <2> QED
    BY <1>1, <1>3, <2>1, <2>4, QuietFind
<1> QED
  BY <1>1, <1>2, <1>3

-----------------------------------------------------------------------------
(* Boot sections. *)

LEMMA FirstOfTwo ==
    ASSUME NEW X, NEW a \in SUBSET X, NEW b \in SUBSET X
    PROVE  /\ FirstOf(<<a, b>>) \subseteq X
           /\ FirstOf(<<a, b>>) = {} <=> a = {} /\ b = {}
<1>t. PICK t : t = <<a, b>>
  OBVIOUS
<1>1. t \in Seq(SUBSET X) /\ Len(t) = 2 /\ t[1] = a /\ t[2] = b
  BY <1>t
<1>2. FirstOf(t) \subseteq X /\ (FirstOf(t) = {} <=> \A i \in 1..Len(t) : t[i] = {})
  BY <1>1, FirstOfFacts
<1>3. FirstOf(t) = {} <=> a = {} /\ b = {}
  BY <1>1, <1>2
<1> QED
  BY <1>2, <1>3, <1>t

LEMMA SourceSame ==
    ASSUME UNCHANGED <<given, caller, active, donor>>
    PROVE  /\ \A line : BootCopies(line)' = BootCopies(line)
           /\ \A line : FileCopies(line)' = FileCopies(line)
<1>1. ini' = ini /\ options' = options /\ world' = world
  BY DEF given
<1>2. SourceNand' = SourceNand
  BY DEF SourceNand
<1>3. \A line, s : Accepted(line, s)' = Accepted(line, s)
  BY <1>1 DEF Accepted, Accepts, MatchesName
<1>4. \A line : FromNand(line)' = FromNand(line)
  BY <1>2, <1>3 DEF FromNand
<1>5. \A line, files : Copies(files, line)' = Copies(files, line)
  BY <1>1 DEF Copies, AcceptsFile
<1>6. \A line : FromNandFiles(line)' = FromNandFiles(line)
  BY <1>2, <1>5 DEF FromNandFiles, LiveFiles
<1>7. \A line : BootCopies(line)' = BootCopies(line)
  BY <1>1, <1>4, LookedSame DEF BootCopies
<1>8. (\E i \in DOMAIN ini.main : LookedThrough(ini.main[i]))'
      <=> (\E i \in DOMAIN ini.main : LookedThrough(ini.main[i]))
  BY <1>1, LookedSame
<1>9. \A line : FileCopies(line)' = FileCopies(line)
  BY <1>1, <1>2, <1>5, <1>8 DEF FileCopies, LiveFiles
<1> QED
  BY <1>7, <1>9

\* What a line may find, tier by tier.
Early(line)  == FirstOf(FolderTiers(line))
Update(line) == IF IsUpdate(line) THEN UpdateCopies(line, world.xboxupd) ELSE {}
Late(line)   == FirstOf(<<Folder("common", line), FromNand(line)>>)

LEMMA TierFacts ==
    ASSUME TypeOK, GivenOK, NEW line \in ParsedLine
    PROVE  /\ FirstOf(<<Early(line), Update(line)>>) \subseteq Good(line)
           /\ Late(line) \subseteq Good(line)
           /\ Late(line) = {} => Folder("common", line) = {} /\ FromNand(line) = {}
           /\ LookedThrough(line) => IsUpdate(line) /\ Early(line) \cup Update(line) = {}
           /\ Early(line) \cup Update(line) = {} /\ Late(line) = {} => BootCopies(line) = {}
<1>1. /\ Early(line) \subseteq Good(line)
      /\ Early(line) = {} => Folder("mydata", line) = {} /\ Folder("build", line) = {}
  BY FolderTiersFacts DEF Early
<1>2. Update(line) \subseteq Good(line)
  BY WorldUpdates, UpdateGood DEF Update
<1>3. FirstOf(<<Early(line), Update(line)>>) \subseteq Good(line)
  BY <1>1, <1>2, FirstOfTwo
<1>4. Folder("common", line) \subseteq Good(line) /\ FromNand(line) \subseteq Good(line)
  BY FolderGood, NandGood
<1>5. /\ Late(line) \subseteq Good(line)
      /\ Late(line) = {} => Folder("common", line) = {} /\ FromNand(line) = {}
  BY <1>4, FirstOfTwo DEF Late
<1>6. LookedThrough(line) => IsUpdate(line) /\ Early(line) \cup Update(line) = {}
  BY LookedFacts DEF Early, Update
<1>7. ASSUME Early(line) \cup Update(line) = {}, Late(line) = {} PROVE BootCopies(line) = {}
  <2>1. \A d \in Folders : Folder(d, line) = {}
    BY <1>1, <1>5, <1>7 DEF Folders
  <2> QED
    BY <1>5, <1>7, <2>1 DEF BootCopies, Update
<1> QED
  BY <1>3, <1>5, <1>6, <1>7

\* Lines of one name that ask for the same bytes are satisfied by the same copy.
LEMMA SameNameListed ==
    ASSUME NEW l \in ParsedLine, NEW m \in ParsedLine, Name(l) = Name(m), l.hash = m.hash,
           NEW section, IsAsListed(m, section)
    PROVE  IsAsListed(l, section)
<1>1. l.prefix = m.prefix /\ l.num = m.num
  BY DEF Name
<1> QED
  BY <1>1 DEF IsAsListed, MatchesName, Name

LEMMA OneMoreLine ==
    ASSUME at \in Nat \ {0}, at' = at + 1, stage' = stage
    PROVE  /\ stage = "boot" => PassedBoot = 1..(at - 1) /\ PassedBoot' = PassedBoot \cup {at}
           /\ stage = "files" => PassedFiles = 1..(at - 1) /\ PassedFiles' = PassedFiles \cup {at}
<1>1. 1..(at + 1 - 1) = 1..(at - 1) \cup {at}
  OBVIOUS
<1>2. CASE stage = "boot"
  <2>1. PassedBoot = 1..(at - 1) /\ PassedBoot' = 1..(at + 1 - 1)
    BY <1>2 DEF PassedBoot, Passed
  <2> QED
    BY <1>1, <1>2, <2>1
<1>3. CASE stage = "files"
  <2>1. PassedFiles = 1..(at - 1) /\ PassedFiles' = 1..(at + 1 - 1)
    BY <1>3 DEF PassedFiles, Passed
  <2> QED
    BY <1>1, <1>3, <2>1
<1> QED
  BY <1>2, <1>3

\* A boot section that is taken.
LEMMA TakeKeeps ==
    ASSUME SInv, AtLine("boot"), NEW line, line = Lines("boot")[at],
           NEW copies \in SUBSET Good(line), Take(line, copies),
           pool' \in Seq(SUBSET ShelfFile),
           \A k \in DOMAIN pool : k \in DOMAIN pool' /\ pool'[k] = pool[k],
           LookedThrough(line) => \A c \in ToSet(world.containers) :
                                     \E k \in DOMAIN pool' : pool'[k] = Wanted(c)
    PROVE  SInv'
<1>1. /\ stage = "boot" /\ stage' = "boot" /\ at' = at + 1
      /\ UNCHANGED <<given, donor, active, caller, built, error, patch>>
  BY DEF AtLine, InStage, Take, Advance
<1>2. ini' = ini /\ options' = options /\ world' = world
  BY <1>1 DEF given
<1>3. TypeOK /\ GivenOK /\ StageOK /\ FoundOK /\ ListedOK /\ PoolOK
  BY DEF SInv
<1>4. /\ Lines("boot") = ini.main /\ Len(ini.main) \in Nat /\ DOMAIN ini.main = 1..Len(ini.main)
      /\ \A i \in DOMAIN ini.main : ini.main[i] \in ParsedLine
      /\ Lines("boot")' = ini.main
  BY <1>1, <1>3, LinesFacts, GivenSame
<1>5. at \in 1..Len(ini.main) /\ line = ini.main[at] /\ line \in ParsedLine
  <2>1. at \in 1..Len(ini.main) + 1 /\ at <= Len(ini.main)
    BY <1>1, <1>3, <1>4 DEF TypeOK, After, AtLine
  <2> QED
    BY <1>4, <2>1
<1>6. PICK c \in Good(line) : found' = [found EXCEPT !.boot = Put(@, Name(line), Patched(line, c))]
  BY DEF Take
<1> PICK p : p = Patched(line, c)
  OBVIOUS
<1>7. p \in Section /\ (~options.gxunsafe => IsAsListed(line, p))
  BY <1>3, <1>5, GoodIsListed
<1> PICK b : b = Put(found.boot, Name(line), p)
  OBVIOUS
<1>8. /\ DOMAIN b = DOMAIN found.boot \cup {Name(line)} /\ b[Name(line)] = p
      /\ \A n \in DOMAIN found.boot : n # Name(line) => b[n] = found.boot[n]
  BY DEF Put
<1>9. found' = [boot |-> b, security |-> found.security,
                payloads |-> found.payloads, files |-> found.files]
  BY <1>3, <1>6 DEF FoundOK
<1>10. PassedBoot = 1..(at - 1) /\ PassedBoot' = PassedBoot \cup {at}
  BY <1>1, <1>4, <1>5, OneMoreLine
<1>11. PassedFiles' = {} /\ PassedBoot \subseteq DOMAIN ini.main
  BY <1>1, <1>4, <1>5, <1>10 DEF PassedFiles, Passed
<1>12. TypeOK'
  <2>1. \A n \in DOMAIN b : b[n] \in Section
    BY <1>3, <1>7, <1>8 DEF TypeOK
  <2>2. at' \in 1..Len(ini.main) + 1
    BY <1>1, <1>4, <1>5
  <2>3. Lines(stage)' = ini.main
    BY <1>1, <1>2, <1>4 DEF Lines
  <2> QED
    BY <1>1, <1>3, <1>9, <2>1, <2>2, <2>3 DEF TypeOK, After
<1>13. GivenOK' /\ (Strict' <=> Strict) /\ StageOK' /\ FailsOnlyForMissing' /\ ImageAsListed'
  BY <1>1, <1>3, GivenSame DEF StageOK, FailsOnlyForMissing, ImageAsListed
<1>14. FoundOK'
  <2>1. \A i \in PassedBoot' : Name(ini.main[i]) \in DOMAIN b
    BY <1>3, <1>5, <1>8, <1>10 DEF FoundOK
  <2>2. \A i \in PassedBoot' : (Name(ini.main[i]) \in DOMAIN found.boot)'
    BY <1>2, <1>9, <2>1 DEF Name
  <2> QED
    BY <1>3, <1>9, <1>11, <2>2 DEF FoundOK
<1>15. PoolOK'
  <2>1. ASSUME NEW i \in PassedBoot', LookedThrough(ini.main[i]), NEW x \in ToSet(world.containers)
        PROVE  \E k \in DOMAIN pool' : pool'[k] = Wanted(x)
    <3>1. CASE i = at
      BY <1>5, <2>1, <3>1
    <3>2. CASE i \in PassedBoot
      BY <1>3, <2>1, <3>2 DEF PoolOK
    <3> QED
      BY <1>10, <3>1, <3>2
  <2>2. \A i : LookedThrough(ini.main[i])' <=> LookedThrough(ini.main[i])
    BY <1>1, <1>2, LookedSame
  <2>3. \A x : Wanted(x)' = Wanted(x)
    BY <1>1, <1>3, GivenSame
  <2> QED
    BY <1>2, <2>1, <2>2, <2>3 DEF PoolOK
<1>16. ASSUME Strict, NEW i \in PassedBoot'
       PROVE  IsAsListed(ini.main[i], b[Name(ini.main[i])])
  <2>1. NamesAgree /\ ~options.gxunsafe
    BY <1>16 DEF Strict
  <2>2. i \in DOMAIN ini.main /\ at \in DOMAIN ini.main
    BY <1>4, <1>5, <1>10, <1>11
  <2>3. CASE Name(ini.main[i]) = Name(line)
    <3>1. ini.main[i].hash = line.hash
      BY <1>5, <2>1, <2>2, <2>3 DEF NamesAgree
    <3>2. ini.main[i] \in ParsedLine /\ IsAsListed(line, p)
      BY <1>4, <1>7, <2>1, <2>2
    <3> QED
      BY <1>5, <1>8, <2>3, <3>1, <3>2, SameNameListed
  <2>4. CASE Name(ini.main[i]) # Name(line)
    <3>1. i \in PassedBoot
      BY <1>5, <1>10, <2>4
    <3>2. Name(ini.main[i]) \in DOMAIN found.boot
      BY <1>3, <3>1 DEF FoundOK
    <3>3. IsAsListed(ini.main[i], found.boot[Name(ini.main[i])])
      BY <1>3, <1>16, <3>1 DEF ListedOK
    <3> QED
      BY <1>8, <2>4, <3>2, <3>3
  <2> QED
    BY <2>3, <2>4
<1>17. ListedOK'
  <2> SUFFICES ASSUME Strict, NEW i \in PassedBoot'
               PROVE  IsAsListed(ini.main[i], found.boot[Name(ini.main[i])])'
    BY <1>11, <1>13 DEF ListedOK
  <2>1. IsAsListed(ini.main[i], b[Name(ini.main[i])])
    BY <1>16
  <2> QED
    BY <1>1, <1>2, <1>9, <2>1, ListedSame DEF Name
<1> QED
  BY <1>12, <1>13, <1>14, <1>15, <1>17 DEF SInv

LEMMA FindBootStep ==
    ASSUME SInv, FindBoot
    PROVE  SInv'
<1>l. PICK line : line = Lines("boot")[at]
  OBVIOUS
<1>1. /\ AtLine("boot") /\ stage = "boot" /\ InStage(stage) /\ Line = line
      /\ UNCHANGED <<given, donor, active, caller, built>>
  BY <1>l DEF FindBoot, AtLine, InStage, Line
<1>2. TypeOK /\ GivenOK /\ StageOK /\ FoundOK /\ ListedOK /\ PoolOK
  BY DEF SInv
<1>3. line \in ParsedLine /\ line = ini.main[at] /\ at \in Nat
  <2>1. at \in 1..Len(Lines("boot")) + 1 /\ at <= Len(Lines("boot"))
    BY <1>1, <1>2 DEF TypeOK, After, AtLine
  <2>2. /\ Lines("boot") = ini.main /\ Len(Lines("boot")) \in Nat
        /\ DOMAIN ini.main = 1..Len(ini.main)
        /\ \A i \in DOMAIN ini.main : ini.main[i] \in ParsedLine
    BY <1>2, LinesFacts
  <2> QED
    BY <1>l, <2>1, <2>2
<1>4. /\ FirstOf(<<Early(line), Update(line)>>) \subseteq Good(line)
      /\ Late(line) \subseteq Good(line)
      /\ LookedThrough(line) => IsUpdate(line) /\ Early(line) \cup Update(line) = {}
      /\ Early(line) \cup Update(line) = {} /\ Late(line) = {} => BootCopies(line) = {}
  BY <1>2, <1>3, TierFacts
<1> DEFINE scan == Scan(line)
           copies == FirstOf(<<scan.copies, Late(line)>>)
<1>5. /\ scan.copies \subseteq Good(line)
      /\ scan.files \in Seq(SUBSET ShelfFile)
      /\ \A k \in DOMAIN pool : k \in DOMAIN scan.files /\ scan.files[k] = pool[k]
      /\ scan.copies = {} <=> \A i \in 1..Len(world.containers) :
                                 UpdateCopies(line, world.containers[i].update) = {}
      /\ scan.copies = {} => \A c \in ToSet(world.containers) :
                                \E k \in DOMAIN scan.files : scan.files[k] = Wanted(c)
  <2>1. GivenOK /\ pool \in Seq(SUBSET ShelfFile)
    BY <1>2 DEF PoolOK
  <2> QED
    BY <2>1, ScanFacts
<1>6. copies \subseteq Good(line) /\ (copies = {} => Late(line) = {})
  <2>1. scan.copies \in SUBSET Good(line) /\ Late(line) \in SUBSET Good(line)
    BY <1>4, <1>5
  <2>2. PICK a, b : a = scan.copies /\ b = Late(line)
    OBVIOUS
  <2>3. a \in SUBSET Good(line) /\ b \in SUBSET Good(line)
    BY <2>1, <2>2
  <2>4. /\ FirstOf(<<a, b>>) \subseteq Good(line)
        /\ FirstOf(<<a, b>>) = {} <=> a = {} /\ b = {}
    BY <2>3, FirstOfTwo
  <2>5. copies = FirstOf(<<a, b>>)
    BY <2>2
  <2> HIDE DEF copies, scan
  <2> QED
    BY <2>2, <2>4, <2>5
<1>7. LookedThrough(line) => scan.copies = {}
  BY <1>2, <1>5, LookedFacts
<1>8. \/ /\ Early(line) \cup Update(line) # {} /\ UNCHANGED pool
         /\ Take(line, FirstOf(<<Early(line), Update(line)>>))
      \/ /\ Early(line) \cup Update(line) = {} /\ Fail /\ Late(line) = {}
      \/ /\ IsUpdate(line) /\ Take(line, copies) /\ pool' = scan.files
      \/ ~IsUpdate(line) /\ Take(line, Late(line)) /\ UNCHANGED pool
  <2>1. LET early  == FirstOf(FolderTiers(Line))
            update == IF IsUpdate(Line) THEN UpdateCopies(Line, world.xboxupd) ELSE {}
            scan1  == Scan(Line)
            late   == FirstOf(<<Folder("common", Line), FromNand(Line)>>)
        IN  IF early \cup update # {}
            THEN Take(Line, FirstOf(<<early, update>>)) /\ UNCHANGED pool
            ELSE IF IsUpdate(Line)
            THEN LET taken == FirstOf(<<scan1.copies, late>>)
                 IN  IF taken = {} THEN Fail ELSE Take(Line, taken) /\ pool' = scan1.files
            ELSE IF late = {} THEN Fail ELSE Take(Line, late) /\ UNCHANGED pool
    BY DEF FindBoot
  <2> HIDE DEF scan
  <2>2. IF Early(line) \cup Update(line) # {}
        THEN Take(line, FirstOf(<<Early(line), Update(line)>>)) /\ UNCHANGED pool
        ELSE IF IsUpdate(line)
        THEN IF copies = {} THEN Fail ELSE Take(line, copies) /\ pool' = scan.files
        ELSE IF Late(line) = {} THEN Fail ELSE Take(line, Late(line)) /\ UNCHANGED pool
    BY <1>1, <2>1 DEF Early, Update, Late, scan
  <2> HIDE DEF copies
  <2> QED
    BY <1>6, <2>2
<1> HIDE DEF scan, copies
<1>9. CASE Early(line) \cup Update(line) # {} /\ UNCHANGED pool
           /\ Take(line, FirstOf(<<Early(line), Update(line)>>))
  <2>1. ~LookedThrough(line)
    BY <1>4, <1>9
  <2>2. /\ pool' \in Seq(SUBSET ShelfFile)
        /\ \A k \in DOMAIN pool : k \in DOMAIN pool' /\ pool'[k] = pool[k]
    BY <1>2, <1>9 DEF PoolOK
  <2> QED
    BY <1>1, <1>l, <1>4, <1>9, <2>1, <2>2, TakeKeeps
<1>10. CASE Early(line) \cup Update(line) = {} /\ Fail /\ Late(line) = {}
  <2>1. BootCopies(line) = {}
    BY <1>4, <1>10
  <2>2. error' = <<"boot", at>> /\ ini' = ini
    BY <1>1, <1>10 DEF Fail, given
  <2>3. error'[1] = "boot" /\ error'[2] = at /\ ini'.main[error'[2]] = line
    BY <1>3, <2>2
  <2>4. BootCopies(line)' = {}
    BY <1>1, <2>1, SourceSame
  <2>5. BootCopies(ini.main[error[2]])' = {}
    BY <2>3, <2>4 DEF BootCopies
  <2>6. FailsOnlyForMissing'
    BY <2>3, <2>5 DEF FailsOnlyForMissing
  <2> QED
    BY <1>1, <1>10, <2>6, FailKeeps
<1>11. CASE IsUpdate(line) /\ Take(line, copies) /\ pool' = scan.files
  <2>1. /\ pool' \in Seq(SUBSET ShelfFile)
        /\ \A k \in DOMAIN pool : k \in DOMAIN pool' /\ pool'[k] = pool[k]
        /\ LookedThrough(line) => \A c \in ToSet(world.containers) :
                                     \E k \in DOMAIN pool' : pool'[k] = Wanted(c)
    BY <1>5, <1>7, <1>11
  <2> QED
    BY <1>1, <1>l, <1>6, <1>11, <2>1, TakeKeeps
<1>12. CASE ~IsUpdate(line) /\ Take(line, Late(line)) /\ UNCHANGED pool
  <2>1. ~LookedThrough(line)
    BY <1>4, <1>12
  <2>2. /\ pool' \in Seq(SUBSET ShelfFile)
        /\ \A k \in DOMAIN pool : k \in DOMAIN pool' /\ pool'[k] = pool[k]
    BY <1>2, <1>12 DEF PoolOK
  <2> QED
    BY <1>1, <1>l, <1>4, <1>12, <2>1, <2>2, TakeKeeps
<1> QED
  BY <1>8, <1>9, <1>10, <1>11, <1>12

-----------------------------------------------------------------------------
(* FlashFS files. *)

\* Tiers behind tiers.
LEMMA FirstOfBoth ==
    ASSUME NEW X, NEW s \in Seq(SUBSET X), NEW t \in Seq(SUBSET X)
    PROVE  /\ s \o t \in Seq(SUBSET X)
           /\ FirstOf(s \o t) = {} => FirstOf(s) = {} /\ FirstOf(t) = {}
<1>u. PICK u : u = s \o t
  OBVIOUS
<1>1. /\ u \in Seq(SUBSET X) /\ Len(u) = Len(s) + Len(t) /\ Len(s) \in Nat /\ Len(t) \in Nat
      /\ \A i \in 1..Len(s) : u[i] = s[i]
      /\ \A i \in 1..Len(t) : u[Len(s) + i] = t[i]
  BY <1>u
<1>2. /\ FirstOf(s) = {} <=> \A i \in 1..Len(s) : s[i] = {}
      /\ FirstOf(t) = {} <=> \A i \in 1..Len(t) : t[i] = {}
      /\ FirstOf(u) = {} <=> \A i \in 1..Len(u) : u[i] = {}
  BY <1>1, FirstOfFacts
<1>3. ASSUME FirstOf(u) = {} PROVE FirstOf(s) = {} /\ FirstOf(t) = {}
  <2>1. \A i \in 1..Len(u) : u[i] = {}
    BY <1>2, <1>3
  <2>2. \A i \in 1..Len(s) : i \in 1..Len(u)
    BY <1>1
  <2>3. \A i \in 1..Len(t) : Len(s) + i \in 1..Len(u)
    BY <1>1
  <2>4. \A i \in 1..Len(s) : s[i] = {}
    BY <1>1, <2>1, <2>2
  <2>5. \A i \in 1..Len(t) : t[i] = {}
    BY <1>1, <2>1, <2>3
  <2> QED
    BY <1>2, <2>4, <2>5
<1> QED
  BY <1>1, <1>3, <1>u

LEMMA FunIsSeq ==
    ASSUME NEW X, NEW n \in Nat, NEW f \in [1..n -> X]
    PROVE  f \in Seq(X) /\ Len(f) = n
<1>1. f = [i \in 1..n |-> f[i]] /\ \A i \in 1..n : f[i] \in X
  OBVIOUS
<1> QED
  BY <1>1

\* A tier of three: the file itself, then the two named like it.
LEMMA CopiesFacts ==
    ASSUME NEW files, \A f \in files : f.data \in Data, NEW line
    PROVE  /\ Copies(files, line) \in [1..3 -> SUBSET GoodData(line)]
           /\ Copies(files, line) \in Seq(SUBSET GoodData(line)) /\ Len(Copies(files, line)) = 3
           /\ \A f \in files : f.name = line.name /\ f.suffix \in 0..2 /\ AcceptsFile(line, f.data)
                 => f.suffix + 1 \in 1..3 /\ f.data \in Copies(files, line)[f.suffix + 1]
           /\ \A s \in 1..3 : \A d \in Copies(files, line)[s] : \E f \in files :
                 f.data = d /\ f.name = line.name /\ f.suffix = s - 1 /\ AcceptsFile(line, d)
<1> DEFINE Of(s) == {f.data : f \in {g \in files : /\ g.name = line.name
                                                   /\ g.suffix = s - 1
                                                   /\ AcceptsFile(line, g.data)}}
<1>1. Copies(files, line) = [s \in 1..3 |-> Of(s)]
  BY DEF Copies
<1>2. \A s \in 1..3 : Of(s) \in SUBSET GoodData(line)
  BY DEF GoodData
<1>3. \A f \in files : f.name = line.name /\ f.suffix \in 0..2 /\ AcceptsFile(line, f.data)
         => f.suffix + 1 \in 1..3 /\ f.data \in Of(f.suffix + 1)
  <2> TAKE f \in files
  <2> HAVE f.name = line.name /\ f.suffix \in 0..2 /\ AcceptsFile(line, f.data)
  <2>1. f.suffix + 1 \in 1..3 /\ f.suffix = (f.suffix + 1) - 1
    OBVIOUS
  <2> QED
    BY <2>1
<1>4. \A s \in 1..3 : \A d \in Of(s) : \E f \in files :
         f.data = d /\ f.name = line.name /\ f.suffix = s - 1 /\ AcceptsFile(line, d)
  OBVIOUS
<1> HIDE DEF Of
<1>5. /\ Copies(files, line) \in [1..3 -> SUBSET GoodData(line)]
      /\ \A s \in 1..3 : Copies(files, line)[s] = Of(s)
  BY <1>1, <1>2
<1>6. Copies(files, line) \in Seq(SUBSET GoodData(line)) /\ Len(Copies(files, line)) = 3
  <2>1. 3 \in Nat
    OBVIOUS
  <2> QED
    BY <1>5, <2>1, FunIsSeq
<1> QED
  BY <1>3, <1>4, <1>5, <1>6

LEMMA PoolFacts ==
    ASSUME GivenOK, pool \in Seq(SUBSET ShelfFile), NEW line
    PROVE  /\ FromPool(line) \in Seq(SUBSET GoodData(line))
           /\ FirstOf(FromPool(line)) = {} =>
                 \A k \in DOMAIN pool, f \in ShelfFile :
                    ~ (f \in pool[k] /\ f.name = line.name /\ AcceptsFile(line, f.data))
<1> DEFINE X == SUBSET GoodData(line)
           row(s) == [i \in DOMAIN pool |-> Copies(pool[i], line)[s]]
           from == FromPool(line)
<1>1. DOMAIN pool = 1..Len(pool) /\ Len(pool) \in Nat /\ \A i \in 1..Len(pool) : pool[i] \subseteq ShelfFile
  OBVIOUS
<1>2. \A i \in 1..Len(pool) : \A f \in pool[i] : f.data \in Data /\ f.suffix \in 0..2
  BY <1>1 DEF ShelfFile
<1>3. \A i \in 1..Len(pool) :
        /\ Copies(pool[i], line) \in [1..3 -> X]
        /\ \A f \in pool[i] : f.name = line.name /\ AcceptsFile(line, f.data)
              => f.suffix + 1 \in 1..3 /\ Copies(pool[i], line)[f.suffix + 1] # {}
  <2> TAKE i \in 1..Len(pool)
  <2> PICK files : files = pool[i]
    OBVIOUS
  <2>1. \A f \in files : f.data \in Data /\ f.suffix \in 0..2
    BY <1>2
  <2>2. /\ Copies(files, line) \in [1..3 -> X]
        /\ \A f \in files : f.name = line.name /\ f.suffix \in 0..2 /\ AcceptsFile(line, f.data)
              => f.suffix + 1 \in 1..3 /\ f.data \in Copies(files, line)[f.suffix + 1]
    BY <2>1, CopiesFacts
  <2> HIDE DEF X
  <2>3. \A f \in files : f.name = line.name /\ AcceptsFile(line, f.data)
              => f.suffix + 1 \in 1..3 /\ Copies(files, line)[f.suffix + 1] # {}
    BY <2>1, <2>2
  <2> QED
    BY <2>2, <2>3
<1>4. \A s \in 1..3 : /\ row(s) \in Seq(X) /\ Len(row(s)) = Len(pool)
                      /\ \A i \in 1..Len(pool) : row(s)[i] = Copies(pool[i], line)[s]
  <2> HIDE DEF X
  <2> TAKE s \in 1..3
  <2>1. row(s) \in [1..Len(pool) -> X]
    BY <1>1, <1>3
  <2>2. row(s) \in Seq(X) /\ Len(row(s)) = Len(pool)
    <3> HIDE DEF row
    <3> QED
      BY <1>1, <2>1, FunIsSeq
  <2> QED
    BY <1>1, <2>2
<1>5. from = [s \in 1..3 |-> FirstOf(row(s))]
  BY DEF FromPool
<1> HIDE DEF row
<1>6. \A s \in 1..3 : /\ FirstOf(row(s)) \in X
                      /\ FirstOf(row(s)) = {} <=> \A i \in 1..Len(pool) : row(s)[i] = {}
  <2> TAKE s \in 1..3
  <2>r. PICK r : r = row(s)
    OBVIOUS
  <2>1. r \in Seq(SUBSET GoodData(line)) /\ Len(r) = Len(pool)
    BY <1>4, <2>r
  <2>2. FirstOf(r) \subseteq GoodData(line) /\ (FirstOf(r) = {} <=> \A i \in 1..Len(r) : r[i] = {})
    BY <2>1, FirstOfFacts
  <2> QED
    BY <2>1, <2>2, <2>r
<1>7. from \in [1..3 -> X] /\ \A s \in 1..3 : from[s] = FirstOf(row(s))
  BY <1>5, <1>6
<1> HIDE DEF from
<1>8. from \in Seq(X) /\ Len(from) = 3
  <2>1. 3 \in Nat
    OBVIOUS
  <2> HIDE DEF X
  <2> QED
    BY <1>7, <2>1, FunIsSeq
<1>9. FirstOf(from) = {} => \A s \in 1..3 : from[s] = {}
  <2>1. FirstOf(from) = {} <=> \A i \in 1..Len(from) : from[i] = {}
    BY <1>8, FirstOfFacts
  <2> QED
    BY <1>8, <2>1
<1>10. ASSUME FirstOf(from) = {}, NEW k \in 1..Len(pool), NEW f \in pool[k],
              f.name = line.name, AcceptsFile(line, f.data)
       PROVE  FALSE
  <2>1. f.suffix + 1 \in 1..3 /\ Copies(pool[k], line)[f.suffix + 1] # {}
    BY <1>3, <1>10
  <2>2. from[f.suffix + 1] = {}
    BY <1>9, <1>10, <2>1
  <2>3. row(f.suffix + 1)[k] = {}
    BY <1>6, <1>7, <2>1, <2>2
  <2> QED
    BY <1>4, <2>1, <2>3
<1> QED
  BY <1>1, <1>8, <1>10 DEF from

LEMMA FileTiersFacts ==
    ASSUME TypeOK, GivenOK, pool \in Seq(SUBSET ShelfFile), NEW line
    PROVE  /\ FirstOf(FileTiers(line)) \subseteq GoodData(line)
           /\ FirstOf(FileTiers(line)) = {} =>
                 /\ \A f \in world.files : ~ (f.name = line.name /\ AcceptsFile(line, f.data))
                 /\ FirstOf(FromPool(line)) = {} /\ FromNandFiles(line) = {}
<1> DEFINE X == SUBSET GoodData(line)
<1>1. \A f \in world.files : /\ f.data \in Data /\ f.suffix \in 0..2
                             /\ f.dir \in {"mydata", "build", "flashfs", "common"}
  BY DEF GivenOK, World
<1>2. ASSUME NEW d
      PROVE  /\ In(d, line) \in Seq(X)
             /\ FirstOf(In(d, line)) = {} => \A f \in world.files : f.dir = d =>
                   ~ (f.name = line.name /\ AcceptsFile(line, f.data))
  <2>f. PICK files : files = {f \in world.files : f.dir = d}
    OBVIOUS
  <2>t. PICK t : t = Copies(files, line)
    OBVIOUS
  <2>1. In(d, line) = t
    BY <2>f, <2>t DEF In
  <2>2. \A f \in files : f.data \in Data /\ f.suffix \in 0..2
    BY <1>1, <2>f
  <2>3. /\ t \in Seq(SUBSET GoodData(line)) /\ Len(t) = 3
        /\ \A f \in files : f.name = line.name /\ f.suffix \in 0..2 /\ AcceptsFile(line, f.data)
              => f.suffix + 1 \in 1..3 /\ f.data \in t[f.suffix + 1]
    BY <2>2, <2>t, CopiesFacts
  <2>4. FirstOf(t) = {} <=> \A i \in 1..Len(t) : t[i] = {}
    BY <2>3, FirstOfFacts
  <2>5. ASSUME FirstOf(t) = {}, NEW f \in world.files, f.dir = d,
               f.name = line.name, AcceptsFile(line, f.data)
        PROVE  FALSE
    <3>1. f \in files
      BY <2>5, <2>f
    <3>2. f.suffix + 1 \in 1..3 /\ f.data \in t[f.suffix + 1]
      BY <2>2, <2>3, <2>5, <3>1
    <3> QED
      BY <2>3, <2>4, <2>5, <3>2
  <2> QED
    BY <2>1, <2>3, <2>5
<1>3. FromNandFiles(line) \in X
  <2>1. ASSUME SourceNand # NoNand PROVE FromNandFiles(line) \in X
    <3>1. SourceNand \in Nand
      BY <2>1, SourceTypes
    <3>2. \A f \in SourceNand.files : f.data \in Data
      BY <3>1 DEF Nand
    <3>3. PICK files : files \subseteq SourceNand.files /\ FromNandFiles(line) = Copies(files, line)[1]
      BY <2>1 DEF FromNandFiles, LiveFiles
    <3>4. Copies(files, line) \in [1..3 -> X]
      <4>1. \A f \in files : f.data \in Data
        BY <3>2, <3>3
      <4> QED
        BY <4>1, CopiesFacts
    <3> HIDE DEF X
    <3> QED
      BY <3>3, <3>4
  <2> QED
    BY <2>1 DEF FromNandFiles
<1>4. FromPool(line) \in Seq(X)
  BY PoolFacts
<1> PICK a, b, c, p, e, n : /\ a = In("mydata", line) /\ b = In("build", line)
                            /\ c = In("flashfs", line) /\ p = FromPool(line)
                            /\ e = In("common", line) /\ n = <<FromNandFiles(line)>>
  OBVIOUS
<1>5. /\ a \in Seq(X) /\ b \in Seq(X) /\ c \in Seq(X) /\ p \in Seq(X) /\ e \in Seq(X)
      /\ n \in Seq(X)
  BY <1>2, <1>3, <1>4
<1>6. FileTiers(line) = a \o b \o c \o p \o e \o n
  BY DEF FileTiers
<1>7. \A s, t \in Seq(X) : s \o t \in Seq(X) /\ (FirstOf(s \o t) = {} => FirstOf(s) = {} /\ FirstOf(t) = {})
  BY FirstOfBoth
<1>8. FirstOf(n) = {} => FromNandFiles(line) = {}
  <2>1. FirstOf(n) = {} <=> \A i \in 1..Len(n) : n[i] = {}
    BY <1>5, FirstOfFacts
  <2> QED
    BY <2>1
<1>9. /\ FileTiers(line) \in Seq(X)
      /\ FirstOf(FileTiers(line)) = {} =>
            FirstOf(a) = {} /\ FirstOf(b) = {} /\ FirstOf(c) = {} /\ FirstOf(p) = {}
            /\ FirstOf(e) = {} /\ FirstOf(n) = {}
  <2> HIDE DEF X
  <2>1. a \o b \in Seq(X) /\ (FirstOf(a \o b) = {} => FirstOf(a) = {} /\ FirstOf(b) = {})
    BY <1>5, <1>7, Zenon
  <2>2. /\ a \o b \o c \in Seq(X)
        /\ FirstOf(a \o b \o c) = {} => FirstOf(a \o b) = {} /\ FirstOf(c) = {}
    BY <1>5, <1>7, <2>1, Zenon
  <2>3. /\ a \o b \o c \o p \in Seq(X)
        /\ FirstOf(a \o b \o c \o p) = {} => FirstOf(a \o b \o c) = {} /\ FirstOf(p) = {}
    BY <1>5, <1>7, <2>2, Zenon
  <2>4. /\ a \o b \o c \o p \o e \in Seq(X)
        /\ FirstOf(a \o b \o c \o p \o e) = {} => FirstOf(a \o b \o c \o p) = {} /\ FirstOf(e) = {}
    BY <1>5, <1>7, <2>3, Zenon
  <2>5. /\ a \o b \o c \o p \o e \o n \in Seq(X)
        /\ FirstOf(a \o b \o c \o p \o e \o n) = {} => FirstOf(a \o b \o c \o p \o e) = {} /\ FirstOf(n) = {}
    BY <1>5, <1>7, <2>4, Zenon
  <2> QED
    BY <1>6, <2>1, <2>2, <2>3, <2>4, <2>5, Zenon
<1>10. FirstOf(FileTiers(line)) \subseteq GoodData(line)
  BY <1>9, FirstOfFacts
<1> QED
  BY <1>1, <1>2, <1>8, <1>9, <1>10

\* A line whose tiers are all empty has no copy anywhere.
LEMMA NoFileCopies ==
    ASSUME TypeOK, GivenOK, PoolOK, stage = "files", NEW line, IsListed(line.name),
           FirstOf(FileTiers(line)) = {}
    PROVE  FileCopies(line) = {}
<1> DEFINE shelf == {f \in world.files : f.dir \in Folders \cup {"flashfs"}}
           looked == \E i \in DOMAIN ini.main : LookedThrough(ini.main[i])
           inside == IF looked THEN UNION {c.files : c \in ToSet(world.containers)} ELSE {}
<1>1. pool \in Seq(SUBSET ShelfFile)
  BY DEF PoolOK
<1>2. /\ \A f \in world.files : ~ (f.name = line.name /\ AcceptsFile(line, f.data))
      /\ FirstOf(FromPool(line)) = {} /\ FromNandFiles(line) = {}
  BY <1>1, FileTiersFacts
<1>3. \A k \in DOMAIN pool, f \in ShelfFile :
         ~ (f \in pool[k] /\ f.name = line.name /\ AcceptsFile(line, f.data))
  BY <1>1, <1>2, PoolFacts
<1>4. \A c \in ToSet(world.containers) : c.files \in SUBSET ShelfFile
  BY WorldUpdates DEF ToSet
<1>5. ASSUME NEW files, \A f \in files : f.data \in Data,
             \A f \in files : ~ (f.name = line.name /\ AcceptsFile(line, f.data))
      PROVE  UNION ToSet(Copies(files, line)) = {}
  <2>1. /\ Copies(files, line) \in [1..3 -> SUBSET GoodData(line)]
        /\ \A s \in 1..3 : \A d \in Copies(files, line)[s] : \E f \in files :
              f.data = d /\ f.name = line.name /\ f.suffix = s - 1 /\ AcceptsFile(line, d)
    BY <1>5, CopiesFacts
  <2>2. \A s \in 1..3 : Copies(files, line)[s] = {}
    BY <1>5, <2>1
  <2>3. DOMAIN Copies(files, line) = 1..3
    BY <2>1
  <2> QED
    BY <2>2, <2>3 DEF ToSet
<1>6. UNION ToSet(Copies(shelf, line)) = {}
  <2>1. \A f \in world.files : f.data \in Data
    BY DEF GivenOK, World
  <2> QED
    BY <1>2, <1>5, <2>1
<1>7. \A f \in inside : f \in ShelfFile /\ ~ (f.name = line.name /\ AcceptsFile(line, f.data))
  <2> SUFFICES ASSUME looked, NEW c \in ToSet(world.containers), NEW f \in c.files,
                      f.name = line.name, AcceptsFile(line, f.data)
               PROVE  FALSE
    BY <1>4
  <2>1. PICK i \in DOMAIN ini.main : LookedThrough(ini.main[i])
    OBVIOUS
  <2>2. i \in PassedBoot
    <3>1. Lines("boot") = ini.main /\ DOMAIN ini.main = 1..Len(ini.main)
      BY LinesFacts
    <3> QED
      BY <3>1 DEF PassedBoot, Passed
  <2>3. PICK k \in DOMAIN pool : pool[k] = Wanted(c)
    BY <2>1, <2>2 DEF PoolOK
  <2>4. f \in pool[k]
    BY <2>3 DEF Wanted
  <2> QED
    BY <1>3, <1>4, <2>4
<1>8. UNION ToSet(Copies(inside, line)) = {}
  <2> HIDE DEF inside
  <2>1. \A f \in inside : f.data \in Data
    BY <1>7 DEF ShelfFile
  <2> QED
    BY <1>5, <1>7, <2>1
<1>9. ASSUME SourceNand # NoNand,
             line.name \notin {f.name : f \in SourceNand.files \ LiveFiles(SourceNand)}
      PROVE  Copies(LiveFiles(SourceNand), line)[1] = {}
  BY <1>2, <1>9 DEF FromNandFiles
<1> HIDE DEF shelf, inside
<1> QED
  BY <1>6, <1>8, <1>9 DEF FileCopies, shelf, inside, looked

LEMMA FileTaken ==
    ASSUME SInv, AtLine("files"), NEW line, line = Lines("files")[at], ~line.bypassed,
           NEW c \in GoodData(line), Advance, UNCHANGED pool,
           found' = [found EXCEPT !.files = Put(@, line.name, c)]
    PROVE  SInv'
<1>1. /\ stage = "files" /\ stage' = "files" /\ at' = at + 1
      /\ UNCHANGED <<given, donor, active, caller, built, error, patch, pool>>
  BY DEF AtLine, InStage, Advance
<1>2. ini' = ini /\ options' = options /\ world' = world
  BY <1>1 DEF given
<1>3. TypeOK /\ GivenOK /\ StageOK /\ FoundOK /\ ListedOK /\ PoolOK
  BY DEF SInv
<1>4. /\ Lines("files") = ini.files /\ Len(ini.files) \in Nat /\ DOMAIN ini.files = 1..Len(ini.files)
      /\ \A i \in DOMAIN ini.files : ini.files[i] \in FileLine(AllNames)
      /\ Lines("files")' = ini.files
  BY <1>1, <1>3, LinesFacts, GivenSame
<1>5. at \in 1..Len(ini.files) /\ line = ini.files[at] /\ line \in FileLine(AllNames)
  <2>1. at \in 1..Len(ini.files) + 1 /\ at <= Len(ini.files)
    BY <1>1, <1>3, <1>4 DEF TypeOK, After, AtLine
  <2> QED
    BY <1>4, <2>1
<1>6. c \in Data /\ AcceptsFile(line, c) /\ line.name \in AllNames
  BY <1>5 DEF GoodData, FileLine
<1> PICK b : b = Put(found.files, line.name, c)
  OBVIOUS
<1>8. /\ DOMAIN b = DOMAIN found.files \cup {line.name} /\ b[line.name] = c
      /\ \A n \in DOMAIN found.files : n # line.name => b[n] = found.files[n]
  BY DEF Put
<1>9. found' = [boot |-> found.boot, security |-> found.security,
                payloads |-> found.payloads, files |-> b]
  BY <1>3 DEF FoundOK
<1>10. PassedFiles' = PassedFiles \cup {at} /\ PassedFiles \subseteq DOMAIN ini.files
  <2>1. PassedFiles = 1..(at - 1) /\ PassedFiles' = PassedFiles \cup {at}
    BY <1>1, <1>4, <1>5, OneMoreLine
  <2> QED
    BY <1>4, <1>5, <2>1
<1>11. PassedBoot' = PassedBoot
  BY <1>1, <1>3, GivenSame DEF PassedBoot, Passed
<1>12. TypeOK'
  <2>1. \A n \in DOMAIN b : b[n] \in Data
    BY <1>3, <1>6, <1>8 DEF TypeOK
  <2>2. at' \in 1..Len(ini.files) + 1
    BY <1>1, <1>4, <1>5
  <2>3. Lines(stage)' = ini.files
    BY <1>1, <1>2, <1>4 DEF Lines
  <2> QED
    BY <1>1, <1>3, <1>9, <2>1, <2>2, <2>3 DEF TypeOK, After
<1>13. GivenOK' /\ (Strict' <=> Strict) /\ StageOK' /\ FailsOnlyForMissing' /\ ImageAsListed'
  BY <1>1, <1>3, GivenSame DEF StageOK, FailsOnlyForMissing, ImageAsListed
<1>14. FoundOK'
  <2>1. \A i \in PassedFiles' : ~ini.files[i].bypassed => ini.files[i].name \in DOMAIN b
    BY <1>3, <1>5, <1>8, <1>10 DEF FoundOK
  <2>2. DOMAIN b \subseteq AllNames
    BY <1>3, <1>6, <1>8 DEF FoundOK
  <2>3. \A i \in PassedBoot' : (Name(ini.main[i]) \in DOMAIN found.boot)'
    BY <1>2, <1>3, <1>9, <1>11 DEF FoundOK, Name
  <2> QED
    BY <1>2, <1>3, <1>9, <2>1, <2>2, <2>3 DEF FoundOK
<1>15. PoolOK'
  <2>1. \A i : LookedThrough(ini.main[i])' <=> LookedThrough(ini.main[i])
    BY <1>1, <1>2, LookedSame
  <2>2. \A x : Wanted(x)' = Wanted(x)
    BY <1>1, <1>3, GivenSame
  <2> QED
    BY <1>1, <1>2, <1>3, <1>11, <2>1, <2>2 DEF PoolOK
<1>16. ASSUME Strict, NEW i \in PassedFiles', ~ini.files[i].bypassed
       PROVE  AcceptsFile(ini.files[i], b[ini.files[i].name])
  <2>1. NamesAgree
    BY <1>16 DEF Strict
  <2>2. i \in DOMAIN ini.files /\ at \in DOMAIN ini.files
    BY <1>4, <1>5, <1>10
  <2>3. CASE ini.files[i].name = line.name
    <3>1. ini.files[i].hash = line.hash
      BY <1>5, <1>16, <2>1, <2>2, <2>3 DEF NamesAgree
    <3> QED
      BY <1>6, <1>8, <2>3, <3>1 DEF AcceptsFile
  <2>4. CASE ini.files[i].name # line.name
    <3>1. i \in PassedFiles
      BY <1>5, <1>10, <2>4
    <3>2. ini.files[i].name \in DOMAIN found.files
      BY <1>3, <1>16, <3>1 DEF FoundOK
    <3>3. AcceptsFile(ini.files[i], found.files[ini.files[i].name])
      BY <1>3, <1>16, <3>1 DEF ListedOK
    <3> QED
      BY <1>8, <2>4, <3>2, <3>3
  <2> QED
    BY <2>3, <2>4
<1>17. ASSUME Strict, NEW i \in PassedBoot'
       PROVE  IsAsListed(ini.main[i], found.boot[Name(ini.main[i])])'
  <2>1. IsAsListed(ini.main[i], found.boot[Name(ini.main[i])])
    BY <1>3, <1>11, <1>17 DEF ListedOK
  <2>2. found'.boot = found.boot
    BY <1>9
  <2> QED
    BY <1>1, <1>2, <2>1, <2>2, ListedSame DEF Name
<1>18. ASSUME Strict, NEW i \in PassedFiles', ~ini.files[i].bypassed
       PROVE  AcceptsFile(ini.files[i], found.files[ini.files[i].name])'
  <2>1. AcceptsFile(ini.files[i], b[ini.files[i].name])
    BY <1>16, <1>18
  <2>2. found'.files = b
    BY <1>9
  <2> QED
    BY <1>2, <2>1, <2>2 DEF AcceptsFile
<1>19. ListedOK'
  BY <1>2, <1>13, <1>17, <1>18 DEF ListedOK, Name
<1> QED
  BY <1>12, <1>13, <1>14, <1>15, <1>19 DEF SInv

LEMMA FindFileStep ==
    ASSUME SInv, FindFile
    PROVE  SInv'
<1>l. PICK line : line = Lines("files")[at]
  OBVIOUS
<1> DEFINE copies == FirstOf(FileTiers(line))
<1>1. /\ AtLine("files") /\ stage = "files" /\ InStage(stage) /\ Line = line
      /\ UNCHANGED <<given, donor, active, caller, built>>
  BY <1>l DEF FindFile, AtLine, InStage, Line
<1>2. TypeOK /\ GivenOK /\ StageOK /\ FoundOK /\ ListedOK /\ PoolOK
  BY DEF SInv
<1>3. /\ Lines("files") = ini.files /\ Len(ini.files) \in Nat /\ DOMAIN ini.files = 1..Len(ini.files)
      /\ \A i \in DOMAIN ini.files : ini.files[i] \in FileLine(AllNames)
  BY <1>2, LinesFacts
<1>4. at \in 1..Len(ini.files) /\ line = ini.files[at]
  <2>1. at \in 1..Len(ini.files) + 1 /\ at <= Len(ini.files)
    BY <1>1, <1>2, <1>3 DEF TypeOK, After, AtLine
  <2> QED
    BY <1>l, <1>3, <2>1
<1>5. IsListed(line.name)
  BY <1>3, <1>4 DEF IsListed
<1>6. copies \subseteq GoodData(line)
  BY <1>2, FileTiersFacts DEF PoolOK
<1>7. \/ line.bypassed /\ Advance /\ UNCHANGED <<found, pool>>
      \/ copies = {} /\ Fail
      \/ /\ ~line.bypassed /\ Advance /\ UNCHANGED pool
         /\ \E c \in copies : found' = [found EXCEPT !.files = Put(@, line.name, c)]
  <2>1. LET seen == FirstOf(FileTiers(Line))
        IN  IF Line.bypassed THEN Advance /\ UNCHANGED <<found, pool>>
            ELSE IF seen = {} THEN Fail
            ELSE /\ Advance
                 /\ \E c \in seen : found' = [found EXCEPT !.files = Put(@, Line.name, c)]
                 /\ UNCHANGED pool
    BY DEF FindFile
  <2> QED
    BY <1>1, <2>1
<1> HIDE DEF copies
<1>8. CASE line.bypassed /\ Advance /\ UNCHANGED <<found, pool>>
  <2>1. stage' = "files" /\ at' = at + 1 /\ UNCHANGED <<error, patch>>
    BY <1>1, <1>8 DEF Advance
  <2>2. PassedFiles' = PassedFiles \cup {at} /\ PassedBoot' = PassedBoot
    <3>1. PassedFiles' = PassedFiles \cup {at}
      BY <1>1, <1>4, <2>1, OneMoreLine
    <3> QED
      BY <1>1, <1>2, <2>1, <3>1, GivenSame DEF PassedBoot, Passed
  <2>3. \A i \in PassedFiles' : i \in PassedFiles \/ ini.files[i].bypassed
    BY <1>4, <1>8, <2>2
  <2>4. Lines(stage)' = ini.files
    BY <1>1, <2>1 DEF Lines, given
  <2>5. TypeOK'
    BY <1>1, <1>2, <1>3, <1>4, <1>8, <2>1, <2>4 DEF TypeOK, After
  <2>6. StageOK'
    BY <1>1, <1>2, <2>1 DEF StageOK
  <2>7. /\ found' = [boot |-> found'.boot, security |-> found'.security,
                     payloads |-> found'.payloads, files |-> found'.files]
        /\ \A n \in DOMAIN found'.security : n # "kv" => found'.security[n] \in Data
    BY <1>2, <1>8 DEF FoundOK
  <2> QED
    BY <1>1, <1>8, <2>1, <2>2, <2>3, <2>5, <2>6, <2>7, QuietKeeps
<1>9. CASE copies = {} /\ Fail
  <2>1. FileCopies(line) = {}
    BY <1>1, <1>2, <1>5, <1>9, NoFileCopies DEF copies
  <2>2. error' = <<"files", at>> /\ ini' = ini
    BY <1>1, <1>9 DEF Fail, given
  <2>3. error'[1] = "files" /\ error'[2] = at /\ ini'.files[error'[2]] = line
    BY <1>4, <2>2
  <2>4. FileCopies(line)' = {}
    BY <1>1, <2>1, SourceSame
  <2>5. FileCopies(ini.files[error[2]])' = {}
    BY <2>3, <2>4 DEF FileCopies
  <2>6. FailsOnlyForMissing'
    BY <2>3, <2>5 DEF FailsOnlyForMissing
  <2> QED
    BY <1>1, <1>9, <2>6, FailKeeps
<1>10. ASSUME ~line.bypassed, Advance, UNCHANGED pool, NEW c \in copies,
              found' = [found EXCEPT !.files = Put(@, line.name, c)]
       PROVE  SInv'
  BY <1>1, <1>l, <1>6, <1>10, FileTaken
<1> QED
  BY <1>7, <1>8, <1>9, <1>10

-----------------------------------------------------------------------------
(* Applying what was found. *)

LEMMA LinesOfFacts ==
    ASSUME GivenOK, NEW slot
    PROVE  /\ LinesOf(slot) \subseteq DOMAIN ini.main
           /\ LinesOf(slot) # {} => \E i \in LinesOf(slot) :
                 /\ \A j \in LinesOf(slot) : j <= i
                 /\ Assigned(slot) = found.boot[Name(ini.main[i])]
<1>1. DOMAIN ini.main = 1..Len(ini.main) /\ Len(ini.main) \in Nat
  BY LinesFacts
<1>2. LinesOf(slot) \subseteq DOMAIN ini.main
  BY DEF LinesOf
<1>3. ASSUME LinesOf(slot) # {}
      PROVE  \E i \in LinesOf(slot) : /\ \A j \in LinesOf(slot) : j <= i
                                      /\ Assigned(slot) = found.boot[Name(ini.main[i])]
  <2>l. PICK lines : lines = LinesOf(slot)
    OBVIOUS
  <2>1. \E i \in lines : \A j \in lines : j <= i
    BY <1>1, <1>2, <1>3, <2>l, LastFact
  <2> DEFINE last == CHOOSE i \in lines : \A j \in lines : j <= i
  <2>2. last \in lines /\ \A j \in lines : j <= last
    BY <2>1
  <2>3. Assigned(slot) = found.boot[Name(ini.main[last])]
    BY <1>3, <2>l DEF Assigned
  <2> QED
    BY <2>2, <2>3, <2>l
<1> QED
  BY <1>2, <1>3

LEMMA AssignedType ==
    ASSUME SInv, stage = "end", NEW slot
    PROVE  Assigned(slot) \in Section \cup {NoSection}
           /\ (LinesOf(slot) # {} => Assigned(slot) \in Section)
<1>1. TypeOK /\ GivenOK /\ FoundOK
  BY DEF SInv
<1>2. CASE LinesOf(slot) = {}
  BY <1>2 DEF Assigned
<1>3. CASE LinesOf(slot) # {}
  <2>1. PICK i \in LinesOf(slot) : Assigned(slot) = found.boot[Name(ini.main[i])]
    BY <1>1, <1>3, LinesOfFacts
  <2>2. i \in PassedBoot
    BY <1>1, LinesOfFacts, LinesFacts DEF PassedBoot, Passed
  <2>3. Name(ini.main[i]) \in DOMAIN found.boot
    BY <1>1, <2>2 DEF FoundOK
  <2> QED
    BY <1>1, <2>1, <2>3 DEF TypeOK
<1> QED
  BY <1>2, <1>3

LEMMA AppliedFacts ==
    ASSUME SInv, stage = "end"
    PROVE  /\ Applied = [boot |-> Applied.boot, kv |-> Applied.kv, fcrt |-> Applied.fcrt,
                         smc |-> Applied.smc, smcpatched |-> FALSE, onef |-> Onef, files |-> {}]
           /\ Applied.boot = [s \in Slots |-> IF Onef /\ s \in {"cf0", "cf1", "cg0", "cg1"}
                                              THEN NoSection ELSE Assigned(s)]
           /\ Applied \in Nand /\ Onef \in BOOLEAN
<1> DEFINE b == [s \in Slots |-> IF Onef /\ s \in {"cf0", "cf1", "cg0", "cg1"}
                                 THEN NoSection ELSE Assigned(s)]
           k == IF "kv" \in DOMAIN found.security THEN found.security["kv"] ELSE Empty
           t == {found.security[n] : n \in DOMAIN found.security \cap {"fcrt"}}
           m == IF "smc" \in DOMAIN found.security THEN found.security["smc"] ELSE Empty
<1>1. Applied = [boot |-> b, kv |-> k, fcrt |-> t, smc |-> m, smcpatched |-> FALSE,
                 onef |-> Onef, files |-> {}]
  <2>1. Applied = [Blank EXCEPT !.boot = b, !.kv = k, !.fcrt = t, !.smc = m, !.onef = Onef]
    BY DEF Applied
  <2> HIDE DEF b, k, t, m
  <2> QED
    BY <2>1 DEF Blank
<1>2. Onef \in BOOLEAN
  BY DEF Onef
<1>3. b \in [Slots -> Section \cup {NoSection}]
  BY AssignedType
<1>4. k \in Data \cup {Empty} /\ m \in Data \cup {Empty}
  BY DEF SInv, TypeOK
<1>5. t \subseteq Data
  BY DEF SInv, FoundOK
<1> HIDE DEF b, k, t, m
<1>6. Applied.boot = b /\ Applied.kv = k /\ Applied.fcrt = t /\ Applied.smc = m
  BY <1>1
<1>7. Applied \in Nand
  BY <1>1, <1>2, <1>3, <1>4, <1>5 DEF Nand
<1>8. Applied = [boot |-> Applied.boot, kv |-> Applied.kv, fcrt |-> Applied.fcrt,
                 smc |-> Applied.smc, smcpatched |-> FALSE, onef |-> Onef, files |-> {}]
  BY <1>1, <1>6
<1> QED
  BY <1>2, <1>6, <1>7, <1>8 DEF b

\* The step that ends a search: nothing is being searched any more.
LEMMA EndKeeps ==
    ASSUME SInv, UNCHANGED <<given, donor, caller, at, found, pool>>,
           active' \in Nand \cup {NoNand}, built' \in Seq(Nand), stage' \in {"done", "failed"},
           stage' = "failed" => error' = <<"apply">>,
           Strict => ImageAsListed'
    PROVE  SInv'
<1>1. TypeOK'
  BY DEF SInv, TypeOK, After
<1>2. GivenOK' /\ StageOK' /\ (Strict' <=> Strict)
  BY GivenSame DEF SInv, StageOK
<1>3. PassedBoot' = {} /\ PassedFiles' = {}
  BY DEF PassedBoot, PassedFiles, Passed
<1>4. FoundOK' /\ PoolOK' /\ ListedOK'
  BY <1>2, <1>3 DEF SInv, FoundOK, PoolOK, ListedOK
<1>5. FailsOnlyForMissing'
  BY DEF FailsOnlyForMissing
<1> QED
  BY <1>1, <1>2, <1>4, <1>5 DEF SInv

LEMMA EndLoadStep ==
    ASSUME SInv, EndLoad
    PROVE  SInv'
<1>1. /\ UNCHANGED <<given, donor, caller, at, found, pool, active, built>>
      /\ stage' = "done" /\ caller' = "load"
  BY DEF EndLoad
<1>2. active' \in Nand \cup {NoNand} /\ built' \in Seq(Nand)
  BY <1>1 DEF SInv, TypeOK
<1>3. ImageAsListed'
  BY <1>1 DEF ImageAsListed
<1> QED
  BY <1>1, <1>2, <1>3, EndKeeps

LEMMA EndIniStep ==
    ASSUME SInv, EndIni
    PROVE  SInv'
<1>1. /\ UNCHANGED <<given, donor, caller, at, found, pool, built>> /\ stage = "end"
      /\ stage' = "done" /\ caller' = "ini" /\ active' \in {Applied, NoNand}
  BY DEF EndIni
<1>2. active' \in Nand \cup {NoNand} /\ built' \in Seq(Nand)
  BY <1>1, AppliedFacts DEF SInv, TypeOK
<1>3. ImageAsListed'
  BY <1>1 DEF ImageAsListed
<1> QED
  BY <1>1, <1>2, <1>3, EndKeeps

LEMMA ReplaceDumpStep ==
    ASSUME SInv, ReplaceDump
    PROVE  SInv'
<1>1. /\ UNCHANGED <<given, active, caller, at, error, patch, found, pool, built>>
      /\ stage' = "idle" /\ donor' \in Dumps
  BY DEF ReplaceDump
<1>2. donor' \in Nand /\ donor' # NoNand
  BY <1>1, SearchAssumption DEF IsDump
<1>3. TypeOK'
  BY <1>1, <1>2 DEF SInv, TypeOK, After
<1>4. GivenOK' /\ StageOK'
  BY <1>1, <1>2, GivenSame DEF SInv, StageOK
<1>5. PassedBoot' = {} /\ PassedFiles' = {}
  BY <1>1 DEF PassedBoot, PassedFiles, Passed
<1>6. FoundOK' /\ PoolOK' /\ ListedOK'
  BY <1>1, <1>5 DEF SInv, FoundOK, PoolOK, ListedOK, ImageAsListed
<1>7. FailsOnlyForMissing'
  BY <1>1 DEF FailsOnlyForMissing
<1> QED
  BY <1>3, <1>4, <1>6, <1>7 DEF SInv

-----------------------------------------------------------------------------
(* Build. *)

LEMMA FirstInFacts ==
    ASSUME NEW values, DOMAIN values \subseteq Nat, NEW good, NEW default
    PROVE  FirstIn(values, good, default) \in good \cup {default}
<1>h. PICK hits : hits = {i \in DOMAIN values : values[i] \in good}
  OBVIOUS
<1>1. FirstIn(values, good, default) = IF hits = {} THEN default ELSE values[First(hits)]
  BY <1>h DEF FirstIn
<1>2. hits # {} => First(hits) \in hits
  <2>1. hits \subseteq Nat
    BY <1>h
  <2> QED
    BY <2>1, FirstFact
<1> QED
  BY <1>1, <1>2, <1>h

LEMMA ReversePair ==
    ASSUME NEW p \in Bytes \X Bytes
    PROVE  OnDisk(p) \in Bytes \X Bytes
<1>1. PICK a \in Bytes, b \in Bytes : p = <<a, b>>
  OBVIOUS
<1>2. Reverse(p) = [i \in 1..2 |-> IF i = 1 THEN b ELSE a]
  <2>1. Len(p) = 2 /\ p[1] = a /\ p[2] = b
    BY <1>1
  <2>2. Reverse(p) = [i \in 1..2 |-> p[(2 - i) + 1]]
    BY <2>1 DEF Reverse
  <2>3. \A i \in 1..2 : p[(2 - i) + 1] = IF i = 1 THEN b ELSE a
    BY <2>1
  <2> QED
    BY <2>2, <2>3
<1>3. <<b, a>> = [i \in 1..2 |-> IF i = 1 THEN b ELSE a]
  OBVIOUS
<1> QED
  BY <1>2, <1>3 DEF OnDisk

\* Pairing data and lockdown values to be written are never blank.
LEMMA DonorTypes ==
    /\ DonorPd \in (Bytes \X Bytes) \ {<<0, 0>>}
    /\ CbLdv \in Nat \ {0} /\ CfLdv \in Nat \ {0}
<1>1. DonorPd \in SomePd \cup {<<0, 1>>}
  <2>1. DOMAIN <<Pd(DonorCb), Pd(donor.boot["cf0"])>> \subseteq Nat
    OBVIOUS
  <2> QED
    BY <2>1, FirstInFacts DEF DonorPd
<1>2. CbLdv \in (Nat \ {0}) \cup {1}
  <2>1. DOMAIN <<CbLdvOf(DonorCb)>> \subseteq Nat
    OBVIOUS
  <2> QED
    BY <2>1, FirstInFacts DEF CbLdv
<1>3. CfLdv \in (Nat \ {0}) \cup {CbLdv}
  <2>1. DOMAIN <<CfLdvOf(donor.boot["cf0"]), CfLdvOf(donor.boot["cf1"])>> \subseteq Nat
    OBVIOUS
  <2> QED
    BY <2>1, FirstInFacts DEF CfLdv
<1>4. <<0, 1>> \in Bytes \X Bytes /\ <<0, 1>> # <<0, 0>>
  BY DEF Bytes
<1> QED
  BY <1>1, <1>2, <1>3, <1>4 DEF SomePd

\* The fields that sync_options_to_nand takes from an image.
LEMMA OwnTypes ==
    ASSUME options \in Options, NEW boot
    PROVE  /\ OwnPd(boot) \in Bytes \X Bytes
           /\ OwnCbLdv(boot) \in Nat /\ OwnCfLdv(boot) \in Nat
<1>1. OwnPd(boot) \in SomePd \cup {<<0, 1>>}
  <2> PICK v : v = <<Pd(IF FirstCb(boot) # NoSection THEN FirstCb(boot) ELSE boot["cf0"])>>
    OBVIOUS
  <2>1. DOMAIN v \subseteq Nat
    OBVIOUS
  <2> QED
    BY <2>1, FirstInFacts DEF OwnPd
<1>2. OwnCbLdv(boot) \in (Nat \ {0}) \cup {1}
  <2>1. DOMAIN <<CbLdvOf(FirstCb(boot))>> \subseteq Nat
    OBVIOUS
  <2> QED
    BY <2>1, FirstInFacts DEF OwnCbLdv
<1>3. OwnCfLdv(boot) \in Nat
  <2>1. options.cfldv \subseteq Nat
    BY DEF Options
  <2>2. FirstIn(<<CfLdvOf(boot["cf0"])>>, Nat \ {0}, 1) \in (Nat \ {0}) \cup {1}
    <3>1. DOMAIN <<CfLdvOf(boot["cf0"])>> \subseteq Nat
      OBVIOUS
    <3> QED
      BY <3>1, FirstInFacts
  <2> QED
    BY <2>1, <2>2 DEF OwnCfLdv
<1>4. <<0, 1>> \in Bytes \X Bytes
  BY DEF Bytes
<1> QED
  BY <1>1, <1>2, <1>3, <1>4 DEF SomePd

\* The first of some values that is good.
LEMMA FirstInAt ==
    ASSUME NEW values, DOMAIN values \subseteq Nat, NEW good, NEW default, NEW k \in DOMAIN values,
           values[k] \in good, \A j \in DOMAIN values : j < k => values[j] \notin good
    PROVE  FirstIn(values, good, default) = values[k]
<1>h. PICK hits : hits = {i \in DOMAIN values : values[i] \in good}
  OBVIOUS
<1>1. k \in hits /\ hits \subseteq Nat
  BY <1>h
<1>2. FirstIn(values, good, default) = values[First(hits)]
  BY <1>1, <1>h DEF FirstIn
<1>3. First(hits) \in hits /\ First(hits) <= k
  BY <1>1, FirstFact
<1>4. First(hits) = k
  <2>1. First(hits) \in Nat /\ k \in Nat /\ values[First(hits)] \in good
    BY <1>1, <1>3, <1>h
  <2> QED
    BY <1>3, <1>h, <2>1
<1> QED
  BY <1>2, <1>4

LEMMA FirstInOne ==
    ASSUME NEW v, NEW good, NEW default
    PROVE  FirstIn(<<v>>, good, default) = IF v \in good THEN v ELSE default
<1> PICK values : values = <<v>>
  OBVIOUS
<1>1. DOMAIN values = {1} /\ values[1] = v
  OBVIOUS
<1>2. CASE v \in good
  <2>1. 1 \in DOMAIN values /\ DOMAIN values \subseteq Nat /\ values[1] \in good
        /\ \A j \in DOMAIN values : j < 1 => values[j] \notin good
    BY <1>1, <1>2
  <2>2. FirstIn(values, good, default) = values[1]
    BY <2>1, FirstInAt
  <2> QED
    BY <1>1, <1>2, <2>2
<1>3. CASE v \notin good
  BY <1>1, <1>3 DEF FirstIn
<1> QED
  BY <1>2, <1>3

LEMMA FirstInTwo ==
    ASSUME NEW v, NEW w, NEW good, NEW default
    PROVE  FirstIn(<<v, w>>, good, default) =
              IF v \in good THEN v ELSE IF w \in good THEN w ELSE default
<1> PICK values : values = <<v, w>>
  OBVIOUS
<1>1. DOMAIN values = {1, 2} /\ values[1] = v /\ values[2] = w
  OBVIOUS
<1>2. CASE v \in good
  <2>1. 1 \in DOMAIN values /\ DOMAIN values \subseteq Nat /\ values[1] \in good
        /\ \A j \in DOMAIN values : j < 1 => values[j] \notin good
    BY <1>1, <1>2
  <2>2. FirstIn(values, good, default) = values[1]
    BY <2>1, FirstInAt
  <2> QED
    BY <1>1, <1>2, <2>2
<1>3. CASE v \notin good /\ w \in good
  <2>1. 2 \in DOMAIN values /\ DOMAIN values \subseteq Nat /\ values[2] \in good
        /\ \A j \in DOMAIN values : j < 2 => values[j] \notin good
    BY <1>1, <1>3
  <2>2. FirstIn(values, good, default) = values[2]
    BY <2>1, FirstInAt
  <2> QED
    BY <1>1, <1>3, <2>2
<1>4. CASE v \notin good /\ w \notin good
  BY <1>1, <1>4 DEF FirstIn
<1> QED
  BY <1>2, <1>3, <1>4

LEMMA TwiceReversed ==
    ASSUME NEW p \in Bytes \X Bytes
    PROVE  Reverse(OnDisk(p)) = p
<1>1. PICK a \in Bytes, b \in Bytes : p = <<a, b>>
  OBVIOUS
<1> PICK q, r : q = OnDisk(p) /\ r = Reverse(q)
  OBVIOUS
<1>2. Len(q) = 2 /\ q[1] = b /\ q[2] = a
  <2>1. Len(p) = 2 /\ p[1] = a /\ p[2] = b
    BY <1>1
  <2>2. q = [i \in 1..2 |-> p[(2 - i) + 1]]
    BY <2>1 DEF Reverse, OnDisk
  <2>3. q[1] = b /\ q[2] = a
    BY <2>1, <2>2
  <2>4. q \in Bytes \X Bytes
    BY ReversePair
  <2> QED
    BY <2>3, <2>4
<1>3. r = [i \in 1..2 |-> q[(2 - i) + 1]]
  BY <1>2 DEF Reverse
<1>4. \A i \in 1..2 : r[i] = p[i]
  BY <1>1, <1>2, <1>3
<1>5. p = [i \in 1..2 |-> p[i]]
  BY <1>1
<1> QED
  BY <1>3, <1>4, <1>5

\* A section that differs at most in its per-console fields.
SameCode(a, b) == /\ a.type = b.type /\ a.ver = b.ver
                  /\ a.sound = b.sound /\ a.patched = b.patched

\* A section with other per-console fields.
Repaired(section, pd, ldv) == [section EXCEPT !.pd = pd, !.ldv = ldv]

LEMMA RepairedFacts ==
    ASSUME NEW sec \in Section, NEW pd \in Bytes \X Bytes, NEW v, v \in Nat
    PROVE  /\ Repaired(sec, pd, v) \in Section
           /\ SameCode(Repaired(sec, pd, v), sec)
           /\ Repaired(sec, pd, v).pd = pd /\ Repaired(sec, pd, v).ldv = v
<1> PICK p : p = Repaired(sec, pd, v)
  OBVIOUS
<1>1. p = [sec EXCEPT !.pd = pd, !.ldv = v]
  BY DEF Repaired
<1>2. p = [type |-> sec.type, ver |-> sec.ver, sound |-> sec.sound, patched |-> sec.patched,
           pd |-> pd, ldv |-> v]
  BY <1>1 DEF Section
<1>3. /\ sec.type \in {"CB", "SC", "CD", "CE", "CF", "CG"} /\ sec.ver \in Versions
      /\ sec.sound \in BOOLEAN /\ sec.patched \in BOOLEAN
  BY DEF Section
<1>4. p \in Section
  BY <1>2, <1>3 DEF Section
<1>5. SameCode(p, sec) /\ p.pd = pd /\ p.ldv = v
  BY <1>2 DEF SameCode
<1> QED
  BY <1>4, <1>5

\* PerBox changes the per-console fields and nothing else: it sets those of all CBs
\* and CFs.
LEMMA PerBoxFacts ==
    ASSUME NEW boot \in [Slots -> Section \cup {NoSection}],
           NEW pd \in Bytes \X Bytes, NEW cbldv \in Nat, NEW cfldv \in Nat,
           NEW p, p = PerBox(boot, pd, cbldv, cfldv)
    PROVE  /\ p \in [Slots -> Section \cup {NoSection}]
           /\ \A s \in Slots : boot[s] = NoSection => p[s] = NoSection
           /\ \A s \in Slots : boot[s] \in Section => p[s] \in Section /\ SameCode(p[s], boot[s])
           /\ \A s \in CbSlots \cup CfSlots : boot[s] \in Section =>
                 p[s].pd = OnDisk(pd) /\ p[s].ldv = IF s \in CfSlots THEN cfldv ELSE cbldv
<1>1. PICK disk \in Bytes \X Bytes : disk = OnDisk(pd)
  BY ReversePair
<1> DEFINE v(s)  == IF s \in CfSlots THEN cfldv ELSE cbldv
           At(s) == IF boot[s] = NoSection \/ s \notin CbSlots \cup CfSlots THEN boot[s]
                    ELSE [boot[s] EXCEPT !.pd = disk, !.ldv = v(s)]
<1>2. p = [s \in Slots |-> At(s)]
  BY <1>1 DEF PerBox
<1>3. \A s \in Slots : boot[s] = NoSection => At(s) = NoSection
  OBVIOUS
<1>4. ASSUME NEW s \in Slots, boot[s] \in Section
      PROVE  /\ At(s) \in Section /\ SameCode(At(s), boot[s])
             /\ s \in CbSlots \cup CfSlots => At(s).pd = disk /\ At(s).ldv = v(s)
  <2>1. v(s) \in Nat
    OBVIOUS
  <2>2. CASE s \notin CbSlots \cup CfSlots
    <3>1. At(s) = boot[s]
      BY <2>2
    <3> HIDE DEF At, v
    <3> QED
      BY <1>4, <2>2, <3>1 DEF SameCode
  <2>3. CASE s \in CbSlots \cup CfSlots
    <3>1. boot[s] # NoSection
      BY <1>4, SearchAssumption
    <3>2. At(s) = Repaired(boot[s], disk, v(s))
      BY <2>3, <3>1 DEF Repaired
    <3> HIDE DEF At, v
    <3>3. ASSUME NEW u, u \in Nat, NEW sec \in Section
          PROVE  /\ Repaired(sec, disk, u) \in Section /\ SameCode(Repaired(sec, disk, u), sec)
                 /\ Repaired(sec, disk, u).pd = disk /\ Repaired(sec, disk, u).ldv = u
      BY <3>3, RepairedFacts
    <3> QED
      BY <1>4, <2>1, <2>3, <3>2, <3>3
  <2> QED
    BY <2>2, <2>3
<1> HIDE DEF At
<1>5. \A s \in Slots : At(s) \in Section \cup {NoSection}
  BY <1>3, <1>4
<1>6. CbSlots \cup CfSlots \subseteq Slots
  BY DEF CbSlots, CfSlots, Slots
<1> QED
  BY <1>1, <1>2, <1>3, <1>4, <1>5, <1>6

\* Neither pass of the pairing touches the code of a section.
LEMMA PairedFacts ==
    ASSUME options \in Options, NEW boot \in [Slots -> Section \cup {NoSection}],
           NEW p, p = Paired(boot), NEW q, q = Synced(p)
    PROVE  /\ p \in [Slots -> Section \cup {NoSection}]
           /\ q \in [Slots -> Section \cup {NoSection}]
           /\ \A s \in Slots : boot[s] = NoSection => p[s] = NoSection /\ q[s] = NoSection
           /\ \A s \in Slots : boot[s] \in Section =>
                 p[s] \in Section /\ q[s] \in Section /\ SameCode(q[s], boot[s])
<1>1. DonorPd \in Bytes \X Bytes /\ CbLdv \in Nat /\ CfLdv \in Nat
  BY DonorTypes
<1>2. /\ p \in [Slots -> Section \cup {NoSection}]
      /\ \A s \in Slots : boot[s] = NoSection => p[s] = NoSection
      /\ \A s \in Slots : boot[s] \in Section => p[s] \in Section /\ SameCode(p[s], boot[s])
  BY <1>1, PerBoxFacts DEF Paired
<1>3. OwnPd(p) \in Bytes \X Bytes /\ OwnCbLdv(p) \in Nat /\ OwnCfLdv(p) \in Nat
  BY OwnTypes
<1>4. /\ q \in [Slots -> Section \cup {NoSection}]
      /\ \A s \in Slots : p[s] = NoSection => q[s] = NoSection
      /\ \A s \in Slots : p[s] \in Section => q[s] \in Section /\ SameCode(q[s], p[s])
  BY <1>2, <1>3, PerBoxFacts DEF Synced
<1> QED
  BY <1>2, <1>4 DEF SameCode

LEMMA MergedFacts ==
    ASSUME SInv, donor \in Nand
    PROVE  /\ DOMAIN merged_flashfs_assets \subseteq AllNames
           /\ \A n \in DOMAIN merged_flashfs_assets : merged_flashfs_assets[n] \in Data
           /\ \A n \in DOMAIN found.files : n \in DOMAIN merged_flashfs_assets
                                            /\ merged_flashfs_assets[n] = found.files[n]
<1>f. PICK f, e, p : f = found.files /\ e = Entry("fcrt", NandFcrt(donor)) /\ p = Packed
  OBVIOUS
<1>1. DOMAIN f \subseteq AllNames /\ \A n \in DOMAIN f : f[n] \in Data
  BY <1>f DEF SInv, TypeOK, FoundOK
<1>2. DOMAIN e \subseteq AllNames /\ \A n \in DOMAIN e : e[n] \in Data
  <2>1. NandFcrt(donor) \subseteq Data
    BY FcrtIsData
  <2>2. DOMAIN e \subseteq {"fcrt"} /\ \A n \in DOMAIN e : NandFcrt(donor) # {} /\ e[n] \in NandFcrt(donor)
    BY <1>f DEF Entry
  <2> QED
    BY <2>1, <2>2, SearchAssumption DEF AllNames
<1>3. DOMAIN p \subseteq AllNames /\ \A n \in DOMAIN p : p[n] \in Data
  <2>1. \A n \in DOMAIN p : n \in DOMAIN found.security /\ n \in SecurityNames /\ p[n] = found.security[n]
    BY <1>f DEF Packed
  <2>2. \A n \in DOMAIN found.security : n # "kv" => found.security[n] \in Data
    BY DEF SInv, FoundOK
  <2> QED
    BY <2>1, <2>2, SearchAssumption DEF AllNames
<1>h. PICK h : h = OrInsert(f, e)
  OBVIOUS
<1>4. /\ DOMAIN h = DOMAIN f \cup DOMAIN e /\ \A k \in DOMAIN f : h[k] = f[k]
      /\ \A k \in DOMAIN e : k \notin DOMAIN f => h[k] = e[k]
  BY <1>h DEF OrInsert
<1>m. PICK m : m = OrInsert(h, p)
  OBVIOUS
<1>5. /\ DOMAIN m = DOMAIN h \cup DOMAIN p /\ \A k \in DOMAIN h : m[k] = h[k]
      /\ \A k \in DOMAIN p : k \notin DOMAIN h => m[k] = p[k]
  BY <1>m DEF OrInsert
<1>6. merged_flashfs_assets = m
  BY <1>f, <1>h, <1>m DEF merged_flashfs_assets
<1> QED
  BY <1>f, <1>1, <1>2, <1>3, <1>4, <1>5, <1>6

\* The files of an image that is built.
FreshFiles ==
    {[name |-> n, suffix |-> 0, deleted |-> FALSE, data |-> merged_flashfs_assets[n]]
     : n \in DOMAIN merged_flashfs_assets \cap allow}

\* A NAND with other sections, keyvault, SMC and files.
NandWith(nand, boot, kv, smcpatched, files) ==
    [nand EXCEPT !.boot = boot, !.kv = kv, !.smcpatched = smcpatched, !.files = files]

LEMMA NandWithFacts ==
    ASSUME NEW boot, NEW kv, NEW fcrt, NEW smc, NEW sp, NEW onef, NEW files,
           NEW b, NEW k, NEW x, NEW f, NEW a,
           a = [boot |-> boot, kv |-> kv, fcrt |-> fcrt, smc |-> smc, smcpatched |-> sp,
                onef |-> onef, files |-> files]
    PROVE  NandWith(a, b, k, x, f) = [boot |-> b, kv |-> k, fcrt |-> fcrt, smc |-> smc,
                                      smcpatched |-> x, onef |-> onef, files |-> f]
<1> PICK z : z = NandWith(a, b, k, x, f)
  OBVIOUS
<1>1. z = [a EXCEPT !.boot = b, !.kv = k, !.smcpatched = x, !.files = f]
  BY DEF NandWith
<1>2. z = [boot |-> b, kv |-> k, fcrt |-> fcrt, smc |-> smc, smcpatched |-> x,
           onef |-> onef, files |-> f]
  BY <1>1
<1> QED
  BY <1>2

LEMMA FreshFacts ==
    ASSUME SInv, stage = "end", donor \in Nand
    PROVE  /\ fresh_nand \in Nand
           /\ fresh_nand.boot = Synced(Paired(Applied.boot)) /\ fresh_nand.onef = Onef
           /\ fresh_nand.files = FreshFiles
<1>1. /\ Applied = [boot |-> Applied.boot, kv |-> Applied.kv, fcrt |-> Applied.fcrt,
                    smc |-> Applied.smc, smcpatched |-> FALSE, onef |-> Onef, files |-> {}]
      /\ Applied \in Nand /\ Onef \in BOOLEAN
  BY AppliedFacts
<1>2. /\ Applied.boot \in [Slots -> Section \cup {NoSection}]
      /\ Applied.kv \in Data \cup {Empty} /\ Applied.smc \in Data \cup {Empty}
      /\ Applied.fcrt \in SUBSET Data /\ donor.kv \in Data \cup {Empty}
  BY <1>1 DEF Nand
<1> DEFINE b == Synced(Paired(Applied.boot))
           k == IF donor.kv # Empty THEN donor.kv ELSE Applied.kv
           x == ~Onef /\ ini.buildtype \in {"glitch1", "glitch2"} /\ world.smcpatch
<1>3. fresh_nand = NandWith(Applied, b, k, x, FreshFiles)
  BY DEF fresh_nand, FreshFiles, NandWith
<1>4. fresh_nand = [boot |-> b, kv |-> k, fcrt |-> Applied.fcrt, smc |-> Applied.smc,
                    smcpatched |-> x, onef |-> Onef, files |-> FreshFiles]
  <2> HIDE DEF b, k, x
  <2> QED
    BY <1>1, <1>3, NandWithFacts
<1>5. b \in [Slots -> Section \cup {NoSection}]
  BY <1>2, PairedFacts DEF SInv, GivenOK
<1>6. FreshFiles \subseteq [name : AllNames, suffix : 0 .. 2, deleted : BOOLEAN, data : Data]
  <2>1. /\ DOMAIN merged_flashfs_assets \subseteq AllNames
        /\ \A n \in DOMAIN merged_flashfs_assets : merged_flashfs_assets[n] \in Data
    BY MergedFacts
  <2> SUFFICES ASSUME NEW n \in DOMAIN merged_flashfs_assets
               PROVE  [name |-> n, suffix |-> 0, deleted |-> FALSE, data |-> merged_flashfs_assets[n]]
                      \in [name : AllNames, suffix : 0 .. 2, deleted : BOOLEAN, data : Data]
    BY DEF FreshFiles
  <2> QED
    BY <2>1
<1>7. k \in Data \cup {Empty} /\ x \in BOOLEAN
  BY <1>2
<1> HIDE DEF b, k, x
<1>8. fresh_nand \in Nand
  BY <1>1, <1>2, <1>4, <1>5, <1>6, <1>7 DEF Nand
<1> QED
  BY <1>4, <1>8 DEF b

\* The sections of an image are those the lines of its slots found.
LEMMA FreshBoot ==
    ASSUME SInv, stage = "end", donor \in Nand, Strict, NEW s \in Slots
    PROVE  IF LinesOf(s) = {} \/ (Onef /\ s \in {"cf0", "cf1", "cg0", "cg1"})
           THEN fresh_nand.boot[s] = NoSection
           ELSE \E i \in LinesOf(s) : /\ \A j \in LinesOf(s) : j <= i
                                      /\ fresh_nand.boot[s] # NoSection
                                      /\ IsAsListed(ini.main[i], fresh_nand.boot[s])
<1> PICK a, b : a = Applied.boot /\ b = fresh_nand.boot
  OBVIOUS
<1>1. /\ a \in [Slots -> Section \cup {NoSection}]
      /\ a[s] = IF Onef /\ s \in {"cf0", "cf1", "cg0", "cg1"} THEN NoSection ELSE Assigned(s)
  BY AppliedFacts DEF Nand
<1>2. /\ a[s] = NoSection => b[s] = NoSection
      /\ a[s] \in Section =>
            /\ b[s] \in Section
            /\ b[s].type = a[s].type /\ b[s].ver = a[s].ver
            /\ b[s].sound = a[s].sound /\ b[s].patched = a[s].patched
  <2>1. b = Synced(Paired(a))
    BY FreshFacts
  <2>2. options \in Options
    BY DEF SInv, GivenOK
  <2> QED
    BY <1>1, <2>1, <2>2, PairedFacts DEF SameCode
<1>3. CASE LinesOf(s) = {} \/ (Onef /\ s \in {"cf0", "cf1", "cg0", "cg1"})
  BY <1>1, <1>2, <1>3 DEF Assigned
<1>4. CASE LinesOf(s) # {} /\ ~(Onef /\ s \in {"cf0", "cf1", "cg0", "cg1"})
  <2>1. PICK i \in LinesOf(s) : /\ \A j \in LinesOf(s) : j <= i
                                /\ Assigned(s) = found.boot[Name(ini.main[i])]
    BY <1>4, LinesOfFacts DEF SInv
  <2>2. i \in PassedBoot
    BY LinesOfFacts, LinesFacts DEF SInv, PassedBoot, Passed
  <2>3. IsAsListed(ini.main[i], a[s])
    BY <1>1, <1>4, <2>1, <2>2 DEF SInv, ListedOK
  <2>4. a[s] \in Section
    BY <1>1, <1>4, AssignedType
  <2>5. IsAsListed(ini.main[i], b[s]) /\ b[s] # NoSection
    <3>1. /\ b[s] \in Section /\ b[s].type = a[s].type /\ b[s].ver = a[s].ver
          /\ b[s].sound = a[s].sound /\ b[s].patched = a[s].patched
      BY <1>2, <2>4
    <3>2. IsAsListed(ini.main[i], b[s])
      BY <2>3, <3>1 DEF IsAsListed, MatchesName
    <3> QED
      BY <3>1, <3>2, SearchAssumption
  <2> QED
    BY <1>4, <2>1, <2>5
<1> QED
  BY <1>3, <1>4

\* Every listed file is in an image once, with the bytes that were found.
LEMMA FreshFilesListed ==
    ASSUME SInv, stage = "end", donor \in Nand, Strict
    PROVE  /\ \A i \in DOMAIN ini.files : ~ini.files[i].bypassed =>
                Cardinality({f \in fresh_nand.files : /\ f.name = ini.files[i].name
                                                      /\ AcceptsFile(ini.files[i], f.data)}) = 1
           /\ \A f \in fresh_nand.files : IsListed(f.name) \/ f.name \in SecurityNames
<1> DEFINE merged == merged_flashfs_assets
           entry(n) == [name |-> n, suffix |-> 0, deleted |-> FALSE, data |-> merged[n]]
<1>1. fresh_nand.files = {entry(n) : n \in DOMAIN merged \cap allow}
  BY FreshFacts DEF FreshFiles
<1>2. ASSUME NEW i \in DOMAIN ini.files, ~ini.files[i].bypassed
      PROVE  Cardinality({f \in fresh_nand.files : /\ f.name = ini.files[i].name
                                                   /\ AcceptsFile(ini.files[i], f.data)}) = 1
  <2> DEFINE name == ini.files[i].name
             these == {f \in fresh_nand.files : f.name = name /\ AcceptsFile(ini.files[i], f.data)}
  <2>1. i \in PassedFiles
    BY LinesFacts DEF SInv, PassedFiles, Passed
  <2>2. name \in DOMAIN found.files /\ AcceptsFile(ini.files[i], found.files[name])
    BY <1>2, <2>1 DEF SInv, FoundOK, ListedOK
  <2>3. name \in DOMAIN merged /\ merged[name] = found.files[name]
    BY <2>2, MergedFacts
  <2>4. name \in allow
    BY DEF allow
  <2>5. these = {entry(name)}
    <3>1. entry(name) \in fresh_nand.files
      BY <1>1, <2>3, <2>4
    <3>2. entry(name).name = name /\ entry(name).data = merged[name]
      OBVIOUS
    <3>3. entry(name) \in these
      BY <2>2, <2>3, <3>1, <3>2
    <3>4. \A f \in fresh_nand.files : f.name = name => f = entry(name)
      BY <1>1
    <3> QED
      BY <3>3, <3>4
  <2> HIDE DEF entry, these
  <2>6. Cardinality(these) = 1
    BY <2>5, FS_Singleton
  <2> QED
    BY <2>6 DEF these
<1>3. \A f \in fresh_nand.files : f.name \in allow
  BY <1>1
<1> QED
  BY <1>2, <1>3 DEF allow, IsListed

LEMMA EndBuildStep ==
    ASSUME SInv, EndBuild
    PROVE  SInv'
<1>1. /\ UNCHANGED <<given, donor, caller, at, patch, found, pool>> /\ stage = "end"
      /\ caller = "build"
      /\ \/ /\ stage' = "done" /\ active' = fresh_nand /\ built' = Append(built, fresh_nand)
         \/ stage' = "failed" /\ error' = <<"apply">> /\ UNCHANGED <<active, built>>
  BY DEF EndBuild
<1>2. donor \in Nand /\ built \in Seq(Nand) /\ active \in Nand \cup {NoNand}
  BY <1>1 DEF SInv, TypeOK, StageOK
<1>3. CASE stage' = "failed" /\ error' = <<"apply">> /\ UNCHANGED <<active, built>>
  <2>1. ImageAsListed'
    BY <1>3 DEF ImageAsListed
  <2> QED
    BY <1>1, <1>2, <1>3, <2>1, EndKeeps
<1>4. CASE stage' = "done" /\ active' = fresh_nand /\ built' = Append(built, fresh_nand)
  <2> PICK image : image = fresh_nand
    OBVIOUS
  <2>1. image \in Nand /\ image.onef = Onef
    BY <1>1, <1>2, FreshFacts
  <2>2. built' \in Seq(Nand) /\ Last(built') = image
    BY <1>2, <1>4, <2>1 DEF Last
  <2>3. ASSUME Strict PROVE ImageAsListed'
    <3>1. ini' = ini /\ options' = options
      BY <1>1 DEF given
    <3>2. \A line, d : AcceptsFile(line, d)' <=> AcceptsFile(line, d)
      BY <3>1 DEF AcceptsFile
    <3>3. \A line, s : IsAsListed(line, s)' <=> IsAsListed(line, s)
      BY <1>1, ListedSame
    <3>4. \A s : LinesOf(s)' = LinesOf(s)
      BY <3>1 DEF LinesOf, SlotOf, IsUpdate, UpdateSlot
    <3>5. \A n : IsListed(n)' <=> IsListed(n)
      BY <3>1 DEF IsListed
    <3>6. \A s \in Slots :
            IF LinesOf(s) = {} \/ (image.onef /\ s \in {"cf0", "cf1", "cg0", "cg1"})
            THEN image.boot[s] = NoSection
            ELSE \E i \in LinesOf(s) : /\ \A j \in LinesOf(s) : j <= i
                                       /\ image.boot[s] # NoSection
                                       /\ IsAsListed(ini.main[i], image.boot[s])
      BY <1>1, <1>2, <2>1, <2>3, FreshBoot
    <3>7. /\ \A i \in DOMAIN ini.files : ~ini.files[i].bypassed =>
               Cardinality({f \in image.files : /\ f.name = ini.files[i].name
                                                /\ AcceptsFile(ini.files[i], f.data)}) = 1
          /\ \A f \in image.files : IsListed(f.name) \/ f.name \in SecurityNames
      BY <1>1, <1>2, <2>3, FreshFilesListed
    <3> QED
      BY <2>2, <3>1, <3>2, <3>3, <3>4, <3>5, <3>6, <3>7 DEF ImageAsListed
  <2> QED
    BY <1>1, <1>4, <2>1, <2>2, <2>3, EndKeeps
<1> QED
  BY <1>1, <1>3, <1>4

LEMMA StutterStep ==
    ASSUME SInv, UNCHANGED vars
    PROVE  SInv'
<1>1. /\ UNCHANGED <<given, donor, active, caller, stage, at, error, patch, found, pool, built>>
      /\ ini' = ini /\ options' = options /\ world' = world
  BY DEF vars, given, searching
<1>2. TypeOK'
  <2>1. Lines(stage)' = Lines(stage)
    BY <1>1 DEF Lines
  <2> QED
    BY <1>1, <2>1 DEF SInv, TypeOK
<1>3. GivenOK' /\ StageOK' /\ (Strict' <=> Strict)
  BY <1>1, GivenSame DEF SInv, StageOK
<1>4. PassedBoot' = PassedBoot /\ PassedFiles' = PassedFiles
  BY <1>1 DEF PassedBoot, PassedFiles, Passed, Lines
<1>5. FoundOK'
  BY <1>1, <1>4 DEF SInv, FoundOK, Name
<1>6. PoolOK'
  <2>1. \A i : LookedThrough(ini.main[i])' <=> LookedThrough(ini.main[i])
    BY <1>1, LookedSame
  <2>2. \A x : Wanted(x)' = Wanted(x)
    BY <1>1, GivenSame DEF SInv
  <2> QED
    BY <1>1, <1>4, <2>1, <2>2 DEF SInv, PoolOK
<1>7. \A line, d : AcceptsFile(line, d)' <=> AcceptsFile(line, d)
  BY <1>1 DEF AcceptsFile
<1>8. \A line, s : IsAsListed(line, s)' <=> IsAsListed(line, s)
  BY <1>1, ListedSame
<1>9. ImageAsListed' <=> ImageAsListed
  <2>1. \A s : LinesOf(s)' = LinesOf(s)
    BY <1>1 DEF LinesOf, SlotOf, IsUpdate, UpdateSlot
  <2>2. \A n : IsListed(n)' <=> IsListed(n)
    BY <1>1 DEF IsListed
  <2> QED
    BY <1>1, <1>7, <1>8, <2>1, <2>2 DEF ImageAsListed
<1>10. ListedOK'
  <2> SUFFICES ASSUME Strict
               PROVE /\ \A i \in PassedBoot' :
                           IsAsListed(ini.main[i], found.boot[Name(ini.main[i])])'
                     /\ \A i \in PassedFiles' : ~ini.files[i].bypassed =>
                           AcceptsFile(ini.files[i], found.files[ini.files[i].name])'
                     /\ ImageAsListed'
    BY <1>1, <1>3 DEF ListedOK, Name
  <2> QED
    BY <1>1, <1>4, <1>7, <1>8, <1>9 DEF SInv, ListedOK, Name
<1>11. FailsOnlyForMissing'
  BY <1>1, SourceSame DEF SInv, FailsOnlyForMissing
<1> QED
  BY <1>2, <1>3, <1>5, <1>6, <1>10, <1>11 DEF SInv

-----------------------------------------------------------------------------
(* Pairing. *)

\* The first CB of an image, when it has one, has what the first pass wrote.
LEMMA FirstCbPaired ==
    ASSUME options \in Options, NEW boot \in [Slots -> Section \cup {NoSection}],
           NEW p, p = Paired(boot), NEW q, q = Synced(p), FirstCb(q) # NoSection
    PROVE  /\ FirstCb(p) \in Section
           /\ FirstCb(p).pd = OnDisk(DonorPd) /\ FirstCb(p).ldv = CbLdv
<1>1. /\ \A s \in Slots : boot[s] = NoSection => p[s] = NoSection /\ q[s] = NoSection
      /\ \A s \in Slots : boot[s] \in Section => p[s] \in Section /\ q[s] \in Section
  BY PairedFacts
<1>2. {"cba", "cb"} \subseteq Slots /\ {"cba", "cb"} \subseteq CbSlots
      /\ CbSlots \cap CfSlots = {}
  BY DEF Slots, CbSlots, CfSlots
<1>3. \A s \in {"cba", "cb"} : boot[s] \in Section =>
         p[s].pd = OnDisk(DonorPd) /\ p[s].ldv = CbLdv
  <2>1. DonorPd \in Bytes \X Bytes /\ CbLdv \in Nat /\ CfLdv \in Nat
    BY DonorTypes
  <2>2. \A s \in CbSlots \cup CfSlots : boot[s] \in Section =>
           p[s].pd = OnDisk(DonorPd) /\ p[s].ldv = IF s \in CfSlots THEN CfLdv ELSE CbLdv
    BY <2>1, PerBoxFacts DEF Paired
  <2> QED
    BY <1>2, <2>2
<1>4. \A b : FirstCb(b) = IF b["cba"] \in Section THEN b["cba"]
                          ELSE IF b["cb"] \in Section THEN b["cb"] ELSE NoSection
  BY FirstInTwo DEF FirstCb
<1>5. NoSection \notin Section
  BY SearchAssumption
<1>6. boot["cba"] \in Section \/ boot["cb"] \in Section
  BY <1>1, <1>2, <1>4, <1>5
<1>7. \A s \in {"cba", "cb"} : p[s] \in Section <=> boot[s] \in Section
  BY <1>1, <1>2, <1>5
<1> QED
  BY <1>3, <1>4, <1>6, <1>7

\* What the second pass reads back from the image is what the first one wrote.
LEMMA SecondPass ==
    ASSUME options \in Options, NEW boot \in [Slots -> Section \cup {NoSection}],
           NEW p, p = Paired(boot), FirstCb(p) \in Section,
           FirstCb(p).pd = OnDisk(DonorPd), FirstCb(p).ldv = CbLdv
    PROVE  /\ OwnPd(p) = DonorPd
           /\ CbLdv <= 16 => OwnCbLdv(p) = CbLdv
           /\ options.cfldv = {} /\ boot["cf0"] \in Section => OwnCfLdv(p) = CfLdv
<1>1. /\ DonorPd \in SomePd /\ DonorPd \in Bytes \X Bytes
      /\ CbLdv \in Nat \ {0} /\ CfLdv \in Nat \ {0}
  BY DonorTypes DEF SomePd
<1>c. PICK c \in Section : c = FirstCb(p) /\ c # NoSection
  BY SearchAssumption
<1>2. Pd(c) = DonorPd
  BY <1>1, <1>c, TwiceReversed DEF Pd
<1>3. OwnPd(p) = DonorPd
  <2>1. OwnPd(p) = FirstIn(<<Pd(c)>>, SomePd, <<0, 1>>)
    BY <1>c DEF OwnPd
  <2> QED
    BY <1>1, <1>2, <2>1, FirstInOne
<1>4. ASSUME CbLdv <= 16 PROVE OwnCbLdv(p) = CbLdv
  <2>1. CbLdvOf(c) = CbLdv
    BY <1>1, <1>4, <1>c DEF CbLdvOf, CfLdvOf
  <2>2. OwnCbLdv(p) = FirstIn(<<CbLdvOf(c)>>, Nat \ {0}, 1)
    BY <1>c DEF OwnCbLdv
  <2> QED
    BY <1>1, <2>1, <2>2, FirstInOne
<1>5. ASSUME options.cfldv = {}, boot["cf0"] \in Section PROVE OwnCfLdv(p) = CfLdv
  <2>0. "cf0" \in Slots /\ "cf0" \in CfSlots
    BY DEF Slots, CfSlots
  <2>1. p["cf0"] \in Section /\ p["cf0"].ldv = CfLdv
    BY <1>1, <1>5, <2>0, PerBoxFacts DEF Paired
  <2>2. CfLdvOf(p["cf0"]) = CfLdv
    BY <2>1, SearchAssumption DEF CfLdvOf
  <2>3. OwnCfLdv(p) = FirstIn(<<CfLdvOf(p["cf0"])>>, Nat \ {0}, 1)
    BY <1>5 DEF OwnCfLdv
  <2> QED
    BY <1>1, <2>2, <2>3, FirstInOne
<1> QED
  BY <1>3, <1>4, <1>5

\* The fields of the dump's CB and CF are those that are written, if it has any.
LEMMA FieldsOfDump ==
    ASSUME donor \in Nand
    PROVE  /\ Pd(DonorCb) # <<0, 0>> => OnDisk(DonorPd) = DonorCb.pd
           /\ CbLdvOf(DonorCb) # 0 => CbLdv = DonorCb.ldv /\ CbLdv <= 16
           /\ CfLdvOf(donor.boot["cf0"]) # 0 => CfLdv = donor.boot["cf0"].ldv
<1>1. donor.boot \in [Slots -> Section \cup {NoSection}]
  BY DEF Nand
<1>2. DonorCb \in Section \cup {NoSection}
  <2> PICK v : v = <<donor.boot["cbb"], donor.boot["cba"], donor.boot["cb"]>>
    OBVIOUS
  <2>1. DOMAIN v \subseteq Nat
    OBVIOUS
  <2> QED
    BY <2>1, FirstInFacts DEF DonorCb
<1>3. \A c \in Section : c.pd \in Bytes \X Bytes /\ c.ldv \in Nat
  BY DEF Section
<1>4. ASSUME Pd(DonorCb) # <<0, 0>> PROVE OnDisk(DonorPd) = DonorCb.pd
  <2>1. DonorCb \in Section /\ Pd(DonorCb) = OnDisk(DonorCb.pd)
    BY <1>2, <1>4 DEF Pd, OnDisk
  <2>2. DonorCb.pd \in Bytes \X Bytes
    BY <1>3, <2>1
  <2>3. Pd(DonorCb) \in SomePd
    BY <1>4, <2>1, <2>2, ReversePair DEF SomePd
  <2>4. DonorPd = Pd(DonorCb)
    BY <2>3, FirstInTwo DEF DonorPd
  <2> QED
    BY <2>1, <2>2, <2>4, TwiceReversed DEF OnDisk
<1>5. ASSUME CbLdvOf(DonorCb) # 0 PROVE CbLdv = DonorCb.ldv /\ CbLdv <= 16
  <2>1. DonorCb \in Section /\ CbLdvOf(DonorCb) = DonorCb.ldv /\ DonorCb.ldv <= 16
    BY <1>2, <1>3, <1>5 DEF CbLdvOf, CfLdvOf
  <2>2. CbLdvOf(DonorCb) \in Nat \ {0}
    BY <1>3, <1>5, <2>1
  <2>3. CbLdv = CbLdvOf(DonorCb)
    BY <2>2, FirstInOne DEF CbLdv
  <2> QED
    BY <2>1, <2>3
<1>6. ASSUME CfLdvOf(donor.boot["cf0"]) # 0 PROVE CfLdv = donor.boot["cf0"].ldv
  <2>0. "cf0" \in Slots
    BY DEF Slots
  <2>1. donor.boot["cf0"] \in Section /\ CfLdvOf(donor.boot["cf0"]) = donor.boot["cf0"].ldv
    BY <1>1, <1>6, <2>0 DEF CfLdvOf
  <2>2. CfLdvOf(donor.boot["cf0"]) \in Nat \ {0}
    BY <1>3, <1>6, <2>1
  <2>3. CfLdv = CfLdvOf(donor.boot["cf0"])
    BY <2>2, FirstInTwo DEF CfLdv
  <2> QED
    BY <2>1, <2>3
<1> QED
  BY <1>4, <1>5, <1>6

\* An image with a second CF has a first.
LEMMA FirstCfThere ==
    ASSUME SInv, stage = "end", NEW s \in CfSlots, Applied.boot[s] # NoSection
    PROVE  Applied.boot["cf0"] \in Section
<1>1. CfSlots = {"cf0", "cf1"} /\ CfSlots \subseteq Slots
  BY DEF CfSlots, Slots
<1>2. /\ Applied.boot = [t \in Slots |-> IF Onef /\ t \in {"cf0", "cf1", "cg0", "cg1"}
                                         THEN NoSection ELSE Assigned(t)]
  BY AppliedFacts
<1>3. ~Onef /\ Applied.boot["cf0"] = Assigned("cf0") /\ Assigned(s) # NoSection
  BY <1>1, <1>2
<1>4. LinesOf(s) # {}
  BY <1>3 DEF Assigned
<1>5. PICK i \in DOMAIN ini.main : SlotOf(ini.main[i]) = s
  BY <1>4 DEF LinesOf
<1>6. ini.main[i].prefix = "cf"
  <2>1. ini.main[i].prefix \in BlPrefixes
    BY <1>5, LinesFacts DEF SInv, GivenOK, ParsedLine
  <2> QED
    BY <1>1, <1>5, <2>1 DEF SlotOf, UpdateSlot, IsUpdate, BlPrefixes
<1>7. PICK j \in DOMAIN ini.main : SlotOf(ini.main[j]) = "cf0"
  <2>1. CASE s = "cf0"
    BY <1>5, <2>1
  <2>2. CASE s = "cf1"
    <3>1. ini.main[i].chain = 1
      BY <1>5, <1>6, <2>2 DEF SlotOf, UpdateSlot, IsUpdate
    <3>2. PICK j \in DOMAIN ini.main : ini.main[j].prefix = "cf" /\ ini.main[j].chain = 0
      BY <1>5, <1>6, <3>1 DEF SInv, GivenOK, ChainsBegin
    <3>3. SlotOf(ini.main[j]) = "cf0"
      BY <3>2 DEF SlotOf, UpdateSlot, IsUpdate
    <3> QED
      BY <3>3
  <2> QED
    BY <1>1, <2>1, <2>2
<1>8. LinesOf("cf0") # {}
  BY <1>7 DEF LinesOf
<1> QED
  BY <1>1, <1>3, <1>8, AssignedType

\* The step that builds an image pairs it.
LEMMA BuildPairs ==
    ASSUME SInv, stage = "end", donor \in Nand, FirstCb(fresh_nand.boot) # NoSection,
           NEW s \in CbSlots \cup CfSlots, fresh_nand.boot[s] # NoSection
    PROVE  /\ Pd(DonorCb) # <<0, 0>> => fresh_nand.boot[s].pd = DonorCb.pd
           /\ s \in CbSlots /\ CbLdvOf(DonorCb) # 0 => fresh_nand.boot[s].ldv = DonorCb.ldv
           /\ s \in CfSlots /\ options.cfldv = {} /\ CfLdvOf(donor.boot["cf0"]) # 0 =>
                   fresh_nand.boot[s].ldv = donor.boot["cf0"].ldv
<1> PICK boot, p, q : boot = Applied.boot /\ p = Paired(boot) /\ q = Synced(p)
  OBVIOUS
<1>1. options \in Options /\ boot \in [Slots -> Section \cup {NoSection}]
  BY AppliedFacts DEF SInv, GivenOK, Nand
<1>2. fresh_nand.boot = q
  BY FreshFacts
<1>3. FirstCb(p) \in Section /\ FirstCb(p).pd = OnDisk(DonorPd) /\ FirstCb(p).ldv = CbLdv
  BY <1>1, <1>2, FirstCbPaired
<1>4. /\ OwnPd(p) = DonorPd
      /\ CbLdv <= 16 => OwnCbLdv(p) = CbLdv
      /\ options.cfldv = {} /\ boot["cf0"] \in Section => OwnCfLdv(p) = CfLdv
  BY <1>1, <1>3, SecondPass
<1>5. s \in Slots /\ CbSlots \cap CfSlots = {}
  BY DEF CbSlots, CfSlots, Slots
<1>6. boot[s] \in Section /\ p[s] \in Section /\ p \in [Slots -> Section \cup {NoSection}]
  BY <1>1, <1>2, <1>5, PairedFacts
<1>7. /\ q[s].pd = OnDisk(OwnPd(p))
      /\ q[s].ldv = IF s \in CfSlots THEN OwnCfLdv(p) ELSE OwnCbLdv(p)
  <2>1. OwnPd(p) \in Bytes \X Bytes /\ OwnCbLdv(p) \in Nat /\ OwnCfLdv(p) \in Nat
    BY <1>1, OwnTypes
  <2> QED
    BY <1>6, <2>1, PerBoxFacts DEF Synced
<1>8. s \in CfSlots => boot["cf0"] \in Section
  BY <1>6, FirstCfThere, SearchAssumption
<1> QED
  BY <1>2, <1>4, <1>5, <1>7, <1>8, FieldsOfDump

-----------------------------------------------------------------------------
(* The theorems. *)

LEMMA SearchInvariant == Spec => []SInv
<1>1. ASSUME SInv, [Next]_vars PROVE SInv'
  BY <1>1, BeginStep, ChoosePatchStep, NextStageStep, FindSecurityStep, FindSmcStep,
     FindPayloadStep, FindBootStep, FindFileStep, EndLoadStep, EndIniStep, EndBuildStep,
     ReplaceDumpStep, StutterStep DEF Next
<1> QED
  BY <1>1, InitSInv, PTL DEF Spec

\* The parts of the search, of the session and of the dump keep their types, and
\* the search stands at a line of its list: of every INI, world and dump.
THEOREM SearchTypes == Spec => []TypeOK
<1>1. SInv => TypeOK
  BY DEF SInv
<1> QED
  BY <1>1, SearchInvariant, PTL

\* BuildAssets::load, ParseIni and Build give up only at a line that has no copy
\* its checks accept: neither a copy with a wrong hash or version in an earlier
\* tier nor a container passed over hides a good one.
THEOREM SearchMissesNothing == Spec => []FailsOnlyForMissing
<1>1. SInv => FailsOnlyForMissing
  BY DEF SInv
<1> QED
  BY <1>1, SearchInvariant, PTL

\* An image that Build makes holds what the INI lists, whichever tier each part
\* came from and whatever was built before - when no hash is waived by gxunsafe
\* and lines that share a name ask for the same bytes, as only one copy is kept
\* for a name.
THEOREM ImageHoldsIni == Spec => [](Strict => ImageAsListed)
<1>1. SInv => (Strict => ImageAsListed)
  BY DEF SInv, ListedOK
<1> QED
  BY <1>1, SearchInvariant, PTL

\* An image that Build makes is the console's whose dump lies in the data folder at
\* that moment: its CBs and CFs have that dump's pairing data and lockdown values,
\* whichever tier they came from and whatever was built or parsed before - and
\* sync_options_to_nand, which reads the fields from the new image and writes them
\* once more in another byte order, leaves them so.
THEOREM PairedAsItsDump == Spec => []PairedWithDump
<1>1. Init => PairedWithDump
  BY DEF Init, PairedWithDump
<1>2. ASSUME SInv, SInv', PairedWithDump, [Next]_vars PROVE PairedWithDump'
  <2>1. CASE EndBuild
    <3>1. /\ UNCHANGED <<given, donor, caller>> /\ stage = "end" /\ caller = "build"
          /\ \/ stage' = "done" /\ built' = Append(built, fresh_nand)
             \/ stage' = "failed"
      BY <2>1 DEF EndBuild
    <3>2. donor \in Nand
      BY <1>2, <3>1 DEF SInv, TypeOK, StageOK
    <3>3. CASE stage' = "failed"
      BY <3>3 DEF PairedWithDump
    <3>4. CASE stage' = "done" /\ built' = Append(built, fresh_nand)
      <4>1. Last(built') = fresh_nand
        BY <1>2, <3>4 DEF SInv, TypeOK, Last
      <4>2. /\ donor' = donor /\ options' = options /\ DonorCb' = DonorCb
            /\ Pd(DonorCb)' = Pd(DonorCb) /\ CbLdvOf(DonorCb)' = CbLdvOf(DonorCb)
            /\ CfLdvOf(donor.boot["cf0"])' = CfLdvOf(donor.boot["cf0"])
        BY <3>1 DEF given, DonorCb, Pd, CbLdvOf, CfLdvOf
      <4> PICK image : image = fresh_nand
        OBVIOUS
      <4>3. FirstCb(image.boot) # NoSection =>
              \A s \in CbSlots \cup CfSlots : image.boot[s] # NoSection =>
                /\ Pd(DonorCb) # <<0, 0>> => image.boot[s].pd = DonorCb.pd
                /\ s \in CbSlots /\ CbLdvOf(DonorCb) # 0 => image.boot[s].ldv = DonorCb.ldv
                /\ s \in CfSlots /\ options.cfldv = {} /\ CfLdvOf(donor.boot["cf0"]) # 0 =>
                        image.boot[s].ldv = donor.boot["cf0"].ldv
        BY <1>2, <3>1, <3>2, BuildPairs
      <4> QED
        BY <4>1, <4>2, <4>3 DEF PairedWithDump
    <3> QED
      BY <3>1, <3>3, <3>4
  <2>2. CASE BeginLoad \/ BeginIni \/ BeginBuild
    BY <2>2 DEF BeginLoad, BeginIni, BeginBuild, Begin, PairedWithDump
  <2>3. CASE ChoosePatch \/ NextStage
    BY <2>3 DEF ChoosePatch, NextStage, Fail, After, PairedWithDump
  <2>4. CASE FindSecurity \/ FindSmc \/ FindPayload \/ FindBoot \/ FindFile
    <3>1. stage' # "done"
      BY <2>4 DEF FindSecurity, FindSmc, FindPayload, FindBoot, FindFile, AtLine, InStage, Take,
                  Advance, Fail, After
    <3> QED
      BY <3>1 DEF PairedWithDump
  <2>5. CASE EndLoad \/ EndIni \/ ReplaceDump
    BY <2>5 DEF EndLoad, EndIni, ReplaceDump, PairedWithDump
  <2>6. CASE UNCHANGED vars
    <3>1. /\ donor' = donor /\ options' = options /\ caller' = caller /\ stage' = stage
          /\ built' = built
      BY <2>6 DEF vars, given, searching
    <3> QED
      BY <1>2, <3>1 DEF PairedWithDump, DonorCb, Pd, CbLdvOf, CfLdvOf
  <2> QED
    BY <1>2, <2>1, <2>2, <2>3, <2>4, <2>5, <2>6 DEF Next
<1> QED
  BY <1>1, <1>2, SearchInvariant, PTL DEF Spec

=============================================================================
