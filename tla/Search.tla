------------------------------- MODULE Search --------------------------------
(***************************************************************************)
(* Where the parts of an image come from.  An INI lists boot sections,     *)
(* security files, payloads and FlashFS files; every line is searched      *)
(* through its tiers - folders, update containers, the NAND dump - and the *)
(* first copy that passes the line's checks is taken.  The assets are then *)
(* applied to a skeleton.                                                  *)
(*                                                                         *)
(* Three callers search: the command line before its batch (BuildAssets),  *)
(* the command ParseIni, and the command Build.  Build pairs its image     *)
(* with the console of the dump that lies in the data folder then, and     *)
(* another dump may be put there between two commands (ReplaceDump).       *)
(*                                                                         *)
(* A boot section is reduced to what tells copies of it apart: the type    *)
(* and version in its header, whether it has the bytes its version should  *)
(* have, whether the automatic patch is in it, and its per-console fields. *)
(* A file is a name and a member of Data.                                  *)
(***************************************************************************)
EXTENDS Integers, Sequences, SequencesExt, FiniteSets

CONSTANTS
    Versions,       \* versions of boot sections, all above 1
    Data,           \* contents of security files, payloads and FlashFS files
    FileNames,      \* FlashFS files
    SecurityNames,  \* security files that are packed into the FlashFS
    Empty,          \* the keyvault of a blank skeleton
    NoHash, NoNand, NoPatch, NoSection, NoLine,
    OnefXell,       \* the contents that are a xell-1f
    Platform,       \* the part of the console section before the first "_"
    Scenarios,      \* an INI, the options, what the folders hold, the dump, and
                    \* the NANDs that earlier commands may have left in the session
    Dumps,          \* the dumps that may be put in the place of the first
    MaxBuilds       \* bound: images that are built in one session

BlPrefixes == {"cb", "cba", "cbb", "cbx", "sb", "sc", "cd", "ce", "cf", "cg"}
Slots    == {"cb", "cba", "cbb", "cbx", "sc", "cd", "ce", "cf0", "cf1", "cg0", "cg1"}

\* XenonBlType by the prefix of a file name.
TypeOf == [p \in BlPrefixes |-> IF p \in {"cb", "cba", "cbb", "cbx", "sb"} THEN "CB"
                              ELSE CASE p = "sc" -> "SC" [] p = "cd" -> "CD" [] p = "ce" -> "CE"
                                     [] p = "cf" -> "CF" [] p = "cg" -> "CG"]

Bytes    == 0 .. 2
AllNames == FileNames \cup SecurityNames
Section == [type : {"CB", "SC", "CD", "CE", "CF", "CG"}, ver : Versions, sound : BOOLEAN,
            patched : BOOLEAN, pd : Bytes \X Bytes, ldv : Nat]

\* A NAND in memory.  Of the FlashFS entries of one name only the first counts and
\* the first that is not deleted: a deleted entry listed here stands before the
\* live one of its name.
Nand    == [boot : [Slots -> Section \cup {NoSection}], kv : Data \cup {Empty},
            fcrt : SUBSET Data, smc : Data \cup {Empty}, smcpatched : BOOLEAN, onef : BOOLEAN,
            files : SUBSET [name : AllNames, suffix : 0 .. 2,
                            deleted : BOOLEAN, data : Data]]

LiveFiles(nand) == {f \in nand.files : ~f.deleted}

\* The live fcrt.bin of a FlashFS.
NandFcrt(nand) == {f.data : f \in {g \in LiveFiles(nand) : g.name = "fcrt" /\ g.suffix = 0}}

\* What parse_clean makes of a file: it refuses one without a CB_A, CD or CE (the
\* first CB is a CB_A or else the image is refused), and it renames the deleted
\* entries of the FlashFS to names no INI has.
IsDump(nand) ==
    /\ nand \in Nand
    /\ \A s \in {"cba", "cd", "ce"} : nand.boot[s] # NoSection
    /\ nand.boot["cb"] = NoSection
    /\ LiveFiles(nand) = nand.files
    /\ nand.fcrt = NandFcrt(nand)

\* The bytes of a boot section have this CRC: it is the CRC of one version's
\* original bytes, per-console fields aside.
HasHash(section, hash) == section.ver = hash /\ section.sound /\ ~section.patched

\* The options; cfldv is none or one value, given by the user or noted by the
\* ParseImage of some dump earlier in the session.
Options == [gxunsafe : BOOLEAN, nofcrt : BOOLEAN, nosecurity : BOOLEAN,
            nosusecurity : BOOLEAN, nochainpatch : BOOLEAN, cfldv : SUBSET Nat]

\* An INI as it is written.
BootLine == [prefix : BlPrefixes, num : Nat, hash : Versions \cup {NoHash}]
FileLine(names) == [name : names, hash : Data \cup {NoHash}, bypassed : BOOLEAN]
Ini == [buildtype : STRING, main : Seq(BootLine), security : Seq(STRING),
        payloads : Seq(FileLine(STRING)), files : Seq(FileLine(AllNames))]

\* What the folders hold: patch files, security files, boot sections, update
\* files and containers with an update and FlashFS files inside.
UpdateFile == [cf : Section, cg : Section]
Container  == [update : SUBSET UpdateFile,
               files : SUBSET [name : AllNames, suffix : 0 .. 2, data : Data]]
World ==
    [patches : SUBSET [file : STRING, dir : {"bin", "parent"}, parts : SUBSET {"cb", "cbb", "cd"},
                       readable : BOOLEAN],
     security : SUBSET [dir : {"mydata", "build", "stfs", "common"}, name : STRING, data : Data],
     smc : SUBSET [dir : {"mydata", "smc"}, file : {"SMC", "CLEAN"}, data : Data],
     smcpatch : BOOLEAN,
     payloads : SUBSET [name : STRING, data : Data],
     boot : SUBSET [dir : {"mydata", "build", "common"}, name : BlPrefixes \X Nat, section : Section],
     xboxupd : SUBSET UpdateFile, containers : Seq(Container),
     files : SUBSET [dir : {"mydata", "build", "flashfs", "common"}, name : AllNames,
                     suffix : 0 .. 2, data : Data]]

ASSUME SearchAssumption ==
    /\ \A v \in Versions : v \in Nat /\ v > 1
    /\ FileNames \cap SecurityNames = {}
    /\ "fcrt" \in SecurityNames /\ "kv" \notin SecurityNames
    /\ Empty \notin Data /\ NoHash \notin Data /\ NoHash \notin Versions
    /\ NoSection \notin Section /\ NoLine \notin BlPrefixes \X Nat
    /\ OnefXell \subseteq Data
    /\ NoNand \notin Nand
    /\ \A s \in Scenarios : /\ s.ini \in Ini /\ s.options \in Options /\ s.world \in World
                            /\ s.donor = NoNand \/ IsDump(s.donor)
                            /\ s.session \subseteq Nand \cup {NoNand}
    /\ \A d \in Dumps : IsDump(d)
    /\ MaxBuilds \in Nat

VARIABLES
    ini,        \* XeBuildIni, as parsed
    options,    \* build_config.options
    world,      \* the folders
    donor,      \* the dump in the data folder
    active,     \* session.active_nand
    caller,     \* who searches: "none", "load", "ini" or "build"
    stage,      \* which list of the INI is being searched
    at,         \* the line of that list
    error,      \* the line a search failed at
    patch,      \* the automatic patch
    found,      \* IniSearchResult: boot sections, security files, payloads, files
    pool,       \* stfs_flashfs_candidates
    assets,     \* session.build_assets
    built       \* history: the images that were built

given     == <<ini, options, world>>
searching == <<caller, stage, at, error, patch, found, pool>>
vars      == <<given, donor, active, searching, assets, built>>

-----------------------------------------------------------------------------
(* The INI. *)

\* parse_xe_ini_str counts the lines of each prefix; the count is the chain.
Chain(lines, i) == Cardinality({j \in 1 .. i - 1 : lines[j].prefix = lines[i].prefix})

Parsed(raw) ==
    [raw EXCEPT !.main = [i \in DOMAIN raw.main |->
        [prefix |-> raw.main[i].prefix, num |-> raw.main[i].num,
         hash |-> raw.main[i].hash, chain |-> Chain(raw.main, i)]]]

Name(line) == <<line.prefix, line.num>>

IsUpdate(line) == line.prefix \in {"cf", "cg"}

UpdateSlot(prefix, second) ==
    IF prefix = "cf" THEN IF second THEN "cf1" ELSE "cf0" ELSE IF second THEN "cg1" ELSE "cg0"

\* apply_xe_ini: the slot a line's section goes to; a line of a later chain goes
\* where the first one went, but for CF and CG.
SlotOf(line) ==
    IF IsUpdate(line) THEN UpdateSlot(line.prefix, line.chain = 1)
    ELSE IF line.prefix = "sb" THEN "cb" ELSE line.prefix

\* expected_cf and expected_cg: the last CF (CG) line there is.
Expected(prefix) ==
    LET lines == {i \in DOMAIN ini.main : ini.main[i].prefix = prefix}
    IN  IF lines = {} THEN NoLine
        ELSE Name(ini.main[CHOOSE i \in lines : \A j \in lines : j <= i])

\* target_cb: the last CB_B line, or without one the first CB.
TargetCb ==
    LET With(prefixes) == {i \in DOMAIN ini.main : ini.main[i].prefix \in prefixes}
        cbb == With({"cbb"})
        cb  == With({"cb", "sb"})
    IN  IF cbb # {} THEN Name(ini.main[CHOOSE i \in cbb : \A j \in cbb : j <= i])
        ELSE IF cb # {} THEN Name(ini.main[CHOOSE i \in cb : \A j \in cb : i <= j])
        ELSE NoLine

-----------------------------------------------------------------------------
(* Checks of a copy. *)

\* bootloader_matches_expected_name; the numbers 0 and 1 are no versions.
MatchesName(line, section) ==
    /\ section.type = TypeOf[line.prefix]
    /\ line.num > 1 => section.ver = line.num

\* A slip: a copy of the right name is not hashed any more.
AcceptsNamed(line, section) == MatchesName(line, section)

\* check_bootloader_candidate
Accepts(line, section) ==
    /\ MatchesName(line, section)
    /\ line.hash = NoHash \/ HasHash(section, line.hash) \/ options.gxunsafe

Accepted(line, copies) == {c \in copies : Accepts(line, c)}

\* check_crc32_simple
AcceptsFile(line, data) == line.hash = NoHash \/ data = line.hash \/ options.gxunsafe

\* A slip: when the first tier has no good copy the others are not looked at.
FirstOnly(tiers) == IF tiers = <<>> THEN {} ELSE Head(tiers)

\* The first place of a sequence among some of its places.
First(places) == CHOOSE i \in places : \A j \in places : i <= j

\* The first tier that has a copy for us.
FirstOf(tiers) ==
    LET hits == {i \in DOMAIN tiers : tiers[i] # {}}
    IN  IF hits = {} THEN {} ELSE tiers[First(hits)]

-----------------------------------------------------------------------------
(* Callers. *)

\* The dump a search may fall back on.
SourceNand == IF caller = "ini" THEN active ELSE donor

Nothing == [boot |-> <<>>, security |-> <<>>, payloads |-> <<>>, files |-> <<>>]

Begin(who) ==
    /\ stage \in {"idle", "done", "failed"}
    /\ caller' = who
    /\ stage' = "patches"
    /\ at' = 1
    /\ error' = <<>>
    /\ patch' = NoPatch
    /\ found' = Nothing
    /\ pool' = <<>>
    /\ UNCHANGED <<given, donor, active, assets, built>>

\* BuildAssets::new, before any NAND is in the session.
BeginLoad == caller = "none" /\ Begin("load")

BeginIni == Begin("ini")

\* Without a dump in the data folder, or with one that does not parse, Build fails
\* at once.
BeginBuild == donor # NoNand /\ Len(built) < MaxBuilds /\ Begin("build")

InStage(s) == stage = s /\ UNCHANGED <<given, donor, active, caller, assets, built>>

\* The first line without a copy ends the search.
Fail == /\ stage' = "failed"
        /\ error' = <<stage, at>>
        /\ UNCHANGED <<at, patch, found, pool>>

Lines(s) == CASE s = "security" -> ini.security [] s = "payloads" -> ini.payloads
              [] s = "boot" -> ini.main [] s = "files" -> ini.files

After == [security |-> "smc", smc |-> "payloads", payloads |-> "boot", boot |-> "files",
          files |-> "end"]

\* A slip: a loop steps twice over a line it has found.
AdvanceTwice == at' = at + 2 /\ UNCHANGED <<stage, error, patch>>

\* On to the next line.
Advance == at' = at + 1 /\ UNCHANGED <<stage, error, patch>>

NextStage ==
    /\ stage \in {"security", "payloads", "boot", "files"}
    /\ InStage(stage)
    /\ at > Len(Lines(stage))
    /\ stage' = After[stage]
    /\ at' = 1
    /\ UNCHANGED <<error, patch, found, pool>>

Line == Lines(stage)[at]

AtLine(s) == InStage(s) /\ at <= Len(Lines(s))

\* A map entry, new or overwritten.
Put(f, key, value) == [k \in DOMAIN f \cup {key} |-> IF k = key THEN value ELSE f[k]]

-----------------------------------------------------------------------------
(* The automatic patch. *)

\* The patch files a build type may use, the one to be preferred first.
PatchFiles ==
    CASE ini.buildtype = "glitch1" -> IF Platform \in {"trinity", "corona"} THEN <<"trinity">>
                                      ELSE IF Platform \in {"zephyr", "jasper", "falcon"}
                                           THEN <<"fat">> ELSE <<>>
      [] ini.buildtype = "glitch2" -> <<"g2">>
      [] ini.buildtype \in {"glitch2m", "devgl", "xdkbuild"} -> <<"g2m">>
      [] ini.buildtype = "glitch3" -> <<"g3", "g2">>
      [] ini.buildtype = "devkit"  -> <<"dev">>
      [] ini.buildtype = "rgbuild" -> <<"rg">>
      [] OTHER -> <<>>

BuildTypes == {"retail", "glitch1", "glitch2", "glitch2m", "glitch3", "jtag", "1f", "2f",
               "devgl", "devkit", "xdkbuild", "rgbuild"}

\* find_patch: <build>/bin, then <build>/../bin.
find_patch(file) ==
    FirstOf([d \in 1 .. 2 |->
        {p \in world.patches : p.file = file /\ p.dir = <<"bin", "parent">>[d]}])

ChoosePatch ==
    LET choice == FirstOf([i \in DOMAIN PatchFiles |-> find_patch(PatchFiles[i])])
    IN  /\ InStage("patches")
        /\ IF ini.buildtype \notin BuildTypes \/ (PatchFiles # <<>> /\ choice = {})
           THEN Fail
           ELSE /\ stage' = "security"
                /\ UNCHANGED <<at, error, found, pool>>
                /\ patch' = IF choice = {} THEN NoPatch ELSE CHOOSE p \in choice : TRUE

\* A patch file that cannot be parsed patches nothing.
Patches(parts) == patch # NoPatch /\ patch.readable /\ parts \cap patch.parts # {}

\* What apply_records makes of a copy.
Patched(line, section) ==
    IF /\ ~options.nochainpatch
       /\ \/ Name(line) = TargetCb /\ Patches({"cb", "cbb"})
          \/ Name(line) # TargetCb /\ line.prefix = "cd" /\ Patches({"cd"})
    THEN [section EXCEPT !.patched = TRUE] ELSE section

-----------------------------------------------------------------------------
(* Security files, SMC and payloads. *)

\* A keyvault is accepted from a blank skeleton as well, empty as it is.
NandSecurity(name) ==
    IF options.nosecurity \/ SourceNand = NoNand THEN {}
    ELSE CASE name = "kv" -> {SourceNand.kv}
           [] name = "fcrt" -> SourceNand.fcrt
           [] OTHER -> {}

SecurityTiers(name) ==
    LET In(dir) == {f.data : f \in {g \in world.security : g.dir = dir /\ g.name = name}}
    IN  <<NandSecurity(name), In("mydata"), In("build"),
          IF options.nosusecurity THEN {} ELSE In("stfs"), In("common")>>

\* No security file has a hash: the first copy wins.
FindSecurity ==
    /\ AtLine("security")
    /\ LET copies == FirstOf(SecurityTiers(Line))
       IN  IF (Line = "fcrt" /\ options.nofcrt) \/ (Line = "odd" /\ copies = {})
           THEN Advance /\ UNCHANGED <<found, pool>>
           ELSE IF copies = {} THEN Fail
           ELSE /\ Advance
                /\ \E c \in copies : found' = [found EXCEPT !.security = Put(@, Line, c)]
                /\ UNCHANGED pool

\* SMC.bin, then <platform>_CLEAN.bin, in the data folder, then in the smc folder.
FindSmc ==
    LET At(dir, file) == {f.data : f \in {g \in world.smc : g.dir = dir /\ g.file = file}}
        copies == FirstOf(<<At("mydata", "SMC"), At("mydata", "CLEAN"),
                            At("smc", "SMC"), At("smc", "CLEAN")>>)
    IN  /\ InStage("smc")
        /\ IF copies = {} THEN Fail
           ELSE /\ stage' = After.smc
                /\ \E c \in copies : found' = [found EXCEPT !.security = Put(@, "smc", c)]
                /\ UNCHANGED <<at, error, patch, pool>>

\* Payloads have one folder; a wrong hash ends the search.
FindPayload ==
    /\ AtLine("payloads")
    /\ LET copies == {f.data : f \in {g \in world.payloads : g.name = Line.name}}
           usable == {c \in copies : AcceptsFile(Line, c)}
       IN  IF usable = {} THEN Fail
           ELSE /\ Advance
                /\ \E c \in usable : found' = [found EXCEPT !.payloads = Put(@, Line.name, c)]
                /\ UNCHANGED pool

-----------------------------------------------------------------------------
(* Boot sections. *)

Folder(dir, line) ==
    Accepted(line, {f.section : f \in {g \in world.boot : g.dir = dir /\ g.name = Name(line)}})

\* The data folder, then the build folder; a CB_X is looked for in another order.
FolderTiers(line) ==
    (IF line.prefix = "cbx"
     THEN <<Folder("build", line), Folder("mydata", line), Folder("common", line)>> ELSE <<>>)
    \o <<Folder("mydata", line), Folder("build", line)>>

\* What an update holds for a line, if the line is the one expected there.
UpdateCopies(line, updates) ==
    IF Name(line) # Expected(line.prefix) THEN {}
    ELSE Accepted(line, {IF line.prefix = "cf" THEN u.cf ELSE u.cg : u \in updates})

IsListed(name) == \E i \in DOMAIN ini.files : ini.files[i].name = name

Wanted(container) == {f \in container.files : IsListed(f.name)}

\* The containers of the build folder up to the first with a match; the FlashFS
\* files they hold are put aside on the way, container by container.
Scan(line) ==
    LET held == [i \in DOMAIN world.containers |->
                    UpdateCopies(line, world.containers[i].update)]
        hits == {i \in DOMAIN held : held[i] # {}}
        read == IF hits = {} THEN Len(world.containers) ELSE First(hits)
    IN  [copies |-> FirstOf(held),
         files  |-> pool \o [i \in 1 .. read |-> Wanted(world.containers[i])]]

\* The dump's slot for a line, told from the number in the file's name; there is
\* none for "sb".
NandSlot(line) ==
    CASE line.prefix = "sb" -> {}
      [] IsUpdate(line) -> {UpdateSlot(line.prefix, line.num = 1)}
      [] OTHER -> {line.prefix}

FromNand(line) ==
    IF SourceNand = NoNand THEN {}
    ELSE Accepted(line, {SourceNand.boot[s] : s \in NandSlot(line)} \ {NoSection})

Take(line, copies) ==
    /\ Advance
    /\ \E c \in copies :
        found' = [found EXCEPT !.boot = Put(@, Name(line), Patched(line, c))]

\* One line of the INI's main section.
FindBoot ==
    /\ AtLine("boot")
    /\ LET early  == FirstOf(FolderTiers(Line))
           update == IF IsUpdate(Line) THEN UpdateCopies(Line, world.xboxupd) ELSE {}
           scan   == Scan(Line)
           late   == FirstOf(<<Folder("common", Line), FromNand(Line)>>)
       IN  IF early \cup update # {}
           THEN Take(Line, FirstOf(<<early, update>>)) /\ UNCHANGED pool
           ELSE IF IsUpdate(Line)
           THEN LET copies == FirstOf(<<scan.copies, late>>)
                IN  IF copies = {} THEN Fail ELSE Take(Line, copies) /\ pool' = scan.files
           ELSE IF late = {} THEN Fail ELSE Take(Line, late) /\ UNCHANGED pool

-----------------------------------------------------------------------------
(* FlashFS files. *)

\* A file, or what is named like it with a 1 or a 2 behind.
Copies(files, line) ==
    [s \in 1 .. 3 |-> {f.data : f \in {g \in files : /\ g.name = line.name
                                                     /\ g.suffix = s - 1
                                                     /\ AcceptsFile(line, g.data)}}]

In(dir, line) == Copies({f \in world.files : f.dir = dir}, line)

\* select_flashfs_candidate: of the copies put aside the first that is accepted.
FromPool(line) ==
    [s \in 1 .. 3 |-> FirstOf([i \in DOMAIN pool |-> Copies(pool[i], line)[s]])]

\* The first of the NAND's entries of this very name, which in an edited NAND may
\* be a deleted one.
FromNandFiles(line) ==
    IF SourceNand = NoNand THEN {}
    ELSE LET deleted == {f \in SourceNand.files \ LiveFiles(SourceNand) :
                            f.name = line.name /\ f.suffix = 0}
         IN  Copies(IF deleted # {} THEN deleted ELSE LiveFiles(SourceNand), line)[1]

FileTiers(line) ==
    In("mydata", line) \o In("build", line) \o In("flashfs", line) \o FromPool(line)
    \o In("common", line) \o <<FromNandFiles(line)>>

FindFile ==
    /\ AtLine("files")
    /\ LET copies == FirstOf(FileTiers(Line))
       IN  IF Line.bypassed THEN Advance /\ UNCHANGED <<found, pool>>
           ELSE IF copies = {} THEN Fail
           ELSE /\ Advance
                /\ \E c \in copies : found' = [found EXCEPT !.files = Put(@, Line.name, c)]
                /\ UNCHANGED pool

-----------------------------------------------------------------------------
(* NandSearch: what the dump itself has for the INI's lines. *)

\* Here the slot is told from the chain, and an "sb" line has one.
ChainSlot(line) ==
    CASE line.prefix \in {"cb", "sb"} -> IF donor.boot["cba"] # NoSection THEN "cba" ELSE "cb"
      [] OTHER -> SlotOf(line)

NandBoot ==
    LET Fits(line) == LET section == donor.boot[ChainSlot(line)]
                      IN  /\ section # NoSection
                          /\ MatchesName(line, section)
                          /\ line.hash = NoHash \/ HasHash(section, line.hash)
        fitting == {i \in DOMAIN ini.main : Fits(ini.main[i])}
    IN  [n \in {Name(ini.main[i]) : i \in fitting} |->
            donor.boot[ChainSlot(ini.main[CHOOSE i \in fitting : Name(ini.main[i]) = n])]]

NandFiles ==
    LET Hits(line) == FirstOf([s \in 1 .. 3 |->
            {f.data : f \in {g \in LiveFiles(donor) : /\ g.name = line.name
                                                      /\ g.suffix = s - 1
                                                      /\ line.hash \in {NoHash, g.data}}}])
        hit == {i \in DOMAIN ini.files : ~ini.files[i].bypassed /\ Hits(ini.files[i]) # {}}
    IN  [n \in {ini.files[i].name : i \in hit} |->
            CHOOSE c \in Hits(ini.files[CHOOSE i \in hit : ini.files[i].name = n]) : TRUE]

\* or_insert: what is there already stays.
OrInsert(f, g) == [k \in DOMAIN f \cup DOMAIN g |-> IF k \in DOMAIN f THEN f[k] ELSE g[k]]

\* A function with at most one entry.
Entry(key, values) == [k \in {x \in {key} : values # {}} |-> CHOOSE v \in values : TRUE]

EndLoad ==
    /\ caller = "load"
    /\ stage = "end"
    /\ stage' = "done"
    /\ assets' = IF donor = NoNand THEN found
                 ELSE [found EXCEPT !.boot = OrInsert(@, NandBoot),
                                    !.security = OrInsert(OrInsert(@, Entry("kv", {donor.kv} \ {Empty})),
                                                          Entry("fcrt", NandFcrt(donor))),
                                    !.files = OrInsert(@, NandFiles)]
    /\ UNCHANGED <<given, donor, active, caller, at, error, patch, found, pool, built>>

-----------------------------------------------------------------------------
(* Applying what was found. *)

Blank == [boot |-> [s \in Slots |-> NoSection], kv |-> Empty, fcrt |-> {}, smc |-> Empty,
          smcpatched |-> FALSE, onef |-> FALSE, files |-> {}]

\* The security files that live in the FlashFS, by name.
Packed == [n \in DOMAIN found.security \cap SecurityNames |-> found.security[n]]

LinesOf(slot) == {i \in DOMAIN ini.main : SlotOf(ini.main[i]) = slot}

\* The section the lines of a slot leave there: the last line's.
Assigned(slot) ==
    IF LinesOf(slot) = {} THEN NoSection
    ELSE found.boot[Name(ini.main[CHOOSE i \in LinesOf(slot) : \A j \in LinesOf(slot) : j <= i])]

Onef == "xell" \in DOMAIN found.payloads /\ found.payloads["xell"] \in OnefXell

\* apply_xe_ini, for a blank skeleton.  The INI it is given is the caller's, into
\* which the search has put no KHV patches.
Applied ==
    [Blank EXCEPT
        !.boot = [s \in Slots |-> IF Onef /\ s \in {"cf0", "cf1", "cg0", "cg1"}
                                  THEN NoSection ELSE Assigned(s)],
        !.kv   = IF "kv" \in DOMAIN found.security THEN found.security["kv"] ELSE Empty,
        !.fcrt = {found.security[n] : n \in DOMAIN found.security \cap {"fcrt"}},
        !.smc  = IF "smc" \in DOMAIN found.security THEN found.security["smc"] ELSE Empty,
        !.onef = Onef]

\* A section with other bytes than its version's may be one that does not parse.
MayFailToParse == \E s \in Slots : Assigned(s) # NoSection /\ ~Assigned(s).sound

EndIni ==
    /\ caller = "ini"
    /\ stage = "end"
    /\ stage' = "done"
    /\ assets' = [found EXCEPT !.files = OrInsert(@, Packed)]
    /\ \/ active' = Applied
       \/ MayFailToParse /\ active' = NoNand
    /\ UNCHANGED <<given, donor, caller, at, error, patch, found, pool, built>>

-----------------------------------------------------------------------------
(* Build. *)

\* Pairing data is kept in the other byte order than on the NAND.
OnDisk(pd) == Reverse(pd)

\* The first of some values that is good, or else the default.
FirstIn(values, good, default) ==
    LET hits == {i \in DOMAIN values : values[i] \in good}
    IN  IF hits = {} THEN default ELSE values[First(hits)]

\* What a section's metadata say; a CB's lockdown value above 16 is taken for 0.
Pd(section)      == IF section = NoSection THEN <<0, 0>> ELSE Reverse(section.pd)
CfLdvOf(section) == IF section = NoSection THEN 0 ELSE section.ldv
CbLdvOf(section) == IF CfLdvOf(section) > 16 THEN 0 ELSE CfLdvOf(section)

SomePd == (Bytes \X Bytes) \ {<<0, 0>>}

DonorCb == FirstIn(<<donor.boot["cbb"], donor.boot["cba"], donor.boot["cb"]>>, Section, NoSection)

DonorPd == FirstIn(<<Pd(DonorCb), Pd(donor.boot["cf0"])>>, SomePd, <<0, 1>>)

\* The lockdown values: of the CBs, and of the CFs.
CbLdv == FirstIn(<<CbLdvOf(DonorCb)>>, Nat \ {0}, 1)
CfLdv == FirstIn(<<CfLdvOf(donor.boot["cf0"]), CfLdvOf(donor.boot["cf1"])>>, Nat \ {0}, CbLdv)

CbSlots == {"cb", "cba", "cbb"}
CfSlots == {"cf0", "cf1"}

\* Per-console fields for every CB and CF.
PerBox(boot, pd, cbldv, cfldv) ==
    [s \in Slots |->
        IF boot[s] = NoSection \/ s \notin CbSlots \cup CfSlots THEN boot[s]
        ELSE [boot[s] EXCEPT !.pd = OnDisk(pd), !.ldv = IF s \in CfSlots THEN cfldv ELSE cbldv]]

\* A slip: the new image is left to the second pass.
Unpaired(boot) == boot

\* The new image is paired with the dump's console.
Paired(boot) == PerBox(boot, DonorPd, CbLdv, CfLdv)

\* resolve_pairing, resolve_cb_ldv, resolve_cf_ldv: sync_options_to_nand takes the
\* fields from the new image itself and writes them once more.
FirstCb(boot) == FirstIn(<<boot["cba"], boot["cb"]>>, Section, NoSection)

OwnPd(boot) ==
    FirstIn(<<Pd(IF FirstCb(boot) # NoSection THEN FirstCb(boot) ELSE boot["cf0"])>>, SomePd, <<0, 1>>)

OwnCbLdv(boot) == FirstIn(<<CbLdvOf(FirstCb(boot))>>, Nat \ {0}, 1)

OwnCfLdv(boot) ==
    IF options.cfldv # {} THEN CHOOSE v \in options.cfldv : TRUE
    ELSE FirstIn(<<CfLdvOf(boot["cf0"])>>, Nat \ {0}, 1)

\* After it build_in_place finds all CBs and CFs of one mind.
Synced(boot) == PerBox(boot, OwnPd(boot), OwnCbLdv(boot), OwnCfLdv(boot))

\* The files of the new image: the INI's, the dump's fcrt.bin (whatever nofcrt
\* says), then the security files.
merged_flashfs_assets ==
    OrInsert(OrInsert(found.files, Entry("fcrt", NandFcrt(donor))), Packed)

allow == {ini.files[i].name : i \in DOMAIN ini.files} \cup SecurityNames

\* The dump's keyvault replaces the one that was found; what the options write
\* into it leaves it the same console's.
fresh_nand ==
    [Applied EXCEPT
        !.boot  = Synced(Paired(@)),
        !.kv    = IF donor.kv # Empty THEN donor.kv ELSE @,
        !.smcpatched = ~Onef /\ ini.buildtype \in {"glitch1", "glitch2"} /\ world.smcpatch,
        !.files = {[name |-> n, suffix |-> 0, deleted |-> FALSE, data |-> merged_flashfs_assets[n]]
                   : n \in DOMAIN merged_flashfs_assets \cap allow}]

EndBuild ==
    /\ caller = "build"
    /\ stage = "end"
    /\ UNCHANGED <<given, donor, caller, at, patch, found, pool, assets>>
    /\ \/ /\ stage' = "done"
          /\ active' = fresh_nand
          /\ built' = Append(built, fresh_nand)
          /\ UNCHANGED error
       \/ /\ MayFailToParse
          /\ stage' = "failed"
          /\ error' = <<"apply">>
          /\ UNCHANGED <<active, built>>

\* Between two commands another dump is put in the data folder.
ReplaceDump ==
    /\ stage = "done"
    /\ built # <<>>
    /\ stage' = "idle"
    /\ donor' \in Dumps \ {donor}
    /\ UNCHANGED <<given, active, caller, at, error, patch, found, pool, assets, built>>

-----------------------------------------------------------------------------

Init ==
    /\ \E s \in Scenarios : /\ ini = Parsed(s.ini)
                            /\ options = s.options
                            /\ world = s.world
                            /\ donor = s.donor
                            /\ active \in s.session
    /\ caller = "none"
    /\ stage = "idle"
    /\ at = 1
    /\ error = <<>>
    /\ patch = NoPatch
    /\ found = Nothing
    /\ pool = <<>>
    /\ assets = Nothing
    /\ built = <<>>

Next == \/ BeginLoad \/ BeginIni \/ BeginBuild
        \/ ChoosePatch \/ NextStage
        \/ FindSecurity \/ FindSmc \/ FindPayload \/ FindBoot \/ FindFile
        \/ EndLoad \/ EndIni \/ EndBuild \/ ReplaceDump

Spec == Init /\ [][Next]_vars

-----------------------------------------------------------------------------
(* Properties. *)

\* Every part of the search, of the session and of the dump has its type, and a
\* search stands at a line of the list it is searching, or behind the last one.
TypeOK ==
    /\ donor \in Nand \cup {NoNand}
    /\ active \in Nand \cup {NoNand}
    /\ built \in Seq(Nand)
    /\ caller \in {"none", "load", "ini", "build"}
    /\ stage \in {"idle", "patches", "smc", "end", "done", "failed"} \cup (DOMAIN After \ {"smc"})
    /\ stage \in DOMAIN After \ {"smc"} => at \in 1 .. Len(Lines(stage)) + 1
    /\ \A n \in DOMAIN found.boot : found.boot[n] \in Section
    /\ \A n \in DOMAIN found.security : found.security[n] \in Data \cup {Empty}
    /\ \A n \in DOMAIN found.files : found.files[n] \in Data

\* A section is what its line asks for: of its type and version, with its bytes
\* when the INI gives a hash (and the user did not waive it), and patched only
\* where the automatic patch is meant to go.
IsAsListed(line, section) ==
    /\ MatchesName(line, section)
    /\ line.hash # NoHash /\ ~options.gxunsafe => section.sound /\ section.ver = line.hash
    /\ line.hash # NoHash =>
        (section.patched <=> /\ ~options.nochainpatch
                             /\ \/ Name(line) = TargetCb /\ Patches({"cb", "cbb"})
                                \/ line.prefix = "cd" /\ Patches({"cd"}))

\* A built image holds what the INI lists and nothing of an earlier image: every
\* slot the section of the line that names it - also with two update slots, and
\* whichever tier each came from - and no slot that no line names; every listed
\* file once with the bytes it should have, and besides them only security files.
ImageAsListed ==
    caller = "build" /\ stage = "done" =>
        LET image == Last(built) IN
        /\ \A s \in Slots :
            IF LinesOf(s) = {} \/ (image.onef /\ s \in {"cf0", "cf1", "cg0", "cg1"})
            THEN image.boot[s] = NoSection
            ELSE \E i \in LinesOf(s) : /\ \A j \in LinesOf(s) : j <= i
                                       /\ image.boot[s] # NoSection
                                       /\ IsAsListed(ini.main[i], image.boot[s])
        /\ \A i \in DOMAIN ini.files : ~ini.files[i].bypassed =>
            Cardinality({f \in image.files : /\ f.name = ini.files[i].name
                                             /\ AcceptsFile(ini.files[i], f.data)}) = 1
        /\ \A f \in image.files : IsListed(f.name) \/ f.name \in SecurityNames

Folders == {"mydata", "build", "common"}

\* Copies of a line that a failed search should not have passed by: in a folder,
\* in the update file, in the dump - for a line whose slot in the dump its name
\* and its chain agree on.
BootCopies(line) ==
    UNION {Folder(d, line) : d \in Folders}
    \cup (IF IsUpdate(line) THEN UpdateCopies(line, world.xboxupd) ELSE {})
    \cup (IF IsUpdate(line) => line.chain = 0 \/ line.num = 1 THEN FromNand(line) ELSE {})

\* A CF or CG line for which all the containers were looked through.
LookedThrough(line) ==
    /\ IsUpdate(line)
    /\ Folder("mydata", line) \cup Folder("build", line) = {}
    /\ \A updates \in {world.xboxupd} \cup {c.update : c \in ToSet(world.containers)} :
        UpdateCopies(line, updates) = {}

FileCopies(line) ==
    LET shelf == {f \in world.files : f.dir \in Folders \cup {"flashfs"}}
        inside == IF \E i \in DOMAIN ini.main : LookedThrough(ini.main[i])
                  THEN UNION {c.files : c \in ToSet(world.containers)} ELSE {}
        ours  == (UNION ToSet(Copies(shelf, line))) \cup (UNION ToSet(Copies(inside, line)))
        behind == {f.name : f \in SourceNand.files \ LiveFiles(SourceNand)}
    IN  ours \cup (IF SourceNand = NoNand \/ line.name \in behind THEN {}
                   ELSE Copies(LiveFiles(SourceNand), line)[1])

\* A search fails only for a line that has no acceptable copy: one that fails its
\* hash or has another version, in whatever tier, does not hide a good one behind.
\* (FlashFS files inside update containers count once a CF or CG line has made the
\* search look through all of them; a NAND's file counts unless a deleted one of
\* its name stands before it.)
FailsOnlyForMissing ==
    stage = "failed" =>
        CASE error[1] = "boot"  -> BootCopies(ini.main[error[2]]) = {}
          [] error[1] = "files" -> FileCopies(ini.files[error[2]]) = {}
          [] error[1] = "security" ->
                /\ ini.security[error[2]] # "odd"
                /\ \A f \in world.security : f.name = ini.security[error[2]] =>
                                             f.dir = "stfs" /\ options.nosusecurity
          [] OTHER -> TRUE

\* A built image is the console's whose dump lies in the data folder: its CBs and
\* CFs have, byte for byte, the pairing data of that dump's CB and not what a copy
\* from a folder, an earlier build or the session's NAND brought along; its CBs have
\* the dump's lockdown value, and so have its CFs, unless the options give one.  (For
\* an image with a first CB, from which the second pass takes the fields.)
PairedWithDump ==
    caller = "build" /\ stage = "done" =>
        LET image == Last(built) IN
        FirstCb(image.boot) # NoSection =>
            \A s \in CbSlots \cup CfSlots : image.boot[s] # NoSection =>
                /\ Pd(DonorCb) # <<0, 0>> => image.boot[s].pd = DonorCb.pd
                /\ s \in CbSlots /\ CbLdvOf(DonorCb) # 0 => image.boot[s].ldv = DonorCb.ldv
                /\ s \in CfSlots /\ options.cfldv = {} /\ CfLdvOf(donor.boot["cf0"]) # 0 =>
                        image.boot[s].ldv = donor.boot["cf0"].ldv
=============================================================================
