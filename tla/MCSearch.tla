------------------------------ MODULE MCSearch -------------------------------
(* TLC instances of Search: four families of INIs, each with the folders,    *)
(* dumps and options that matter to its lines.                               *)
EXTENDS Search, TLC

Sec(type, ver, sound) == [type |-> type, ver |-> ver, sound |-> sound, patched |-> FALSE,
                          pd |-> <<0, 0>>, ldv |-> 0]

\* A section of the dump's console, and one of another.
Own(type, ver)   == [Sec(type, ver, TRUE) EXCEPT !.pd = <<2, 1>>, !.ldv = 3]
Alien(type, ver) == [Sec(type, ver, TRUE) EXCEPT !.pd = <<1, 0>>, !.ldv = 17]

Raw(prefix, num, hash) == [prefix |-> prefix, num |-> num, hash |-> hash]
File(name, hash)       == [name |-> name, hash |-> hash, bypassed |-> FALSE]

NoFiles  == [patches |-> {}, security |-> {}, smc |-> {[dir |-> "smc", file |-> "CLEAN", data |-> "a"]},
             smcpatch |-> TRUE,
             payloads |-> {}, boot |-> {}, xboxupd |-> {}, containers |-> <<>>, files |-> {}]
NoLines  == [buildtype |-> "retail", main |-> <<>>, security |-> <<>>, payloads |-> <<>>,
             files |-> <<>>]
Defaults == [gxunsafe |-> FALSE, nofcrt |-> FALSE, nosecurity |-> FALSE, nosusecurity |-> FALSE,
             nochainpatch |-> FALSE, cfldv |-> {}]
Dump     == [Blank EXCEPT !.kv = "d", !.smc = "d",
                          !.boot = [@ EXCEPT !["cba"] = Sec("CB", 3, TRUE), !["cd"] = Sec("CD", 2, TRUE),
                                             !["ce"]  = Sec("CE", 2, TRUE)]]

\* Another console's dump.
MCDumps  == {[Dump EXCEPT !.kv = "c", !.boot = [@ EXCEPT !["cba"] = [@ EXCEPT !.pd = <<1, 2>>, !.ldv = 5],
                                                         !["cf0"] = [Own("CF", 2) EXCEPT !.ldv = 4]]]}

\* What the session may hold already, when the dump is this one.
Held(dump) == {NoNand, Blank, dump}

\* A file in each of some folders, one copy each.
Shelves(dirs, copies) == UNION {[d -> copies] : d \in SUBSET dirs}

BootShelf(line, shelf) ==
    {[dir |-> d, name |-> <<line.prefix, line.num>>, section |-> shelf[d]] : d \in DOMAIN shelf}

-----------------------------------------------------------------------------
(* A glitch image: a split CB, a CD and a CF, with an automatic patch. *)

G2(readable) == [file |-> "g2", dir |-> "bin", parts |-> {"cbb", "cd"}, readable |-> readable]

Cba == Raw("cba", 2, 2)
Cbb == Raw("cbb", 2, 2)
Cd(hash) == Raw("cd", 3, hash)

ChainDump == [Dump EXCEPT !.boot = [@ EXCEPT !["cba"] = Own("CB", 2), !["cbb"] = Own("CB", 2),
                                             !["cd"]  = Sec("CD", 3, TRUE), !["cf0"] = Own("CF", 2)]]

Chains ==
    {[ini |-> [NoLines EXCEPT !.buildtype = "glitch2", !.main = <<Cba, Cbb, Cd(hash), Raw("cf", 3, NoHash)>>],
      options |-> o,
      world |-> [NoFiles EXCEPT
                    !.patches = p,
                    !.boot = {[dir |-> "build", name |-> <<"cba", 2>>, section |-> Alien("CB", 2)],
                              [dir |-> "build", name |-> <<"cf", 3>>, section |-> Alien("CF", 3)]}
                             \cup BootShelf(Cbb, cbb) \cup BootShelf(Cd(hash), cd)],
      donor |-> dump, session |-> Held(dump)] :
        hash \in {NoHash, 3},
        o \in {Defaults, [Defaults EXCEPT !.gxunsafe = TRUE],
              [Defaults EXCEPT !.nochainpatch = TRUE, !.cfldv = {0}]},
        p \in {{G2(TRUE)}, {G2(FALSE)}},
        cbb \in Shelves({"mydata", "common"}, {Sec("CB", 2, TRUE), Sec("CB", 2, FALSE), Sec("CB", 3, TRUE)}),
        cd \in Shelves({"common"}, {Sec("CD", 3, FALSE), Sec("CD", 3, TRUE)}),
        dump \in {ChainDump, Dump}}

-----------------------------------------------------------------------------
(* Two update slots, from folders, update files, containers and the dump. *)

Slotted == <<Raw("cf", 0, NoHash), Raw("cg", 0, NoHash), Raw("cf", 1, NoHash), Raw("cg", 1, NoHash)>>
Named   == <<Raw("cf", 2, 2), Raw("cg", 2, NoHash), Raw("cf", 3, 3), Raw("cg", 3, NoHash)>>
Single  == <<Raw("cf", 3, 3), Raw("cg", 3, NoHash)>>

Update(v, sound) == [cf |-> Sec("CF", v, sound), cg |-> Sec("CG", v, TRUE)]

Containers ==
    {[update |-> u, files |-> f] :
        u \in {{}, {Update(2, TRUE)}, {Update(3, TRUE)}},
        f \in {{}, {[name |-> "launch", suffix |-> 1, data |-> "a"]}}}

UpdateDump == [Dump EXCEPT !.boot = [@ EXCEPT !["cf0"] = Own("CF", 2), !["cg0"] = Sec("CG", 2, TRUE),
                                              !["cf1"] = Own("CF", 3), !["cg1"] = Sec("CG", 3, TRUE)]]

Updates ==
    {[ini |-> [NoLines EXCEPT !.main = lines, !.files = files],
      options |-> Defaults,
      world |-> [NoFiles EXCEPT !.boot = shelf, !.xboxupd = upd, !.containers = cs],
      donor |-> dump, session |-> Held(dump)] :
        lines \in {Slotted, Named, Single},
        files \in {<<>>, <<File("launch", "a")>>},
        shelf \in SUBSET ({[dir |-> "common", name |-> <<"cf", 2>>, section |-> Sec("CF", 2, TRUE)],
                           [dir |-> "build", name |-> <<"cf", 3>>, section |-> Sec("CF", 3, FALSE)]}),
        upd \in {{}, {Update(3, TRUE)}, {Update(3, FALSE)}},
        cs \in {<<>>} \cup {<<c>> : c \in Containers},
        dump \in {Dump, UpdateDump}}
    \cup
    {[ini |-> [NoLines EXCEPT !.main = Single, !.files = <<File("launch", hash)>>],
      options |-> Defaults,
      world |-> [NoFiles EXCEPT !.containers = <<c, d>>],
      donor |-> UpdateDump, session |-> Held(UpdateDump)] : hash \in {NoHash, "a"}, c \in Containers, d \in Containers}

-----------------------------------------------------------------------------
(* Security files and FlashFS files. *)

SecurityShelf(name, shelf) == {[dir |-> d, name |-> name, data |-> shelf[d]] : d \in DOMAIN shelf}
FileShelf(suffix, shelf) ==
    {[dir |-> d, name |-> "launch", suffix |-> suffix, data |-> shelf[d]] : d \in DOMAIN shelf}

NandFile(name, deleted, data) == [name |-> name, suffix |-> 0, deleted |-> deleted, data |-> data]

FileDumps == {Dump, [Dump EXCEPT !.files = {NandFile("launch", FALSE, "b")}],
              [Dump EXCEPT !.fcrt = {"d"}, !.files = {NandFile("fcrt", FALSE, "d"),
                                                      NandFile("launch", FALSE, "a")}]}

\* NANDs in which files were deleted, and injected again.
Edited == {[Dump EXCEPT !.files = {NandFile("launch", TRUE, "a")}],
           [Dump EXCEPT !.files = {NandFile("launch", TRUE, "b"), NandFile("launch", FALSE, "a")}]}

Files ==
    {[ini |-> [NoLines EXCEPT !.security = <<"kv", "fcrt", "odd">>, !.files = <<File("launch", hash)>>],
      options |-> o,
      world |-> [NoFiles EXCEPT
                    !.security = {[dir |-> "build", name |-> "kv", data |-> "b"]}
                                 \cup SecurityShelf("fcrt", fcrt),
                    !.files = FileShelf(0, plain) \cup FileShelf(2, second)],
      donor |-> dump, session |-> Held(dump) \cup Edited] :
        hash \in {NoHash, "a"},
        o \in {Defaults, [Defaults EXCEPT !.nofcrt = TRUE], [Defaults EXCEPT !.nosecurity = TRUE],
              [Defaults EXCEPT !.nosusecurity = TRUE]},
        fcrt \in Shelves({"mydata", "stfs"}, {"c"}),
        plain \in Shelves({"mydata"}, {"a", "b"}),
        second \in Shelves({"common", "flashfs"}, {"a"}),
        dump \in FileDumps \cup {NoNand}}

-----------------------------------------------------------------------------
(* Build types, their patch files, SMC and payloads. *)

PatchShelves == SUBSET {[file |-> f, dir |-> d, parts |-> {"cb"}, readable |-> TRUE] :
                            f \in {"g2", "g3", "trinity"}, d \in {"parent"}}

Profiles ==
    {[ini |-> [NoLines EXCEPT !.buildtype = type, !.main = <<Raw("cb", 2, 2), Raw("cf", 2, NoHash)>>,
                              !.payloads = pay],
      options |-> [Defaults EXCEPT !.gxunsafe = unsafe],
      world |-> [NoFiles EXCEPT
                    !.patches = p, !.smc = smc, !.payloads = {[name |-> "xell", data |-> x]},
                    !.boot = {[dir |-> "build", name |-> <<"cb", 2>>, section |-> Sec("CB", 2, TRUE)],
                              [dir |-> "build", name |-> <<"cf", 2>>, section |-> Sec("CF", 2, TRUE)]}],
      donor |-> Dump, session |-> Held(Dump)] :
        type \in {"retail", "glitch1", "glitch3", "rgbuild", "nightly"},
        pay \in {<<>>, <<File("xell", "a")>>}, unsafe \in BOOLEAN, p \in PatchShelves,
        smc \in {{}, {[dir |-> "mydata", file |-> "CLEAN", data |-> "a"],
                      [dir |-> "smc", file |-> "SMC", data |-> "b"]}},
        x \in {"a", "c"}}

MCScenarios == Chains \cup Updates \cup Files \cup Profiles
=============================================================================
