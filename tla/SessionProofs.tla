---------------------------- MODULE SessionProofs ----------------------------
(***************************************************************************)
(* What Session guarantees for every set of images, patches and keys, every *)
(* command line and every batch, however long.                             *)
(*                                                                         *)
(* First, that the sort is one: a batch is executed whole, by falling      *)
(* priority.  Then the invariants that follow from it: a command still to  *)
(* come has a lower priority than those that are done.                     *)
(***************************************************************************)
EXTENDS Session, FiniteSetTheorems, SequenceTheorems, TLAPS

-----------------------------------------------------------------------------
(* The sort. *)

LEMMA ScoreType == ASSUME NEW c \in Commands PROVE Score(c) \in Int
BY DEF Commands, Ops, Score, priority_score, Scores

\* Only Build has the lowest priority.
LEMMA OnlyBuildIsLast ==
    ASSUME NEW c \in Commands
    PROVE  Score(c) <= 0 <=> c.op = "Build"
BY DEF Commands, Ops, Score, priority_score, Scores

LEMMA BatchFacts ==
    ASSUME NEW cs \in Seq(Commands)
    PROVE  /\ DOMAIN cs = 1 .. Len(cs) /\ Len(cs) \in Nat
           /\ IsFiniteSet(DOMAIN cs) /\ Cardinality(DOMAIN cs) = Len(cs)
           /\ \A i \in DOMAIN cs : cs[i] \in Commands /\ Score(cs[i]) \in Int
<1>1. DOMAIN cs = 1 .. Len(cs) /\ Len(cs) \in Nat
  OBVIOUS
<1>2. Len(cs) \in Int /\ 1 \in Int
  BY <1>1
<1>3. IsFiniteSet(1 .. Len(cs))
  BY <1>2, FS_Interval, Zenon
<1>4. Cardinality(1 .. Len(cs)) = IF 1 > Len(cs) THEN 0 ELSE Len(cs) - 1 + 1
  BY <1>2, FS_Interval, Zenon
<1>5. Cardinality(1 .. Len(cs)) = Len(cs)
  BY <1>1, <1>4
<1>6. \A i \in DOMAIN cs : cs[i] \in Commands
  OBVIOUS
<1> QED
  BY <1>1, <1>3, <1>5, <1>6, ScoreType

LEMMA RankRange ==
    ASSUME NEW cs \in Seq(Commands), NEW i \in DOMAIN cs
    PROVE  Rank(cs, i) \in DOMAIN cs
<1> DEFINE before == {j \in DOMAIN cs : Ahead(cs, j, i)}
<1>1. DOMAIN cs = 1 .. Len(cs) /\ Len(cs) \in Nat
  OBVIOUS
<1>2. IsFiniteSet(DOMAIN cs) /\ Cardinality(DOMAIN cs) = Len(cs)
  BY BatchFacts
<1>3. before \in SUBSET DOMAIN cs
  OBVIOUS
<1>4. IsFiniteSet(before) /\ Cardinality(before) <= Len(cs)
  BY <1>2, <1>3, FS_Subset
<1>5. i \in before
  BY <1>1 DEF Ahead
<1>6. Cardinality(before) \in Nat /\ Cardinality(before) # 0
  BY <1>4, <1>5, FS_CardinalityType, FS_EmptySet
<1> QED
  BY <1>1, <1>4, <1>6 DEF Rank

\* A command that goes ahead of another has a lower place.
LEMMA RankFollows ==
    ASSUME NEW cs \in Seq(Commands), NEW i \in DOMAIN cs, NEW k \in DOMAIN cs,
           Ahead(cs, i, k), i # k
    PROVE  Rank(cs, i) < Rank(cs, k)
<1> DEFINE before(n) == {j \in DOMAIN cs : Ahead(cs, j, n)}
<1>1. DOMAIN cs = 1 .. Len(cs) /\ Len(cs) \in Nat
  OBVIOUS
<1>2. \A n \in DOMAIN cs : Score(cs[n]) \in Int
  BY BatchFacts
<1>3. IsFiniteSet(DOMAIN cs)
  BY BatchFacts
<1>4. IsFiniteSet(before(k)) /\ Cardinality(before(k)) \in Nat
  <2>1. before(k) \in SUBSET DOMAIN cs
    OBVIOUS
  <2> QED
    BY <2>1, <1>3, FS_Subset, FS_CardinalityType
<1>5. before(i) \in SUBSET before(k)
  BY <1>1, <1>2 DEF Ahead
<1>6. k \in before(k) /\ k \notin before(i)
  BY <1>1, <1>2 DEF Ahead
<1>7. before(i) # before(k)
  BY <1>6
<1>8. /\ IsFiniteSet(before(i)) /\ Cardinality(before(i)) <= Cardinality(before(k))
      /\ Cardinality(before(k)) # Cardinality(before(i))
  BY <1>4, <1>5, <1>7, FS_Subset
<1>9. Cardinality(before(i)) \in Nat
  BY <1>8, FS_CardinalityType
<1> QED
  BY <1>4, <1>8, <1>9 DEF Rank

LEMMA RankInjective ==
    ASSUME NEW cs \in Seq(Commands), NEW i \in DOMAIN cs, NEW k \in DOMAIN cs,
           Rank(cs, i) = Rank(cs, k)
    PROVE  i = k
<1>1. DOMAIN cs = 1 .. Len(cs) /\ Len(cs) \in Nat
  OBVIOUS
<1>2. Score(cs[i]) \in Int /\ Score(cs[k]) \in Int
  BY BatchFacts
<1>3. Ahead(cs, i, k) \/ Ahead(cs, k, i)
  BY <1>1, <1>2 DEF Ahead
<1>4. Rank(cs, i) \in Int
  BY RankRange, <1>1
<1> QED
  BY <1>3, <1>4, RankFollows

\* Every place of the sorted batch is taken.
LEMMA RankOnto ==
    ASSUME NEW cs \in Seq(Commands), NEW k \in DOMAIN cs
    PROVE  \E i \in DOMAIN cs : Rank(cs, i) = k
<1> DEFINE place == [i \in DOMAIN cs |-> Rank(cs, i)]
<1>1. place \in Injection(DOMAIN cs, DOMAIN cs)
  BY RankRange, RankInjective DEF Injection, IsInjective
<1>2. IsFiniteSet(DOMAIN cs)
  BY BatchFacts
<1>3. place \in Surjection(DOMAIN cs, DOMAIN cs)
  BY <1>1, <1>2, FS_Injection
<1> QED
  BY <1>3 DEF Surjection

\* What the sort does: the sorted batch holds exactly the commands submitted.
LEMMA SortedFacts ==
    ASSUME NEW cs \in Seq(Commands)
    PROVE  /\ Sorted(cs) \in Seq(Commands)
           /\ DOMAIN Sorted(cs) = DOMAIN cs
           /\ \A k \in DOMAIN cs : \E i \in DOMAIN cs : Rank(cs, i) = k /\ Sorted(cs)[k] = cs[i]
           /\ \A i \in DOMAIN cs : Sorted(cs)[Rank(cs, i)] = cs[i]
<1> DEFINE who(k) == CHOOSE i \in DOMAIN cs : Rank(cs, i) = k
<1>1. \A k \in DOMAIN cs : who(k) \in DOMAIN cs /\ Rank(cs, who(k)) = k
  BY RankOnto
<1>2. DOMAIN Sorted(cs) = DOMAIN cs /\ \A k \in DOMAIN cs : Sorted(cs)[k] = cs[who(k)]
  BY DEF Sorted
<1>3. DOMAIN cs = 1 .. Len(cs) /\ Len(cs) \in Nat
  OBVIOUS
<1>4. Sorted(cs) \in [1 .. Len(cs) -> Commands]
  <2>1. \A k \in DOMAIN cs : cs[who(k)] \in Commands
    BY <1>1, <1>3
  <2> QED
    BY <2>1, <1>3 DEF Sorted
<1>5. Sorted(cs) \in Seq(Commands)
  BY <1>3, <1>4
<1>6. \A i \in DOMAIN cs : who(Rank(cs, i)) = i
  BY <1>1, RankRange, RankInjective
<1> QED
  BY <1>1, <1>2, <1>5, <1>6, RankRange

Falling(q) == \A k, l \in DOMAIN q : k < l => Score(q[k]) >= Score(q[l])

LEMMA SortedFalls == ASSUME NEW cs \in Seq(Commands) PROVE Falling(Sorted(cs))
<1> SUFFICES ASSUME NEW k \in DOMAIN cs, NEW l \in DOMAIN cs, k < l
             PROVE  Score(Sorted(cs)[k]) >= Score(Sorted(cs)[l])
  BY SortedFacts DEF Falling
<1>1. PICK i \in DOMAIN cs : Rank(cs, i) = k /\ Sorted(cs)[k] = cs[i]
  BY SortedFacts
<1>2. PICK j \in DOMAIN cs : Rank(cs, j) = l /\ Sorted(cs)[l] = cs[j]
  BY SortedFacts
<1>3. Score(cs[i]) \in Int /\ Score(cs[j]) \in Int
  BY BatchFacts
<1>4. ~(Ahead(cs, j, i) /\ j # i)
  BY <1>1, <1>2, RankFollows
<1> QED
  BY <1>1, <1>2, <1>3, <1>4 DEF Ahead

-----------------------------------------------------------------------------
(* The batches the program makes itself. *)

LEMMA Environs ==
    ASSUME env \in Environments
    PROVE  /\ env.key \in Key /\ env.key_file \in Key
           /\ env.image \in Images \cup {NoFile} /\ env.dump \in Images \cup {NoFile}
           /\ env.ecc \in Eccs \cup {NoFile} /\ env.addons \in Seq(Patches)
           /\ env.mode \in {"build", "extract", "library"}
           /\ env.mobile_file \in BOOLEAN /\ env.nomobile \in BOOLEAN
BY SessionAssumption DEF Environment

LEMMA KeyTypes ==
    ASSUME env \in Environments
    PROVE  load_cpu_key \in Key /\ CliImage \in Images \cup {NoFile} /\ NoKey \in Key
BY Environs DEF load_cpu_key, CliImage, Key

LEMMA PlainTypes ==
    ASSUME NEW op \in Ops \ {"ParseImage", "ApplyEcc", "ApplyPatch"}
    PROVE  Plain(op) \in Commands /\ Plain(op).op = op
BY DEF Plain, Command, Commands, Key

\* The commands of s \o t are those of s and of t.
LEMMA ConcatCommands ==
    ASSUME NEW s \in Seq(Commands), NEW t \in Seq(Commands)
    PROVE  /\ s \o t \in Seq(Commands)
           /\ \A i \in DOMAIN (s \o t) :
                 \/ i \in DOMAIN s /\ (s \o t)[i] = s[i]
                 \/ i - Len(s) \in DOMAIN t /\ (s \o t)[i] = t[i - Len(s)]
           /\ \A i \in DOMAIN s : i \in DOMAIN (s \o t) /\ (s \o t)[i] = s[i]
           /\ \A i \in DOMAIN t : i + Len(s) \in DOMAIN (s \o t) /\ (s \o t)[i + Len(s)] = t[i]
OBVIOUS

Has(cs, op) == \E i \in DOMAIN cs : cs[i].op = op

LEMMA ConcatHas ==
    ASSUME NEW s \in Seq(Commands), NEW t \in Seq(Commands), NEW op
    PROVE  Has(s \o t, op) <=> Has(s, op) \/ Has(t, op)
<1>1. Has(s \o t, op) => Has(s, op) \/ Has(t, op)
  BY ConcatCommands DEF Has
<1>2. Has(s, op) => Has(s \o t, op)
  BY ConcatCommands DEF Has
<1>3. ASSUME NEW i \in DOMAIN t, t[i].op = op
      PROVE  Has(s \o t, op)
  <2>1. i + Len(s) \in DOMAIN (s \o t) /\ (s \o t)[i + Len(s)] = t[i]
    BY ConcatCommands
  <2> QED
    BY <1>3, <2>1 DEF Has
<1> QED
  BY <1>1, <1>2, <1>3 DEF Has

LEMMA OneHas ==
    ASSUME NEW c \in Commands, NEW op
    PROVE  /\ <<c>> \in Seq(Commands)
           /\ Has(<<c>>, op) <=> c.op = op
BY DEF Has

LEMMA AppendHas ==
    ASSUME NEW s \in Seq(Commands), NEW c \in Commands
    PROVE  /\ s \o <<c>> \in Seq(Commands)
           /\ \A op : Has(s \o <<c>>, op) <=> Has(s, op) \/ c.op = op
<1>1. <<c>> \in Seq(Commands)
  BY OneHas
<1>2. s \o <<c>> \in Seq(Commands)
  BY <1>1, ConcatCommands
<1>3. ASSUME NEW op PROVE Has(s \o <<c>>, op) <=> Has(s, op) \/ c.op = op
  BY <1>1, ConcatHas, OneHas
<1> QED
  BY <1>2, <1>3

Sources  == {"ParseImage", "CreateImage"}
Excluded == {"ParseKey", "ParseKeybin", "Clear"}

\* What the callers hand over before the INI: a source for the NAND, and, from
\* the command line, an ECC image to lay over it.
LEMMA CliSourceFacts ==
    ASSUME env \in Environments
    PROVE  /\ CliSource \in Seq(Commands)
           /\ \E op \in Sources : Has(CliSource, op)
           /\ \A op : Has(CliSource, op) => op \in Sources \cup {"ApplyEcc"}
<1>1. CASE CliImage = NoFile
  <2>1. Plain("CreateImage") \in Commands /\ Plain("CreateImage").op = "CreateImage"
    BY PlainTypes DEF Ops
  <2>2. CliSource = <<Plain("CreateImage")>>
    BY <1>1 DEF CliSource
  <2> QED
    BY <2>1, <2>2, OneHas DEF Sources
<1>2. CASE CliImage # NoFile
  <2> DEFINE load == Command("ParseImage", CliImage, NoKey)
             over == Command("ApplyEcc", env.ecc, NoKey)
  <2>1. load \in Commands /\ load.op = "ParseImage"
    BY <1>2, KeyTypes DEF Command, Commands, Ops
  <2>2. over.op = "ApplyEcc" /\ (env.ecc # NoFile => over \in Commands)
    BY Environs, KeyTypes DEF Command, Commands, Ops
  <2>3. CliSource = <<load>> \o IF env.ecc = NoFile THEN <<>> ELSE <<over>>
    BY <1>2 DEF CliSource
  <2> HIDE DEF load, over
  <2>4. <<>> \in Seq(Commands) /\ \A op : ~Has(<<>>, op)
    BY DEF Has
  <2>5. CASE env.ecc = NoFile
    BY <2>1, <2>3, <2>4, <2>5, ConcatHas, ConcatCommands, OneHas DEF Sources
  <2>6. CASE env.ecc # NoFile
    BY <2>1, <2>2, <2>3, <2>6, ConcatHas, ConcatCommands, OneHas DEF Sources
  <2> QED
    BY <2>5, <2>6
<1> QED
  BY <1>1, <1>2

LEMMA AddonsFacts ==
    ASSUME env \in Environments
    PROVE  /\ Addons \in Seq(Commands)
           /\ \A op : Has(Addons, op) => op = "ApplyPatch"
<1>1. \A i \in DOMAIN env.addons : env.addons[i] \in Patches
  BY Environs
<1>2. \A patch \in Patches : Command("ApplyPatch", patch, NoKey) \in Commands
  BY KeyTypes DEF Command, Commands, Ops
<1>3. Addons \in Seq(Commands)
  BY <1>1, <1>2, Environs DEF Addons
<1> QED
  BY <1>3 DEF Addons, Has, Command

\* A batch that ends in the Build, and in no other.
LEMMA OneBuild ==
    ASSUME NEW s \in Seq(Commands), ~Has(s, "Build"),
           NEW i \in DOMAIN (s \o <<Plain("Build")>>), NEW j \in DOMAIN (s \o <<Plain("Build")>>),
           (s \o <<Plain("Build")>>)[i].op = "Build", (s \o <<Plain("Build")>>)[j].op = "Build"
    PROVE  i = j
<1>1. Plain("Build") \in Commands
  BY PlainTypes DEF Ops
<1>2. <<Plain("Build")>> \in Seq(Commands) /\ DOMAIN <<Plain("Build")>> = {1}
  BY <1>1
<1>3. i - Len(s) = 1 /\ j - Len(s) = 1
  BY <1>2, ConcatCommands DEF Has
<1> QED
  BY <1>3

Once(cs, op) == \A i, j \in DOMAIN cs : cs[i].op = op /\ cs[j].op = op => i = j

LEMMA CliBatchFacts ==
    ASSUME env \in Environments
    PROVE  /\ CliBatch \in Seq(Commands)
           /\ Once(CliBatch, "Build")
           /\ \E op \in Sources : Has(CliBatch, op)
           /\ \A op \in {"FinalizeFlashfs", "FinalizeMobile", "ParseIni", "Build"} : Has(CliBatch, op)
           /\ \A op \in Excluded : ~Has(CliBatch, op)
<1> DEFINE ff == Plain("FinalizeFlashfs")
           fm == Plain("FinalizeMobile")
           pi == Plain("ParseIni")
           bd == Plain("Build")
           front == <<ff, fm>> \o CliSource \o <<pi>> \o Addons
<1>1. /\ ff \in Commands /\ ff.op = "FinalizeFlashfs"
      /\ fm \in Commands /\ fm.op = "FinalizeMobile"
      /\ pi \in Commands /\ pi.op = "ParseIni"
      /\ bd \in Commands /\ bd.op = "Build"
  BY PlainTypes DEF Ops
<1>2. CliBatch = front \o <<bd>>
  BY DEF CliBatch
<1> HIDE DEF ff, fm, pi, bd
<1>3. /\ <<ff, fm>> \in Seq(Commands)
      /\ \A op : Has(<<ff, fm>>, op) <=> op \in {"FinalizeFlashfs", "FinalizeMobile"}
  BY <1>1 DEF Has
<1>4. /\ <<ff, fm>> \o CliSource \in Seq(Commands)
      /\ \A op : Has(<<ff, fm>> \o CliSource, op) <=>
                   op \in {"FinalizeFlashfs", "FinalizeMobile"} \/ Has(CliSource, op)
  BY <1>3, CliSourceFacts, ConcatHas, ConcatCommands
<1>5. /\ <<ff, fm>> \o CliSource \o <<pi>> \in Seq(Commands)
      /\ \A op : Has(<<ff, fm>> \o CliSource \o <<pi>>, op) <=>
                   \/ op \in {"FinalizeFlashfs", "FinalizeMobile", "ParseIni"}
                   \/ Has(CliSource, op)
  BY <1>1, <1>4, AppendHas
<1>6. /\ front \in Seq(Commands)
      /\ \A op : Has(front, op) <=>
                   \/ op \in {"FinalizeFlashfs", "FinalizeMobile", "ParseIni"}
                   \/ Has(CliSource, op) \/ Has(Addons, op)
  BY <1>5, AddonsFacts, ConcatHas, ConcatCommands
<1> HIDE DEF front
<1>7. /\ CliBatch \in Seq(Commands)
      /\ \A op : Has(CliBatch, op) <=> Has(front, op) \/ op = "Build"
  BY <1>1, <1>2, <1>6, AppendHas
<1>8. ~Has(front, "Build")
  BY <1>6, CliSourceFacts, AddonsFacts DEF Sources
<1>9. Once(CliBatch, "Build")
  BY <1>2, <1>6, <1>8, OneBuild DEF Once, bd
<1>10. \A op \in Excluded : ~Has(CliBatch, op)
  BY <1>6, <1>7, CliSourceFacts, AddonsFacts DEF Sources, Excluded
<1> QED
  BY <1>6, <1>7, <1>9, <1>10, CliSourceFacts

LEMMA PrepareSourceFacts ==
    ASSUME env \in Environments
    PROVE  /\ PrepareSource \in Seq(Commands)
           /\ active_nand = NoNand => \E op \in Sources : Has(PrepareSource, op)
           /\ \A op : Has(PrepareSource, op) => op \in Sources
<1>1. <<>> \in Seq(Commands) /\ \A op : ~Has(<<>>, op)
  BY DEF Has
<1>2. Plain("CreateImage") \in Commands /\ Plain("CreateImage").op = "CreateImage"
  BY PlainTypes DEF Ops
<1>3. ASSUME env.dump # NoFile
      PROVE  /\ Command("ParseImage", env.dump, NoKey) \in Commands
             /\ Command("ParseImage", env.dump, NoKey).op = "ParseImage"
  BY <1>3, Environs, KeyTypes DEF Command, Commands, Ops
<1>4. CASE active_nand # NoNand
  BY <1>1, <1>4 DEF PrepareSource
<1>5. CASE active_nand = NoNand /\ env.dump # NoFile /\ ~env.plain_name
  BY <1>3, <1>5, OneHas DEF PrepareSource, Sources
<1>6. CASE active_nand = NoNand /\ ~(env.dump # NoFile /\ ~env.plain_name)
  BY <1>2, <1>6, OneHas DEF PrepareSource, Sources
<1> QED
  BY <1>4, <1>5, <1>6

\* The same for the shell's batch; once a key is known, it reads no key file.
LEMMA PrepareBatchFacts ==
    ASSUME env \in Environments, pending_key # NoKey
    PROVE  /\ PrepareBatch \in Seq(Commands)
           /\ Once(PrepareBatch, "Build")
           /\ active_nand = NoNand => \E op \in Sources : Has(PrepareBatch, op)
           /\ \A op \in {"FinalizeFlashfs", "FinalizeMobile", "ParseIni", "Build"} : Has(PrepareBatch, op)
           /\ \A op \in Excluded : ~Has(PrepareBatch, op)
<1> DEFINE ff == Plain("FinalizeFlashfs")
           fm == Plain("FinalizeMobile")
           up == Plain("Update")
           pi == Plain("ParseIni")
           bd == Plain("Build")
           front == <<ff, fm, up>> \o PrepareSource \o PrepareKey \o <<pi>> \o Addons
<1>1. /\ ff \in Commands /\ ff.op = "FinalizeFlashfs"
      /\ fm \in Commands /\ fm.op = "FinalizeMobile"
      /\ up \in Commands /\ up.op = "Update"
      /\ pi \in Commands /\ pi.op = "ParseIni"
      /\ bd \in Commands /\ bd.op = "Build"
  BY PlainTypes DEF Ops
<1>2. PrepareBatch = front \o <<bd>>
  BY DEF PrepareBatch
<1> HIDE DEF ff, fm, up, pi, bd
<1>3. /\ <<ff, fm, up>> \in Seq(Commands)
      /\ \A op : Has(<<ff, fm, up>>, op) <=> op \in {"FinalizeFlashfs", "FinalizeMobile", "Update"}
  BY <1>1 DEF Has
<1>4. /\ PrepareKey = <<>> /\ <<>> \in Seq(Commands)
      /\ \A op : ~Has(<<>>, op)
  BY DEF PrepareKey, Has
<1>5. /\ <<ff, fm, up>> \o PrepareSource \in Seq(Commands)
      /\ \A op : Has(<<ff, fm, up>> \o PrepareSource, op) <=>
                   \/ op \in {"FinalizeFlashfs", "FinalizeMobile", "Update"}
                   \/ Has(PrepareSource, op)
  BY <1>3, PrepareSourceFacts, ConcatHas, ConcatCommands
<1>6. /\ <<ff, fm, up>> \o PrepareSource \o PrepareKey \in Seq(Commands)
      /\ \A op : Has(<<ff, fm, up>> \o PrepareSource \o PrepareKey, op) <=>
                   \/ op \in {"FinalizeFlashfs", "FinalizeMobile", "Update"}
                   \/ Has(PrepareSource, op)
  BY <1>4, <1>5, ConcatHas, ConcatCommands
<1>7. /\ <<ff, fm, up>> \o PrepareSource \o PrepareKey \o <<pi>> \in Seq(Commands)
      /\ \A op : Has(<<ff, fm, up>> \o PrepareSource \o PrepareKey \o <<pi>>, op) <=>
                   \/ op \in {"FinalizeFlashfs", "FinalizeMobile", "Update", "ParseIni"}
                   \/ Has(PrepareSource, op)
  BY <1>1, <1>6, AppendHas
<1>8. /\ front \in Seq(Commands)
      /\ \A op : Has(front, op) <=>
                   \/ op \in {"FinalizeFlashfs", "FinalizeMobile", "Update", "ParseIni"}
                   \/ Has(PrepareSource, op) \/ Has(Addons, op)
  BY <1>7, AddonsFacts, ConcatHas, ConcatCommands
<1> HIDE DEF front
<1>9. /\ PrepareBatch \in Seq(Commands)
      /\ \A op : Has(PrepareBatch, op) <=> Has(front, op) \/ op = "Build"
  BY <1>1, <1>2, <1>8, AppendHas
<1>10. ~Has(front, "Build")
  BY <1>8, PrepareSourceFacts, AddonsFacts DEF Sources
<1>11. Once(PrepareBatch, "Build")
  BY <1>2, <1>8, <1>10, OneBuild DEF Once, bd
<1>12. \A op \in Excluded : ~Has(PrepareBatch, op)
  BY <1>8, <1>9, PrepareSourceFacts, AddonsFacts DEF Sources, Excluded
<1> QED
  BY <1>8, <1>9, <1>11, <1>12, PrepareSourceFacts

-----------------------------------------------------------------------------
(* Types. *)

SessionTypes ==
    /\ active_nand \in Nand \cup {NoNand}
    /\ pending_key \in Key
    /\ option_key \in Key
    /\ fs_assets \in BOOLEAN
    /\ output \in Nand \cup {NoOutput, Torn}
    /\ applied \subseteq Patches

LEMMA BlankType ==
    ASSUME NEW layout \in Layouts
    PROVE  new_blank(layout) \in Nand
BY SessionAssumption DEF new_blank, Nand, Key

LEMMA WithOptionsType ==
    ASSUME NEW nand \in Nand \cup {NoNand}, option_key \in Key
    PROVE  /\ WithOptions(nand) \in Nand \cup {NoNand}
           /\ nand \in Nand => WithOptions(nand) \in Nand
BY SessionAssumption DEF WithOptions, Nand

LEMMA FolderTierType ==
    ASSUME NEW mobile \in {"none", "dump", "folder"}
    PROVE  FolderTier(mobile) \in {"none", "dump", "folder"}
BY DEF FolderTier

LEMMA SkeletonType ==
    ASSUME SessionTypes
    PROVE  fresh_target_skeleton(active_nand) \in Nand
<1>1. new_blank(TargetLayout) \in Nand
  BY BlankType, SessionAssumption
<1>2. CASE active_nand = NoNand
  BY <1>1, <1>2 DEF fresh_target_skeleton, SessionTypes, Nand
<1>3. CASE active_nand # NoNand
  BY <1>1, <1>3 DEF fresh_target_skeleton, SessionTypes, Nand
<1> QED
  BY <1>2, <1>3

LEMMA FreshType ==
    ASSUME SessionTypes, env \in Environments, NEW assets \in BOOLEAN
    PROVE  fresh_nand(assets) \in Nand
<1>1. BuildKey \in Key
  BY DEF BuildKey, SessionTypes
<1>2. new_blank(TargetLayout) \in Nand
  BY BlankType, SessionAssumption
<1>3. FolderTier("none") \in {"none", "dump", "folder"} /\ env.dump \in Images \cup {NoFile}
  BY FolderTierType, Environs
<1> QED
  BY <1>1, <1>2, <1>3 DEF fresh_nand, Nand

\* Every command finds a batch running, and succeeds or fails.
LEMMA ExecuteFrame ==
    ASSUME TypeOK, Execute
    PROVE  /\ status = "running" /\ queue \in Seq(Commands) /\ queue # <<>>
           /\ Head(queue) \in Commands /\ Now(Head(queue).op)
           /\ Succeed \/ Fail
<1>1. status = "running" /\ Now(Head(queue).op)
  BY DEF Execute, Now, ParseImage, CreateImage, ApplyEcc, ParseKey, ParseIni, ParseFlashfs,
         FinalizeFlashfs, FinalizeMobile, ApplyPatch, ApplyOptions, Clear, ExtractAll,
         SwapBootloader, ApplySmcSignature, ReadOnly, Unfailing, Build
<1>2. Succeed \/ Fail
  BY DEF Execute, ParseImage, CreateImage, ApplyEcc, ParseKey, ParseIni, ParseFlashfs,
         FinalizeFlashfs, FinalizeMobile, ApplyPatch, ApplyOptions, Clear, ExtractAll,
         SwapBootloader, ApplySmcSignature, ReadOnly, Unfailing, Build
<1>3. queue \in Seq(Commands) /\ queue # <<>>
  BY <1>1 DEF TypeOK
<1> QED
  BY <1>1, <1>2, <1>3

\* A command that succeeds leaves a NAND that is there, Clear excepted; what
\* loads one loads one.
Loads ==
    /\ ~failed'
    /\ \/ active_nand # NoNand /\ Head(queue).op # "Clear"
       \/ Head(queue).op \in {"ParseImage", "CreateImage"}
    => active_nand' \in Nand

LEMMA ExecuteTypes == TypeOK /\ Execute => SessionTypes' /\ Loads
<1> SUFFICES ASSUME TypeOK, Execute PROVE SessionTypes' /\ Loads
  OBVIOUS
<1> DEFINE c == Head(queue)
<1>1. c \in Commands
  BY ExecuteFrame
<1>2. /\ c.key \in Key
      /\ c.op = "ParseImage" => c.file \in Images
      /\ c.op = "ApplyEcc" => c.file \in Eccs
      /\ c.op = "ApplyPatch" => c.file \in Patches
  BY <1>1 DEF Commands
<1>3. SessionTypes /\ env \in Environments
  BY DEF TypeOK, SessionTypes
<1>4. CASE ParseImage
  <2>1. ASSUME NEW image \in Images, NEW key \in Key
        PROVE  Parsed(image, key) \in Nand
    <3>1. LayoutOf[image] \in Layouts
      BY SessionAssumption
    <3>2. new_blank(LayoutOf[image]) \in Nand
      BY <3>1, BlankType
    <3> DEFINE mobile == IF image \in MobileImages /\ ~env.nomobile THEN "dump" ELSE "none"
    <3>3. mobile \in {"none", "dump", "folder"}
      OBVIOUS
    <3>4. Parsed(image, key) = [new_blank(LayoutOf[image]) EXCEPT
                                  !.source = image, !.key = key, !.fs = "dump", !.mobile = mobile]
      BY DEF Parsed
    <3> HIDE DEF mobile
    <3> QED
      BY <3>2, <3>3, <3>4 DEF Nand
  <2>2. c.file \in Images
    BY <1>2, <1>4 DEF ParseImage, Now
  <2> QED
    BY <1>2, <1>3, <1>4, <2>1, <2>2 DEF ParseImage, SessionTypes, Quiet, session, Loads, Fail
<1>5. CASE CreateImage
  BY <1>3, <1>5, BlankType DEF CreateImage, EndsWith, SessionTypes, Loads, Fail, Now
<1>6. CASE ApplyEcc
  <2>1. c.file \in Eccs
    BY <1>2, <1>6 DEF ApplyEcc, Now
  <2>2. ASSUME active_nand # NoNand
        PROVE  [active_nand EXCEPT !.ini = FALSE, !.patches = {}, !.eccs = @ \cup {c.file}] \in Nand
    BY <1>3, <2>1, <2>2 DEF SessionTypes, Nand
  <2> QED
    BY <1>3, <1>6, <2>2 DEF ApplyEcc, EndsWith, SessionTypes, Loads, Fail, Now
<1>7. CASE ParseKey
  <2>1. ASSUME active_nand # NoNand
        PROVE  [active_nand EXCEPT !.key = c.key] \in Nand
    BY <1>2, <1>3, <2>1 DEF SessionTypes, Nand
  <2> QED
    BY <1>2, <1>3, <1>7, <2>1 DEF ParseKey, SessionTypes, Loads, Fail, Now
<1>8. CASE ParseIni
  <2>1. fresh_target_skeleton(active_nand) \in Nand
    BY <1>3, SkeletonType
  <2> QED
    BY <1>3, <1>8, <2>1 DEF ParseIni, SessionTypes, Loads, Fail, Now
<1>9. CASE ParseFlashfs \/ FinalizeFlashfs
  <2>1. ASSUME NEW fs \in {"folder", "assets", "empty"}, active_nand # NoNand
        PROVE  [active_nand EXCEPT !.fs = fs] \in Nand
    BY <1>3, <2>1 DEF SessionTypes, Nand
  <2> QED
    BY <1>3, <1>9, <2>1 DEF ParseFlashfs, FinalizeFlashfs, EndsWith, SessionTypes, Loads, Fail, Now
<1>10. CASE FinalizeMobile
  <2>1. ASSUME active_nand # NoNand
        PROVE  [active_nand EXCEPT !.mobile = FolderTier(@)] \in Nand
    BY <1>3, <2>1, FolderTierType DEF SessionTypes, Nand
  <2> QED
    BY <1>3, <1>10, <2>1 DEF FinalizeMobile, EndsWith, SessionTypes, Loads, Fail, Now
<1>11. CASE ApplyPatch
  <2>1. c.file \in Patches
    BY <1>2, <1>11 DEF ApplyPatch, Now
  <2>2. ASSUME active_nand # NoNand
        PROVE  [active_nand EXCEPT !.patches = @ \cup {c.file}] \in Nand
    BY <1>3, <2>1, <2>2 DEF SessionTypes, Nand
  <2> QED
    BY <1>3, <1>11, <2>1, <2>2 DEF ApplyPatch, EndsWith, SessionTypes, Loads, Fail, Now
<1>12. CASE ApplyOptions
  BY <1>3, <1>12, WithOptionsType DEF ApplyOptions, EndsWith, SessionTypes, Loads, Fail, Now
<1>13. CASE Clear
  BY <1>3, <1>13, KeyTypes DEF Clear, SessionTypes, Loads, Fail, Now
<1>14. CASE ExtractAll \/ SwapBootloader \/ ApplySmcSignature \/ ReadOnly \/ Unfailing
  BY <1>3, <1>14 DEF ExtractAll, SwapBootloader, ApplySmcSignature, ReadOnly, Unfailing,
                     Quiet, session, SessionTypes, Loads, Fail, Now
<1>15. CASE Build
  <2>1. UNCHANGED <<pending_key, option_key, fs_assets, applied>>
    BY <1>15 DEF Build
  <2>2. CASE Fail /\ UNCHANGED <<active_nand, output>>
    BY <1>3, <2>1, <2>2 DEF SessionTypes, Loads, Fail
  <2>3. CASE /\ \E assets \in BOOLEAN : active_nand' = WithOptions(fresh_nand(assets))
             /\ \/ output' \in {output, Torn}
                \/ output' = [active_nand' EXCEPT !.key = BuildKey]
    <3>1. BuildKey \in Key
      BY <1>3 DEF BuildKey, SessionTypes
    <3>2. ASSUME NEW assets \in BOOLEAN PROVE fresh_nand(assets) \in Nand
      BY <1>3, FreshType
    <3>3. active_nand' \in Nand
      BY <1>3, <2>3, <3>2, WithOptionsType DEF SessionTypes
    <3>4. [active_nand' EXCEPT !.key = BuildKey] \in Nand
      BY <3>1, <3>3 DEF Nand
    <3> QED
      BY <1>3, <2>1, <2>3, <3>3, <3>4 DEF SessionTypes, Loads
  <2> QED
    BY <1>15, <2>2, <2>3 DEF Build
<1> QED
  BY <1>4, <1>5, <1>6, <1>7, <1>8, <1>9, <1>10, <1>11, <1>12, <1>13, <1>14, <1>15 DEF Execute

\* A batch that starts is sorted and holds the commands that were submitted.
LEMMA StartFacts ==
    ASSUME NEW cs \in Seq(Commands), cs # <<>>, NEW who \in {"cli", "prepare", "direct"},
           Start(who, cs)
    PROVE  /\ queue' \in Seq(Commands) /\ queue' # <<>> /\ Falling(queue')
           /\ status' = "running" /\ caller' = who /\ batch' = cs /\ applied' = {} /\ failed' = FALSE
           /\ \A op : Has(queue', op) <=> Has(cs, op)
           /\ Once(cs, "Build") => Once(queue', "Build")
<1>1. queue' = Sorted(cs)
  BY DEF Start
<1>2. Sorted(cs) \in Seq(Commands) /\ DOMAIN Sorted(cs) = DOMAIN cs /\ Falling(Sorted(cs))
  BY SortedFacts, SortedFalls
<1>3. Sorted(cs) # <<>>
  <2>1. 1 \in DOMAIN cs
    OBVIOUS
  <2>2. DOMAIN <<>> = {}
    OBVIOUS
  <2> QED
    BY <1>2, <2>1, <2>2
<1>4. ASSUME NEW op PROVE Has(Sorted(cs), op) <=> Has(cs, op)
  <2>1. Has(Sorted(cs), op) => Has(cs, op)
    BY SortedFacts DEF Has
  <2>2. ASSUME NEW i \in DOMAIN cs, cs[i].op = op PROVE Has(Sorted(cs), op)
    <3>1. Rank(cs, i) \in DOMAIN cs
      BY RankRange
    <3>2. Sorted(cs)[Rank(cs, i)] = cs[i]
      BY SortedFacts
    <3> QED
      BY <1>2, <2>2, <3>1, <3>2 DEF Has
  <2> QED
    BY <2>1, <2>2 DEF Has
<1>5. ASSUME Once(cs, "Build") PROVE Once(Sorted(cs), "Build")
  <2> SUFFICES ASSUME NEW k \in DOMAIN cs, NEW l \in DOMAIN cs,
                      Sorted(cs)[k].op = "Build", Sorted(cs)[l].op = "Build"
               PROVE  k = l
    BY <1>2 DEF Once
  <2>1. PICK i \in DOMAIN cs : Rank(cs, i) = k /\ Sorted(cs)[k] = cs[i]
    BY SortedFacts
  <2>2. PICK j \in DOMAIN cs : Rank(cs, j) = l /\ Sorted(cs)[l] = cs[j]
    BY SortedFacts
  <2> QED
    BY <1>5, <2>1, <2>2 DEF Once
<1> QED
  BY <1>1, <1>2, <1>3, <1>4, <1>5 DEF Start

\* The batch of the extract command.
ExtractBatch == <<Command("ParseImage", CliImage, NoKey), Plain("ExtractAll")>>

LEMMA ExtractBatchFacts ==
    ASSUME env \in Environments, CliImage # NoFile
    PROVE  /\ ExtractBatch \in Seq(Commands) /\ ExtractBatch # <<>>
           /\ Has(ExtractBatch, "ParseImage")
           /\ \A op \in Excluded \cup {"Build"} : ~Has(ExtractBatch, op)
<1> DEFINE load == Command("ParseImage", CliImage, NoKey)
           save == Plain("ExtractAll")
<1>1. load \in Commands /\ load.op = "ParseImage"
  BY KeyTypes DEF Command, Commands, Ops
<1>2. save \in Commands /\ save.op = "ExtractAll"
  BY PlainTypes DEF Ops
<1>3. ExtractBatch = <<load, save>>
  BY DEF ExtractBatch
<1> HIDE DEF load, save
<1> QED
  BY <1>1, <1>2, <1>3 DEF Has, Excluded

\* The commands a script or the shell gives one by one.
LEMMA SingleFacts ==
    ASSUME env \in Environments
    PROVE  /\ <<Plain("ExtractAll")>> \in Seq(Commands) /\ <<Plain("ExtractAll")>> # <<>>
           /\ \A op \in Excluded : ~Has(<<Plain("ExtractAll")>>, op)
           /\ \A ecc \in Eccs :
                 /\ <<Command("ApplyEcc", ecc, NoKey)>> \in Seq(Commands)
                 /\ <<Command("ApplyEcc", ecc, NoKey)>> # <<>>
                 /\ \A op \in Excluded : ~Has(<<Command("ApplyEcc", ecc, NoKey)>>, op)
<1>1. Plain("ExtractAll") \in Commands /\ Plain("ExtractAll").op = "ExtractAll"
  BY PlainTypes DEF Ops
<1>2. ASSUME NEW ecc \in Eccs
      PROVE  Command("ApplyEcc", ecc, NoKey) \in Commands /\ Command("ApplyEcc", ecc, NoKey).op = "ApplyEcc"
  BY KeyTypes DEF Command, Commands, Ops
<1> QED
  BY <1>1, <1>2, OneHas DEF Excluded

LEMMA NonEmpty ==
    ASSUME NEW cs \in Seq(Commands), NEW op, Has(cs, op)
    PROVE  cs # <<>>
BY DEF Has

Callers == CliBuild \/ CliExtract \/ Prepare \/ ApplyEccNow \/ ExtractNow \/ Submit

\* What the types need of the callers that start a batch.
LEMMA CallerTypes == TypeOK /\ Callers /\ (Prepare => pending_key # NoKey) => TypeOK'
<1> SUFFICES ASSUME TypeOK, Callers, Prepare => pending_key # NoKey PROVE TypeOK'
  OBVIOUS
<1>1. env \in Environments /\ SessionTypes
  BY DEF TypeOK, SessionTypes
<1>2. load_cpu_key \in Key
  BY <1>1, KeyTypes
<1>3. ASSUME status = "start" \/ status = "idle", Exit
      PROVE  TypeOK'
  BY <1>3 DEF TypeOK, Exit, session, history
<1>4. ASSUME NEW cs \in Seq(Commands), cs # <<>>, NEW who \in {"cli", "prepare", "direct"},
             Start(who, cs), env' = env, output' = output, active_nand' = active_nand,
             pending_key' \in Key, option_key' \in Key, fs_assets' \in BOOLEAN,
             submitted' \in 0 .. MaxBatches
      PROVE  TypeOK'
  BY <1>1, <1>4, StartFacts DEF TypeOK, SessionTypes
<1>5. CASE CliBuild
  <2>1. CliBatch \in Seq(Commands) /\ CliBatch # <<>>
    BY <1>1, CliBatchFacts, NonEmpty
  <2> QED
    BY <1>1, <1>2, <1>3, <1>4, <1>5, <2>1 DEF CliBuild, TypeOK
<1>6. CASE CliExtract
  <2>1. CliImage # NoFile => ExtractBatch \in Seq(Commands) /\ ExtractBatch # <<>>
    BY <1>1, ExtractBatchFacts
  <2> QED
    BY <1>1, <1>2, <1>3, <1>4, <1>6, <2>1 DEF CliExtract, ExtractBatch, TypeOK
<1>7. CASE Prepare
  <2>1. PrepareBatch \in Seq(Commands) /\ PrepareBatch # <<>>
    BY <1>1, <1>7, PrepareBatchFacts, NonEmpty
  <2> QED
    BY <1>1, <1>4, <1>7, <2>1 DEF Prepare, TypeOK, session
<1>8. CASE ApplyEccNow \/ ExtractNow
  BY <1>1, <1>4, <1>8, SingleFacts DEF ApplyEccNow, ExtractNow, TypeOK, session
<1>9. CASE Submit
  <2>1. \A cs \in Batches : cs # <<>> /\ cs \in Seq(Commands)
    BY SessionAssumption
  <2>2. submitted + 1 \in 0 .. MaxBatches
    BY <1>9, SessionAssumption DEF Submit, TypeOK
  <2> QED
    BY <1>1, <1>4, <1>9, <2>1, <2>2 DEF Submit, TypeOK, session
<1> QED
  BY <1>5, <1>6, <1>7, <1>8, <1>9 DEF Callers

LEMMA TailFacts ==
    ASSUME NEW q \in Seq(Commands), q # <<>>
    PROVE  /\ Tail(q) \in Seq(Commands) /\ Head(q) = q[1] /\ 1 \in DOMAIN q
           /\ \A i \in DOMAIN Tail(q) : i + 1 \in DOMAIN q /\ Tail(q)[i] = q[i + 1]
           /\ \A i \in DOMAIN q : i # 1 => i - 1 \in DOMAIN Tail(q) /\ Tail(q)[i - 1] = q[i]
           /\ (Tail(q) = <<>>) <=> (Len(q) = 1)
<1>1. Len(q) \in Nat /\ Len(q) # 0 /\ DOMAIN q = 1 .. Len(q) /\ Head(q) = q[1]
  OBVIOUS
<1>2. Tail(q) \in Seq(Commands)
  OBVIOUS
<1>3. Len(Tail(q)) = Len(q) - 1
  OBVIOUS
<1>4. DOMAIN Tail(q) = 1 .. Len(q) - 1
  BY <1>2, <1>3
<1>5. \A i \in 1 .. Len(q) - 1 : Tail(q)[i] = q[i + 1]
  OBVIOUS
<1>6. \A i \in DOMAIN Tail(q) : i + 1 \in DOMAIN q /\ Tail(q)[i] = q[i + 1]
  BY <1>1, <1>4, <1>5
<1>7. ASSUME NEW i \in DOMAIN q, i # 1
      PROVE  i - 1 \in DOMAIN Tail(q) /\ Tail(q)[i - 1] = q[i]
  <2>1. i - 1 \in 1 .. Len(q) - 1 /\ (i - 1) + 1 = i
    BY <1>1, <1>7
  <2> QED
    BY <1>4, <1>5, <2>1
<1>8. (Tail(q) = <<>>) <=> (Len(q) = 1)
  <2> DEFINE rest == Tail(q)
  <2>1. rest \in Seq(Commands) /\ Len(rest) = Len(q) - 1
    BY <1>2, <1>3
  <2> HIDE DEF rest
  <2>2. (rest = <<>>) <=> (Len(rest) = 0)
    BY <2>1, EmptySeq
  <2>3. (rest = <<>>) <=> (Len(q) = 1)
    BY <1>1, <2>1, <2>2
  <2> QED
    BY <2>3 DEF rest
<1> QED
  <2>1. Head(q) = q[1] /\ 1 \in DOMAIN q
    BY <1>1
  <2>2. \A i \in DOMAIN q : i # 1 => i - 1 \in DOMAIN Tail(q) /\ Tail(q)[i - 1] = q[i]
    BY <1>7
  <2> QED
    BY <2>1, <2>2, <1>2, <1>6, <1>8, Zenon

LEMMA RunTypes == TypeOK /\ Execute => TypeOK'
<1> SUFFICES ASSUME TypeOK, Execute PROVE TypeOK'
  OBVIOUS
<1>1. SessionTypes'
  BY ExecuteTypes
<1>2. UNCHANGED <<env, caller, batch, submitted>>
  BY ExecuteFrame DEF Now
<1>3. /\ queue' \in Seq(Commands)
      /\ status' \in {"start", "running", "idle", "exited"}
      /\ status' = "running" <=> queue' # <<>>
      /\ failed' \in BOOLEAN
  <2>1. queue \in Seq(Commands) /\ queue # <<>> /\ failed \in BOOLEAN
    BY ExecuteFrame DEF TypeOK
  <2>2. CASE Fail
    BY <2>2 DEF Fail
  <2>3. CASE Succeed
    BY <2>1, <2>3, TailFacts DEF Succeed
  <2> QED
    BY <2>2, <2>3, ExecuteFrame
<1> QED
  BY <1>1, <1>2, <1>3 DEF TypeOK, SessionTypes

-----------------------------------------------------------------------------
(* The inductive invariant: what is done, and what is still to come. *)

AtMost(q, op) == \A i \in DOMAIN q : Score(q[i]) <= priority_score[op]

\* A batch of the command line or of prepare_build is running.
Own == status = "running" /\ caller \in {"cli", "prepare"}

Comes(op) == Has(queue, op)
Past(op)  == AtMost(queue, op)

InOrder == status = "running" => ~failed /\ Falling(queue)

KeyKnown ==
    /\ env.mode = "build" /\ status \in {"running", "idle"}
       => pending_key # NoKey /\ option_key = pending_key
    /\ env.mode # "library" => \A op \in Excluded : ~Comes(op)
    /\ Own => env.mode # "library"

SourceThere == Own => \/ active_nand # NoNand
                      \/ \E op \in Sources : Comes(op)

Assembled == /\ active_nand # NoNand
             /\ active_nand.ini
             /\ active_nand.layout = TargetLayout
             /\ active_nand.key = pending_key
Filed     == active_nand.fs = IF fs_assets THEN "assets" ELSE "empty"
Mobiled   == active_nand.mobile = FolderTier(active_nand.mobile)
Patched   == applied \subseteq active_nand.patches

\* As long as the Build is to come, each part of the NAND it needs is either
\* there, with nothing left in the queue that would undo it, or to come as well.
Complete ==
    Own /\ Comes("Build") =>
        /\ env.mode = "build"
        /\ Once(queue, "Build")
        /\ \/ Comes("ParseIni")
           \/ Past("ParseIni") /\ Assembled
        /\ \/ Comes("FinalizeFlashfs")
           \/ Past("FinalizeFlashfs") /\ Filed
        /\ \/ Comes("FinalizeMobile")
           \/ Past("FinalizeMobile") /\ Mobiled
        /\ \/ applied = {}
           \/ Past("ApplyPatch") /\ Patched

IInv == TypeOK /\ InOrder /\ KeyKnown /\ SourceThere /\ Complete

LEMMA ScoreFacts ==
    /\ priority_score["ParseIni"] = 100 /\ priority_score["FinalizeFlashfs"] = 90
    /\ priority_score["FinalizeMobile"] = 89 /\ priority_score["ApplyPatch"] = 79
    /\ \A c \in Commands :
          /\ c.op \in Sources => Score(c) = 150
          /\ c.op \in {"ApplyEcc", "ParseIni", "FinalizeFlashfs", "FinalizeMobile",
                       "ApplyPatch", "ExtractAll", "Build"} => Score(c) < 150
          /\ c.op \in {"ParseIni", "ParseFlashfs", "ParsePatch"} => Score(c) = 100
          /\ c.op = "FinalizeFlashfs" => Score(c) = 90
          /\ c.op = "FinalizeMobile" => Score(c) = 89
          /\ c.op \in {"ExtractAll", "Replace", "ApplyOptions"} => Score(c) \in 80 .. 88
BY DEF Commands, Ops, Score, priority_score, Scores, Sources

\* Only these have a score of at most 100, and only these one of at most 90, 89
\* and 79.
LEMMA LowScores ==
    ASSUME NEW c \in Commands
    PROVE  /\ Score(c) <= 100 =>
                c.op \in {"ParseIni", "ParseFlashfs", "ParsePatch", "FinalizeFlashfs",
                          "FinalizeMobile", "ExtractAll", "Replace", "Clear", "ApplyOptions",
                          "ApplyPatch", "ApplySmcSignature", "Compress", "Build"}
           /\ Score(c) <= 90 =>
                c.op \in {"FinalizeFlashfs", "FinalizeMobile", "ExtractAll", "Replace", "Clear",
                          "ApplyOptions", "ApplyPatch", "ApplySmcSignature", "Compress", "Build"}
           /\ Score(c) <= 89 =>
                c.op \in {"FinalizeMobile", "ExtractAll", "Replace", "Clear", "ApplyOptions",
                          "ApplyPatch", "ApplySmcSignature", "Compress", "Build"}
           /\ Score(c) <= 79 =>
                c.op \in {"ApplyPatch", "ApplySmcSignature", "Compress", "Build"}
           /\ Score(c) > 79 => c.op # "ApplyPatch"
BY DEF Commands, Ops, Score, priority_score, Scores

\* The first command of a sorted batch has the highest priority.
LEMMA HeadIsHighest ==
    ASSUME NEW q \in Seq(Commands), q # <<>>, Falling(q), NEW i \in DOMAIN q
    PROVE  Score(q[i]) <= Score(Head(q))
<1>1. 1 \in DOMAIN q /\ Head(q) = q[1] /\ (i = 1 \/ 1 < i)
  BY BatchFacts
<1>2. Score(q[i]) \in Int /\ Score(q[1]) \in Int
  BY <1>1, BatchFacts
<1> QED
  BY <1>1, <1>2 DEF Falling

LEMMA AtMostFacts ==
    ASSUME NEW q \in Seq(Commands), q # <<>>, Falling(q), NEW op \in Ops
    PROVE  /\ AtMost(q, op) => AtMost(Tail(q), op) /\ Score(Head(q)) <= priority_score[op]
           /\ Head(q).op = op => AtMost(q, op)
           /\ AtMost(q, op) => \A i \in DOMAIN q : Score(q[i]) <= priority_score[op]
<1>1. AtMost(q, op) => AtMost(Tail(q), op)
  BY TailFacts DEF AtMost
<1>2. AtMost(q, op) => Score(Head(q)) <= priority_score[op]
  BY TailFacts DEF AtMost
<1>3. Head(q).op = op => AtMost(q, op)
  BY HeadIsHighest DEF AtMost, Score
<1> QED
  BY <1>1, <1>2, <1>3 DEF AtMost

\* What is left of a sorted batch when its first command is done.
LEMMA RestFacts ==
    ASSUME NEW q \in Seq(Commands), q # <<>>, Falling(q)
    PROVE  /\ Falling(Tail(q))
           /\ \A op : Has(Tail(q), op) => Has(q, op)
           /\ \A op : Has(q, op) => op = Head(q).op \/ Has(Tail(q), op)
           /\ Has(q, Head(q).op)
           /\ Once(q, "Build") => Once(Tail(q), "Build")
           /\ Once(q, "Build") /\ Head(q).op = "Build" => ~Has(Tail(q), "Build")
<1>1. \A i \in DOMAIN Tail(q) : i \in Int /\ i + 1 \in DOMAIN q /\ i + 1 # 1 /\ Tail(q)[i] = q[i + 1]
  BY TailFacts, BatchFacts
<1>2. Falling(Tail(q))
  BY <1>1 DEF Falling
<1>3. \A op : Has(Tail(q), op) => Has(q, op)
  BY <1>1 DEF Has
<1>4. ASSUME NEW op, NEW i \in DOMAIN q, q[i].op = op, op # Head(q).op
      PROVE  Has(Tail(q), op)
  BY <1>4, TailFacts DEF Has
<1>5. Has(q, Head(q).op)
  BY TailFacts DEF Has
<1>6. Once(q, "Build") => Once(Tail(q), "Build")
  <2> SUFFICES ASSUME Once(q, "Build"),
                      NEW i \in DOMAIN Tail(q), NEW j \in DOMAIN Tail(q),
                      Tail(q)[i].op = "Build", Tail(q)[j].op = "Build"
               PROVE  i = j
    BY DEF Once
  <2>1. i + 1 = j + 1
    BY <1>1 DEF Once
  <2> QED
    BY <1>1, <2>1
<1>7. ASSUME Once(q, "Build"), Head(q).op = "Build", NEW i \in DOMAIN Tail(q), Tail(q)[i].op = "Build"
      PROVE  FALSE
  BY <1>1, <1>7, TailFacts DEF Once
<1> QED
  <2>1. \A op : Has(q, op) => op = Head(q).op \/ Has(Tail(q), op)
    BY <1>4 DEF Has
  <2>2. Once(q, "Build") /\ Head(q).op = "Build" => ~Has(Tail(q), "Build")
    BY <1>7 DEF Has
  <2> QED
    BY <1>2, <1>3, <1>5, <1>6, <2>1, <2>2

-----------------------------------------------------------------------------
(* Every step keeps the invariant. *)

\* A build session never changes its key.
LEMMA KeysStay ==
    ASSUME TypeOK, KeyKnown, Execute, env.mode = "build"
    PROVE  UNCHANGED <<pending_key, option_key>> /\ Head(queue).op \notin Excluded
<1>1. status = "running" /\ queue \in Seq(Commands) /\ queue # <<>>
  BY ExecuteFrame
<1>2. pending_key # NoKey /\ option_key = pending_key /\ Head(queue).op \notin Excluded
  BY <1>1, TailFacts DEF KeyKnown, Comes, Has
<1>3. ~ParseKey /\ ~Clear
  BY <1>2 DEF ParseKey, Clear, Now, Excluded
<1> QED
  BY <1>2, <1>3 DEF Execute, ParseImage, CreateImage, ApplyEcc, ParseIni, ParseFlashfs,
       FinalizeFlashfs, FinalizeMobile, ApplyPatch, ApplyOptions, ExtractAll, SwapBootloader,
       ApplySmcSignature, ReadOnly, Unfailing, Build, Quiet, session, EndsWith

LEMMA PatchesStay ==
    ASSUME Execute, Head(queue).op # "ApplyPatch"
    PROVE  applied' = applied
BY DEF Execute, ParseImage, CreateImage, ApplyEcc, ParseKey, ParseIni, ParseFlashfs,
       FinalizeFlashfs, FinalizeMobile, ApplyPatch, ApplyOptions, Clear, ExtractAll,
       SwapBootloader, ApplySmcSignature, ReadOnly, Unfailing, Build, Quiet, Now

LEMMA KeyKnownStep ==
    ASSUME TypeOK, InOrder, KeyKnown, Execute
    PROVE  KeyKnown'
<1>1. /\ status = "running" /\ queue \in Seq(Commands) /\ queue # <<>>
      /\ UNCHANGED <<env, caller>>
      /\ Succeed \/ Fail
  BY ExecuteFrame DEF Now
<1>2. env.mode = "build" => UNCHANGED <<pending_key, option_key>>
  BY KeysStay
<1>3. ASSUME NEW op, Has(queue', op) PROVE Has(queue, op)
  <2>1. CASE Fail
    BY <1>3, <2>1 DEF Fail, Has
  <2>2. CASE Succeed
    <3>1. Falling(queue)
      BY <1>1 DEF InOrder
    <3> QED
      BY <1>1, <1>3, <2>2, <3>1, RestFacts DEF Succeed
  <2> QED
    BY <1>1, <2>1, <2>2
<1>4. (env.mode # "library" => \A op \in Excluded : ~Comes(op))'
  BY <1>1, <1>3 DEF KeyKnown, Comes
<1>5. (Own => env.mode # "library")'
  BY <1>1 DEF KeyKnown, Own
<1>6. (env.mode = "build" /\ status \in {"running", "idle"}
       => pending_key # NoKey /\ option_key = pending_key)'
  BY <1>1, <1>2 DEF KeyKnown
<1> QED
  BY <1>4, <1>5, <1>6 DEF KeyKnown

\* The action of each command of low priority.
LEMMA WhichAction ==
    ASSUME Execute
    PROVE  /\ Head(queue).op = "ParseIni" => ParseIni
           /\ Head(queue).op = "ParseFlashfs" => ParseFlashfs
           /\ Head(queue).op = "FinalizeFlashfs" => FinalizeFlashfs
           /\ Head(queue).op = "FinalizeMobile" => FinalizeMobile
           /\ Head(queue).op = "ApplyPatch" => ApplyPatch
           /\ Head(queue).op = "ApplyOptions" => ApplyOptions
           /\ Head(queue).op = "Build" => Build
           /\ Head(queue).op \in {"ParsePatch", "ExtractAll", "Replace", "ApplySmcSignature",
                                  "Compress"} => Quiet
BY DEF Execute, ParseImage, CreateImage, ApplyEcc, ParseKey, ParseIni, ParseFlashfs,
       FinalizeFlashfs, FinalizeMobile, ApplyPatch, ApplyOptions, Clear, ExtractAll,
       SwapBootloader, ApplySmcSignature, ReadOnly, Unfailing, Build, Now

\* What a command of low priority does to the parts of the NAND.
LEMMA LowEffects ==
    ASSUME TypeOK, KeyKnown, Execute, ~failed', env.mode = "build",
           Score(Head(queue)) <= 100, Head(queue).op # "Build"
    PROVE  /\ Head(queue).op = "ParseIni" \/ Assembled => Assembled'
           /\ Assembled /\ (Head(queue).op = "FinalizeFlashfs" \/ (Score(Head(queue)) <= 90 /\ Filed))
              => Filed'
           /\ Assembled /\ (Head(queue).op = "FinalizeMobile" \/ (Score(Head(queue)) <= 89 /\ Mobiled))
              => Mobiled'
           /\ Assembled /\ (applied = {} \/ Patched) /\ Score(Head(queue)) <= 79 => Patched'
<1> DEFINE c == Head(queue)
<1>1. /\ c \in Commands /\ env \in Environments /\ env' = env
      /\ active_nand \in Nand \cup {NoNand}
      /\ pending_key' = pending_key /\ option_key' = option_key
      /\ c.op \notin Excluded /\ pending_key # NoKey /\ option_key = pending_key
  BY ExecuteFrame, KeysStay DEF TypeOK, KeyKnown, Now
<1>2. active_nand' \in Nand \/ active_nand = NoNand
  BY <1>1, ExecuteTypes DEF Loads, Excluded
<1>3. ~Fail
  BY DEF Fail
<1>4. active_nand # NoNand => active_nand \in Nand
  BY <1>1
<1>5. CASE c.op = "ParseIni"
  <2>1. Score(c) = 100
    BY <1>5, ScoreFacts DEF Score
  <2>2. ParseIni
    BY <1>5, WhichAction
  <2>3. active_nand' = fresh_target_skeleton(active_nand)
    BY <1>3, <2>2 DEF ParseIni
  <2>4. fresh_target_skeleton(active_nand).ini /\ fresh_target_skeleton(active_nand).layout = TargetLayout
        /\ fresh_target_skeleton(active_nand).key = pending_key
    BY <1>1 DEF fresh_target_skeleton, new_blank
  <2>5. fresh_target_skeleton(active_nand) # NoNand
    BY SkeletonType, SessionAssumption DEF TypeOK, SessionTypes
  <2> QED
    BY <1>1, <1>5, <2>1, <2>3, <2>4, <2>5 DEF Assembled
<1>6. ASSUME NEW fs, active_nand \in Nand, active_nand' = [active_nand EXCEPT !.fs = fs],
             UNCHANGED <<pending_key, applied>>
      PROVE  Assembled => Assembled' /\ (Mobiled => Mobiled') /\ (Patched => Patched')
  BY <1>1, <1>2, <1>4, <1>6, SessionAssumption DEF Assembled, Mobiled, Patched, Nand, FolderTier
<1>7. CASE c.op = "ParseFlashfs"
  <2>1. Score(c) = 100 /\ ParseFlashfs
    BY <1>1, <1>7, ScoreFacts, WhichAction
  <2>2. CASE active_nand' = active_nand
    BY <1>1, <1>7, <2>1, <2>2 DEF Assembled
  <2>3. CASE active_nand # NoNand /\ active_nand' = [active_nand EXCEPT !.fs = "folder"]
    BY <1>1, <1>4, <1>6, <1>7, <2>1, <2>3 DEF ParseFlashfs
  <2> QED
    BY <1>3, <2>1, <2>2, <2>3 DEF ParseFlashfs, EndsWith
<1>8. CASE c.op = "FinalizeFlashfs"
  <2>1. Score(c) = 90 /\ FinalizeFlashfs
    BY <1>1, <1>8, ScoreFacts, WhichAction
  <2>2. CASE active_nand = NoNand
    BY <1>1, <1>8, <2>1, <2>2 DEF Assembled
  <2>3. CASE active_nand # NoNand
    <3> DEFINE fs == IF fs_assets THEN "assets" ELSE "empty"
    <3>1. active_nand' = [active_nand EXCEPT !.fs = fs] /\ fs_assets' = fs_assets /\ applied' = applied
      BY <2>1, <2>3 DEF FinalizeFlashfs, EndsWith
    <3>2. Assembled => Assembled'
      BY <1>1, <1>4, <1>6, <2>3, <3>1
    <3>3. Filed'
      BY <1>4, <2>3, <3>1 DEF Filed, Nand
    <3> QED
      BY <1>8, <2>1, <3>2, <3>3
  <2> QED
    BY <2>2, <2>3
<1>9. CASE c.op = "FinalizeMobile"
  <2>1. Score(c) = 89 /\ FinalizeMobile
    BY <1>1, <1>9, ScoreFacts, WhichAction
  <2>2. CASE active_nand = NoNand
    BY <1>1, <1>9, <2>1, <2>2 DEF Assembled
  <2>3. CASE active_nand # NoNand
    <3>1. /\ active_nand' = [active_nand EXCEPT !.mobile = FolderTier(active_nand.mobile)]
          /\ fs_assets' = fs_assets
      BY <2>1, <2>3 DEF FinalizeMobile, EndsWith
    <3>2. active_nand' # NoNand
      BY <1>2, <2>3, SessionAssumption
    <3>3. (Assembled => Assembled') /\ (Filed => Filed')
      BY <1>1, <1>4, <2>3, <3>1, <3>2 DEF Assembled, Filed, Nand
    <3>4. Mobiled'
      BY <1>1, <1>4, <2>3, <3>1 DEF Mobiled, FolderTier, Nand
    <3> QED
      BY <1>9, <2>1, <3>3, <3>4
  <2> QED
    BY <2>2, <2>3
<1>10. CASE c.op = "ApplyPatch"
  <2>1. ApplyPatch /\ c.op \notin {"ParseIni", "FinalizeFlashfs", "FinalizeMobile"}
    BY <1>1, <1>10, WhichAction
  <2>2. CASE active_nand' = active_nand /\ applied' = applied /\ fs_assets' = fs_assets
    BY <1>1, <2>1, <2>2 DEF Assembled, Filed, Mobiled, Patched, FolderTier
  <2>3. CASE /\ active_nand # NoNand
             /\ active_nand' = [active_nand EXCEPT !.patches = @ \cup {c.file}]
             /\ applied' = applied \cup {c.file}
             /\ fs_assets' = fs_assets
    <3>1. active_nand' # NoNand
      BY <1>2, <2>3, SessionAssumption
    <3>2. (Assembled => Assembled') /\ (Filed => Filed') /\ (Mobiled => Mobiled')
      BY <1>1, <1>4, <2>3, <3>1 DEF Assembled, Filed, Mobiled, FolderTier, Nand
    <3>3. applied = {} \/ Patched => Patched'
      BY <1>4, <2>3 DEF Patched, Nand
    <3> QED
      BY <2>1, <3>2, <3>3
  <2> QED
    BY <1>3, <2>1, <2>2, <2>3 DEF ApplyPatch, EndsWith
<1>11. CASE c.op = "ApplyOptions"
  <2>1. Score(c) \in 80 .. 88 /\ ApplyOptions
    BY <1>1, <1>11, ScoreFacts, WhichAction
  <2>2. CASE active_nand = NoNand
    BY <1>1, <1>11, <2>1, <2>2 DEF Assembled
  <2>3. CASE active_nand # NoNand
    <3>1. active_nand' = [active_nand EXCEPT !.key = pending_key] /\ fs_assets' = fs_assets
      BY <1>1, <2>1, <2>3 DEF ApplyOptions, EndsWith, WithOptions
    <3>2. active_nand' # NoNand
      BY <1>2, <2>3, SessionAssumption
    <3>3. (Assembled => Assembled') /\ (Filed => Filed') /\ (Mobiled => Mobiled')
      BY <1>1, <1>4, <2>3, <3>1, <3>2 DEF Assembled, Filed, Mobiled, FolderTier, Nand
    <3> QED
      BY <1>11, <2>1, <3>3
  <2> QED
    BY <2>2, <2>3
<1>12. CASE c.op \in {"ParsePatch", "ExtractAll", "Replace", "ApplySmcSignature", "Compress"}
  <2>1. UNCHANGED <<active_nand, fs_assets, applied>>
    BY <1>12, WhichAction DEF Quiet, session
  <2> QED
    BY <1>1, <1>12, <2>1 DEF Assembled, Filed, Mobiled, Patched, FolderTier
<1> QED
  BY <1>1, <1>5, <1>7, <1>8, <1>9, <1>10, <1>11, <1>12, LowScores DEF Excluded

\* While a batch goes on, its first command has succeeded.
LEMMA GoesOn ==
    ASSUME TypeOK, InOrder, Execute, status' = "running"
    PROVE  /\ queue' = Tail(queue) /\ ~failed' /\ Falling(queue) /\ UNCHANGED <<env, caller>>
           /\ status = "running" /\ queue \in Seq(Commands) /\ queue # <<>>
           /\ Head(queue) \in Commands
<1>1. status = "running" /\ Head(queue) \in Commands /\ UNCHANGED <<env, caller>>
  BY ExecuteFrame DEF Now
<1>2. ~Fail
  BY <1>1 DEF Fail
<1> QED
  BY <1>1, <1>2, ExecuteFrame DEF Succeed, InOrder

LEMMA InOrderStep ==
    ASSUME TypeOK, InOrder, Execute
    PROVE  InOrder'
<1> SUFFICES ASSUME status' = "running" PROVE ~failed' /\ Falling(queue')
  BY DEF InOrder
<1> QED
  BY GoesOn, RestFacts

LEMMA SourceThereStep ==
    ASSUME TypeOK, InOrder, KeyKnown, SourceThere, Execute
    PROVE  SourceThere'
<1> SUFFICES ASSUME Own' PROVE (active_nand # NoNand \/ \E op \in Sources : Comes(op))'
  BY DEF SourceThere
<1>1. /\ status' = "running" /\ queue' = Tail(queue) /\ ~failed'
      /\ queue \in Seq(Commands) /\ queue # <<>> /\ Falling(queue)
  BY GoesOn DEF Own
<1>2. Own
  BY GoesOn DEF Own
<1>3. Head(queue).op # "Clear"
  BY <1>1, <1>2, RestFacts DEF KeyKnown, Comes, Excluded
<1>4. ~(active_nand' \in Nand) => active_nand = NoNand /\ Head(queue).op \notin Sources
  BY <1>1, <1>3, ExecuteTypes DEF Loads, Sources
<1>5. ASSUME active_nand' = NoNand
      PROVE  \E op \in Sources : Has(queue', op)
  <2>1. active_nand = NoNand /\ Head(queue).op \notin Sources
    BY <1>4, <1>5, SessionAssumption
  <2>2. PICK op \in Sources : Has(queue, op)
    BY <1>2, <2>1 DEF SourceThere, Comes
  <2> QED
    BY <1>1, <2>1, <2>2, RestFacts
<1> QED
  BY <1>5 DEF Comes

\* A command that is to come is not of a higher priority than the first one.
LEMMA ComesLower ==
    ASSUME NEW q \in Seq(Commands), q # <<>>, Falling(q), NEW op \in Ops, Has(q, op)
    PROVE  priority_score[op] <= Score(Head(q))
BY HeadIsHighest DEF Has, Score

LEMMA CompleteStep ==
    ASSUME TypeOK, InOrder, KeyKnown, Complete, Execute
    PROVE  Complete'
<1> SUFFICES ASSUME Own', Comes("Build")'
             PROVE  /\ env'.mode = "build"
                    /\ Once(queue', "Build")
                    /\ (Comes("ParseIni") \/ (Past("ParseIni") /\ Assembled))'
                    /\ (Comes("FinalizeFlashfs") \/ (Past("FinalizeFlashfs") /\ Filed))'
                    /\ (Comes("FinalizeMobile") \/ (Past("FinalizeMobile") /\ Mobiled))'
                    /\ (applied = {} \/ (Past("ApplyPatch") /\ Patched))'
  BY DEF Complete
<1> DEFINE c == Head(queue)
<1>1. /\ queue' = Tail(queue) /\ ~failed' /\ UNCHANGED <<env, caller>> /\ Own
      /\ queue \in Seq(Commands) /\ queue # <<>> /\ Falling(queue) /\ c \in Commands
  BY GoesOn DEF Own
<1>2. Comes("Build") /\ Once(queue, "Build")
  BY <1>1, RestFacts DEF Comes, Complete
<1>3. /\ env.mode = "build"
      /\ Comes("ParseIni") \/ (Past("ParseIni") /\ Assembled)
      /\ Comes("FinalizeFlashfs") \/ (Past("FinalizeFlashfs") /\ Filed)
      /\ Comes("FinalizeMobile") \/ (Past("FinalizeMobile") /\ Mobiled)
      /\ applied = {} \/ (Past("ApplyPatch") /\ Patched)
  BY <1>1, <1>2 DEF Complete
<1>4. Once(queue', "Build") /\ c.op # "Build"
  BY <1>1, <1>2, RestFacts DEF Comes
<1>5. /\ "ParseIni" \in Ops /\ "FinalizeFlashfs" \in Ops
      /\ "FinalizeMobile" \in Ops /\ "ApplyPatch" \in Ops
  BY DEF Ops
<1>6. Score(c) \in Int
  BY <1>1, ScoreType
<1>7. ASSUME NEW op, Comes(op), c.op # op
      PROVE  Comes(op)'
  BY <1>1, <1>7, RestFacts DEF Comes
<1>8. ASSUME NEW op \in Ops, Past(op) \/ c.op = op
      PROVE  Past(op)' /\ Score(c) <= priority_score[op]
  BY <1>1, <1>8, AtMostFacts DEF Past
<1>9. CASE Score(c) > 100
  <2>1. c.op \notin {"ParseIni", "FinalizeFlashfs", "FinalizeMobile", "ApplyPatch"}
    BY <1>5, <1>6, <1>8, <1>9, ScoreFacts
  <2>2. Comes("ParseIni") /\ Comes("FinalizeFlashfs") /\ Comes("FinalizeMobile") /\ applied = {}
    BY <1>3, <1>5, <1>6, <1>8, <1>9, ScoreFacts
  <2>3. applied' = {}
    BY <2>1, <2>2, PatchesStay
  <2> QED
    BY <1>1, <1>3, <1>4, <1>7, <2>1, <2>2, <2>3
<1>10. CASE Score(c) <= 100
  <2>1. /\ c.op = "ParseIni" \/ Assembled => Assembled'
        /\ Assembled /\ (c.op = "FinalizeFlashfs" \/ (Score(c) <= 90 /\ Filed)) => Filed'
        /\ Assembled /\ (c.op = "FinalizeMobile" \/ (Score(c) <= 89 /\ Mobiled)) => Mobiled'
        /\ Assembled /\ (applied = {} \/ Patched) /\ Score(c) <= 79 => Patched'
    BY <1>1, <1>3, <1>4, <1>10, LowEffects
  <2>2. Score(c) < 100 => Assembled
    <3>1. Comes("ParseIni") => 100 <= Score(c)
      BY <1>1, <1>5, ComesLower, ScoreFacts DEF Comes
    <3> QED
      BY <1>3, <1>6, <3>1
  <2>3. (Comes("ParseIni") \/ (Past("ParseIni") /\ Assembled))'
    BY <1>3, <1>5, <1>7, <1>8, <2>1
  <2>4. (Comes("FinalizeFlashfs") \/ (Past("FinalizeFlashfs") /\ Filed))'
    BY <1>3, <1>5, <1>6, <1>7, <1>8, <2>1, <2>2, ScoreFacts
  <2>5. (Comes("FinalizeMobile") \/ (Past("FinalizeMobile") /\ Mobiled))'
    BY <1>3, <1>5, <1>6, <1>7, <1>8, <2>1, <2>2, ScoreFacts
  <2>6. (applied = {} \/ (Past("ApplyPatch") /\ Patched))'
    <3>1. CASE c.op = "ApplyPatch" \/ Past("ApplyPatch")
      BY <1>3, <1>5, <1>6, <1>8, <2>1, <2>2, <3>1, ScoreFacts
    <3>2. CASE c.op # "ApplyPatch" /\ ~Past("ApplyPatch")
      BY <1>3, <3>2, PatchesStay
    <3> QED
      BY <3>1, <3>2
  <2> QED
    BY <1>1, <1>3, <1>4, <2>3, <2>4, <2>5, <2>6
<1> QED
  BY <1>6, <1>9, <1>10

LEMMA ExecuteIInv == IInv /\ Execute => IInv'
BY RunTypes, InOrderStep, KeyKnownStep, SourceThereStep, CompleteStep DEF IInv

\* A caller starts a batch from what earlier ones have left.
LEMMA CallerIInv == IInv /\ Callers => IInv'
<1> SUFFICES ASSUME IInv, Callers PROVE IInv'
  OBVIOUS
<1>1. TypeOK /\ KeyKnown /\ env \in Environments
  BY DEF IInv, TypeOK
<1>2. Prepare => pending_key # NoKey
  BY <1>1 DEF Prepare, KeyKnown
<1>3. TypeOK'
  BY <1>1, <1>2, CallerTypes
<1>4. ASSUME status \in {"start", "idle"}, Exit
      PROVE  IInv'
  <2>1. queue = <<>>
    BY <1>1, <1>4 DEF TypeOK
  <2>2. InOrder' /\ SourceThere' /\ Complete'
    BY <1>4 DEF Exit, InOrder, SourceThere, Complete, Own
  <2>3. KeyKnown'
    BY <1>4, <2>1 DEF Exit, KeyKnown, Own, Comes, Has
  <2> QED
    BY <1>3, <2>2, <2>3 DEF IInv
<1>5. ASSUME NEW cs \in Seq(Commands), cs # <<>>, NEW who \in {"cli", "prepare", "direct"},
             Start(who, cs), env' = env, active_nand' = active_nand,
             env.mode = "build" => pending_key' # NoKey /\ option_key' = pending_key',
             env.mode # "library" => \A op \in Excluded : ~Has(cs, op),
             who # "direct" =>
                /\ env.mode # "library"
                /\ active_nand = NoNand => \E op \in Sources : Has(cs, op)
                /\ Has(cs, "Build") =>
                      /\ env.mode = "build" /\ Once(cs, "Build")
                      /\ \A op \in {"FinalizeFlashfs", "FinalizeMobile", "ParseIni"} : Has(cs, op)
      PROVE  IInv'
  <2>1. /\ queue' \in Seq(Commands) /\ queue' # <<>> /\ Falling(queue')
        /\ status' = "running" /\ caller' = who /\ applied' = {} /\ failed' = FALSE
        /\ \A op : Has(queue', op) <=> Has(cs, op)
        /\ Once(cs, "Build") => Once(queue', "Build")
    BY <1>5, StartFacts
  <2>2. InOrder'
    BY <2>1 DEF InOrder
  <2>3. KeyKnown'
    BY <1>5, <2>1 DEF KeyKnown, Comes, Own
  <2>4. SourceThere'
    BY <1>5, <2>1 DEF SourceThere, Comes, Own
  <2>5. Complete'
    BY <1>5, <2>1 DEF Complete, Comes, Own
  <2> QED
    BY <1>3, <2>2, <2>3, <2>4, <2>5 DEF IInv
<1>6. CASE CliBuild
  <2>1. CliBatch \in Seq(Commands) /\ CliBatch # <<>>
    BY <1>1, CliBatchFacts, NonEmpty
  <2> QED
    BY <1>1, <1>4, <1>5, <1>6, <2>1, CliBatchFacts DEF CliBuild
<1>7. CASE CliExtract
  BY <1>1, <1>4, <1>5, <1>7, ExtractBatchFacts DEF CliExtract, ExtractBatch, Sources
<1>8. CASE Prepare
  <2>1. PrepareBatch \in Seq(Commands) /\ PrepareBatch # <<>>
    BY <1>1, <1>2, <1>8, PrepareBatchFacts, NonEmpty
  <2>2. pending_key # NoKey /\ option_key = pending_key
    BY <1>1, <1>8 DEF Prepare, KeyKnown
  <2> QED
    BY <1>1, <1>5, <1>8, <2>1, <2>2, PrepareBatchFacts DEF Prepare, session
<1>9. ASSUME status = "idle", UNCHANGED session, env' = env
      PROVE  env.mode = "build" => pending_key' # NoKey /\ option_key' = pending_key'
  BY <1>1, <1>9 DEF KeyKnown, session
<1>10. CASE ApplyEccNow \/ ExtractNow
  BY <1>1, <1>5, <1>9, <1>10, SingleFacts DEF ApplyEccNow, ExtractNow, session
<1>11. CASE Submit
  <2>1. \A cs \in Batches : cs # <<>> /\ cs \in Seq(Commands)
    BY SessionAssumption
  <2> QED
    BY <1>1, <1>5, <1>9, <1>11, <2>1 DEF Submit, session
<1> QED
  BY <1>6, <1>7, <1>8, <1>10, <1>11 DEF Callers

LEMMA InitIInv == Init => IInv
<1> SUFFICES ASSUME Init PROVE IInv
  OBVIOUS
<1>1. queue = <<>> /\ status \in {"start", "idle"} /\ status # "running"
  BY DEF Init
<1>2. TypeOK
  <2>1. <<>> \in Seq(Commands) /\ NoKey \in Key
    BY DEF Key
  <2>2. queue \in Seq(Commands) /\ batch \in Seq(Commands)
    BY <2>1 DEF Init
  <2>3. /\ env \in Environments /\ active_nand = NoNand /\ fs_assets \in BOOLEAN
        /\ output = NoOutput /\ caller = "cli" /\ applied \subseteq Patches
        /\ failed \in BOOLEAN /\ submitted = 0
        /\ pending_key \in Key /\ option_key \in Key
    BY <2>1 DEF Init, GivenKeys
  <2>4. submitted \in 0 .. MaxBatches
    BY <2>3, SessionAssumption
  <2> QED
    BY <1>1, <2>1, <2>2, <2>3, <2>4 DEF TypeOK
<1>3. InOrder /\ SourceThere /\ Complete
  BY <1>1 DEF InOrder, SourceThere, Complete, Own
<1>4. KeyKnown
  BY <1>1 DEF Init, KeyKnown, Own, Comes, Has
<1> QED
  BY <1>2, <1>3, <1>4 DEF IInv

LEMMA StutterIInv == IInv /\ UNCHANGED vars => IInv'
BY DEF IInv, TypeOK, InOrder, KeyKnown, SourceThere, Complete, Own, Comes, Past, Has, AtMost,
       Once, Falling, Assembled, Filed, Mobiled, Patched, FolderTier, vars, session, history

LEMMA Invariance == Spec => []IInv
<1>1. IInv /\ [Next]_vars => IInv'
  BY ExecuteIInv, CallerIInv, StutterIInv DEF Next, Callers
<1> QED
  BY InitIInv, <1>1, PTL DEF Spec

-----------------------------------------------------------------------------
(* Patches and Builds. *)

\* Until the first Build of a batch is executed there is no command to come, once a
\* patch is applied, that has a higher priority, and the NAND has the patches.
PatchOrder ==
    status = "running" =>
        /\ Cardinality(Builds(queue)) <= Cardinality(Builds(batch))
        /\ Len(queue) >= Cardinality(Builds(batch)) /\ applied # {}
           => Past("ApplyPatch") /\ active_nand # NoNand /\ Patched

LEMMA BuildsFinite ==
    ASSUME NEW cs \in Seq(Commands)
    PROVE  /\ Builds(cs) \in SUBSET DOMAIN cs
           /\ IsFiniteSet(Builds(cs)) /\ Cardinality(Builds(cs)) \in Nat
<1>1. Builds(cs) \in SUBSET DOMAIN cs /\ IsFiniteSet(DOMAIN cs)
  BY BatchFacts DEF Builds
<1> QED
  BY <1>1, FS_Subset, FS_CardinalityType

\* The sort adds no Build.
LEMMA SortedBuilds ==
    ASSUME NEW cs \in Seq(Commands)
    PROVE  Cardinality(Builds(Sorted(cs))) <= Cardinality(Builds(cs))
<1> DEFINE who(k) == CHOOSE i \in DOMAIN cs : Rank(cs, i) = k /\ Sorted(cs)[k] = cs[i]
           f == [k \in Builds(Sorted(cs)) |-> who(k)]
<1>1. \A k \in DOMAIN cs : who(k) \in DOMAIN cs /\ Rank(cs, who(k)) = k /\ Sorted(cs)[k] = cs[who(k)]
  BY SortedFacts
<1>2. \A k \in Builds(Sorted(cs)) : k \in DOMAIN cs /\ Sorted(cs)[k].op = "Build"
  BY SortedFacts DEF Builds
<1>3. \A k \in Builds(Sorted(cs)) : who(k) \in Builds(cs) /\ Rank(cs, who(k)) = k
  BY <1>1, <1>2 DEF Builds
<1> HIDE DEF who
<1>4. f \in Injection(Builds(Sorted(cs)), Builds(cs))
  BY <1>3 DEF Injection, IsInjective
<1> QED
  BY <1>4, BuildsFinite, FS_Injection

\* Nor does a step; the Build that is executed is no longer to come.
LEMMA TailBuilds ==
    ASSUME NEW q \in Seq(Commands), q # <<>>
    PROVE  /\ Cardinality(Builds(Tail(q))) <= Cardinality(Builds(q))
           /\ Len(Tail(q)) = Len(q) - 1 /\ Len(q) \in Nat
<1> DEFINE f == [i \in Builds(Tail(q)) |-> i + 1]
<1>1. \A i \in Builds(Tail(q)) : i \in Int /\ i + 1 \in Builds(q)
  <2>1. Tail(q) \in Seq(Commands)
    BY TailFacts
  <2>2. DOMAIN Tail(q) \subseteq Int
    BY <2>1, BatchFacts
  <2> QED
    BY <2>2, TailFacts DEF Builds
<1>2. f \in Injection(Builds(Tail(q)), Builds(q))
  BY <1>1 DEF Injection, IsInjective
<1>3. Len(Tail(q)) = Len(q) - 1 /\ Len(q) \in Nat
  OBVIOUS
<1> QED
  BY <1>2, <1>3, BuildsFinite, FS_Injection

\* A Build at the front of a sorted batch means that only Builds are left.
LEMMA OnlyBuildsLeft ==
    ASSUME NEW q \in Seq(Commands), q # <<>>, Falling(q), Head(q).op = "Build"
    PROVE  Cardinality(Builds(q)) = Len(q)
<1>1. Head(q) \in Commands /\ Score(Head(q)) <= 0 /\ Score(Head(q)) \in Int
  BY TailFacts, BatchFacts, OnlyBuildIsLast
<1>2. \A i \in DOMAIN q : q[i] \in Commands /\ Score(q[i]) \in Int /\ Score(q[i]) <= Score(Head(q))
  BY BatchFacts, HeadIsHighest
<1>3. \A i \in DOMAIN q : q[i].op = "Build"
  BY <1>1, <1>2, OnlyBuildIsLast
<1>4. Builds(q) = DOMAIN q
  BY <1>3 DEF Builds
<1> QED
  BY <1>4, BatchFacts

LEMMA PatchOrderStep ==
    ASSUME TypeOK, InOrder, PatchOrder, Execute
    PROVE  PatchOrder'
<1> SUFFICES ASSUME status' = "running"
             PROVE  /\ Cardinality(Builds(queue')) <= Cardinality(Builds(batch'))
                    /\ Len(queue') >= Cardinality(Builds(batch')) /\ applied' # {}
                       => Past("ApplyPatch")' /\ active_nand' # NoNand /\ Patched'
  BY DEF PatchOrder
<1> DEFINE c == Head(queue)
           n == Cardinality(Builds(batch))
<1>1. /\ queue' = Tail(queue) /\ ~failed' /\ Falling(queue) /\ status = "running"
      /\ queue \in Seq(Commands) /\ queue # <<>> /\ c \in Commands
  BY GoesOn
<1>2. batch' = batch /\ batch \in Seq(Commands)
  BY ExecuteFrame DEF Now, TypeOK
<1>3. n \in Nat /\ Cardinality(Builds(queue)) \in Nat /\ Cardinality(Builds(Tail(queue))) \in Nat
  BY <1>1, <1>2, TailFacts, BuildsFinite
<1>4. /\ Cardinality(Builds(Tail(queue))) <= Cardinality(Builds(queue))
      /\ Len(Tail(queue)) = Len(queue) - 1 /\ Len(queue) \in Nat
  BY <1>1, TailBuilds
<1>5. /\ Cardinality(Builds(queue)) <= n
      /\ Len(queue) >= n /\ applied # {} => Past("ApplyPatch") /\ active_nand # NoNand /\ Patched
  BY <1>1 DEF PatchOrder
<1>6. Cardinality(Builds(queue')) <= Cardinality(Builds(batch'))
  BY <1>1, <1>2, <1>3, <1>4, <1>5
<1>7. ASSUME Len(queue') >= Cardinality(Builds(batch')), applied' # {}
      PROVE  Past("ApplyPatch")' /\ active_nand' # NoNand /\ Patched'
  <2>1. Len(queue) > n
    BY <1>1, <1>2, <1>3, <1>4, <1>7
  <2>2. c.op # "Build"
    BY <1>1, <1>3, <1>5, <2>1, OnlyBuildsLeft
  <2>3. "ApplyPatch" \in Ops /\ Score(c) \in Int /\ priority_score["ApplyPatch"] = 79
    BY <1>1, ScoreType, ScoreFacts DEF Ops
  <2>4. applied # {} => Past("ApplyPatch") /\ active_nand # NoNand /\ Patched
    BY <1>3, <1>4, <1>5, <2>1
  <2>5. Past("ApplyPatch") \/ c.op = "ApplyPatch" => Past("ApplyPatch")' /\ Score(c) <= 79
    BY <1>1, <2>3, AtMostFacts DEF Past
  <2>6. CASE c.op = "ApplyPatch"
    <3>1. ApplyPatch
      BY <2>6, WhichAction
    <3>2. CASE active_nand' = active_nand /\ applied' = applied
      BY <1>7, <2>4, <2>5, <3>2 DEF Patched
    <3>3. CASE /\ active_nand # NoNand
               /\ active_nand' = [active_nand EXCEPT !.patches = @ \cup {c.file}]
               /\ applied' = applied \cup {c.file}
      <4>1. active_nand \in Nand
        BY <3>3 DEF TypeOK
      <4>2. active_nand' \in Nand
        BY <1>1, <2>6, <3>3, ExecuteTypes DEF Loads
      <4>3. active_nand'.patches = active_nand.patches \cup {c.file}
        BY <3>3, <4>1 DEF Nand
      <4>4. applied \subseteq active_nand.patches
        BY <2>4 DEF Patched
      <4> QED
        BY <2>5, <2>6, <3>3, <4>2, <4>3, <4>4, SessionAssumption DEF Patched
    <3> QED
      BY <1>1, <3>1, <3>2, <3>3 DEF ApplyPatch, EndsWith, Fail
  <2>7. CASE c.op # "ApplyPatch"
    <3>1. applied' = applied /\ applied # {}
      BY <1>7, <2>7, PatchesStay
    <3>2. Past("ApplyPatch")' /\ Score(c) <= 79
      BY <2>4, <2>5, <3>1
    <3>3. c.op \in {"ApplySmcSignature", "Compress"}
      BY <1>1, <2>2, <2>7, <3>2, LowScores
    <3>4. active_nand' = active_nand
      BY <3>3, WhichAction DEF Quiet, session
    <3> QED
      BY <2>4, <3>1, <3>2, <3>4 DEF Patched
  <2> QED
    BY <2>6, <2>7
<1> QED
  BY <1>6, <1>7

LEMMA PatchOrderHolds == IInv /\ PatchOrder /\ [Next]_vars => PatchOrder'
<1>1. ASSUME IInv, PatchOrder, Execute PROVE PatchOrder'
  BY <1>1, PatchOrderStep DEF IInv
<1>2. ASSUME UNCHANGED vars, PatchOrder PROVE PatchOrder'
  BY <1>2 DEF PatchOrder, Past, AtMost, Patched, vars, session, history
<1>3. ASSUME NEW cs \in Seq(Commands), NEW who, Start(who, cs) PROVE PatchOrder'
  <2>1. applied' = {} /\ queue' = Sorted(cs) /\ batch' = cs
    BY <1>3 DEF Start
  <2> QED
    BY <2>1, SortedBuilds DEF PatchOrder
<1>4. ASSUME Exit PROVE PatchOrder'
  BY <1>4 DEF Exit, PatchOrder
<1>5. ASSUME IInv, Callers PROVE PatchOrder'
  <2>1. env \in Environments /\ (Prepare => pending_key # NoKey)
    BY <1>5 DEF IInv, TypeOK, KeyKnown, Prepare
  <2>2. CliBatch \in Seq(Commands) /\ (CliImage # NoFile => ExtractBatch \in Seq(Commands))
    BY <2>1, CliBatchFacts, ExtractBatchFacts
  <2>3. Prepare => PrepareBatch \in Seq(Commands)
    BY <1>5, <2>1, PrepareBatchFacts DEF IInv
  <2>4. CASE CliBuild
    BY <1>3, <1>4, <2>2, <2>4 DEF CliBuild
  <2>5. CASE CliExtract
    BY <1>3, <1>4, <2>2, <2>5 DEF CliExtract, ExtractBatch
  <2>6. CASE Prepare
    BY <1>3, <2>3, <2>6 DEF Prepare
  <2>7. CASE ApplyEccNow \/ ExtractNow
    BY <1>3, <2>1, <2>7, SingleFacts DEF ApplyEccNow, ExtractNow
  <2>8. CASE Submit
    BY <1>3, <2>8, SessionAssumption DEF Submit
  <2> QED
    BY <1>5, <2>4, <2>5, <2>6, <2>7, <2>8 DEF Callers
<1> QED
  BY <1>1, <1>2, <1>5 DEF Next, Callers

-----------------------------------------------------------------------------
(* What follows from it. *)

\* Every part of a session keeps its type, and a batch runs exactly as long as
\* commands of it are left, whatever is submitted.
THEOREM SessionTypesHold == Spec => []TypeOK
BY Invariance, PTL DEF IInv

\* In a batch the program makes itself - create_build's and prepare_build's - no
\* command is executed that would do nothing for want of a NAND.
THEOREM NoCommandSkipped == Spec => []NothingSkipped
<1>1. IInv => NothingSkipped
  <2> SUFFICES ASSUME IInv, caller \in {"cli", "prepare"},
                      NextIs({"ApplyEcc", "ParseIni", "FinalizeFlashfs", "FinalizeMobile",
                              "ApplyPatch", "ExtractAll"}),
                      active_nand = NoNand
               PROVE  FALSE
    BY DEF NothingSkipped
  <2>1. Own /\ queue \in Seq(Commands) /\ queue # <<>> /\ Falling(queue)
    BY DEF NextIs, Own, IInv, TypeOK, InOrder
  <2>2. PICK op \in Sources : Has(queue, op)
    BY <2>1 DEF IInv, SourceThere, Comes
  <2>3. PICK i \in DOMAIN queue : queue[i].op = op
    BY <2>2 DEF Has
  <2>4. queue[i] \in Commands /\ Head(queue) \in Commands
    BY <2>1, BatchFacts, TailFacts
  <2>5. Score(queue[i]) = 150 /\ Score(Head(queue)) < 150
    BY <2>2, <2>3, <2>4, ScoreFacts DEF NextIs
  <2>6. Score(queue[i]) <= Score(Head(queue))
    BY <2>1, HeadIsHighest
  <2>7. Score(Head(queue)) \in Int
    BY <2>4, ScoreType
  <2> QED
    BY <2>5, <2>6, <2>7
<1> QED
  BY <1>1, Invariance, PTL

\* Such a batch comes to its Build with a complete NAND: assembled from the INI
\* under the session's key, with the files, the mobile data and the patches.
THEOREM BuildIsReady == Spec => []ReadyToBuild
<1>1. IInv => ReadyToBuild
  <2> SUFFICES ASSUME IInv, caller \in {"cli", "prepare"}, NextIs({"Build"})
               PROVE  Assembled /\ Filed /\ Mobiled /\ Patched
    BY DEF ReadyToBuild, Assembled, Filed, Mobiled, Patched
  <2>1. /\ Own /\ queue \in Seq(Commands) /\ queue # <<>> /\ Falling(queue)
        /\ Head(queue) \in Commands /\ Head(queue).op = "Build"
    BY TailFacts DEF NextIs, Own, IInv, TypeOK, InOrder
  <2>2. Comes("Build")
    BY <2>1, RestFacts DEF Comes
  <2>3. Score(Head(queue)) = 0
    BY <2>1 DEF Score, priority_score, Scores
  <2>4. ~Comes("ParseIni") /\ ~Comes("FinalizeFlashfs") /\ ~Comes("FinalizeMobile")
    BY <2>1, <2>3, ComesLower, ScoreFacts DEF Comes, Ops
  <2> QED
    BY <2>1, <2>2, <2>4 DEF IInv, Complete, Patched
<1> QED
  BY <1>1, Invariance, PTL

\* In whatever order a batch is submitted, a patch that was applied is still in the
\* NAND when only the Builds are left.
THEOREM PatchesAreKept == Spec => []PatchesSurvive
<1>1. Init => PatchOrder
  BY DEF Init, PatchOrder
<1>2. PatchOrder => PatchesSurvive
  <2> SUFFICES ASSUME PatchOrder, status = "running",
                      Len(queue) = Cardinality(Builds(batch)), applied # {}
               PROVE  active_nand # NoNand /\ applied \subseteq active_nand.patches
    BY DEF PatchesSurvive
  <2>1. Len(queue) \in Nat => Len(queue) >= Cardinality(Builds(batch))
    OBVIOUS
  <2> QED
    BY <2>1 DEF PatchOrder, Patched
<1> QED
  BY <1>1, <1>2, PatchOrderHolds, Invariance, PTL DEF Spec

\* The output file is written only when every other command of the batch has
\* succeeded, in whatever order it was submitted.
THEOREM ImageIsLast == Spec => ImageWrittenLast
<1>1. IInv /\ [Next]_vars
      => [output' # output => ~failed /\ \A i \in DOMAIN queue : queue[i].op = "Build"]_vars
  <2> SUFFICES ASSUME IInv, Next, output' # output
               PROVE  ~failed /\ \A i \in DOMAIN queue : queue[i].op = "Build"
    BY DEF vars
  <2>1. Build
    BY DEF Next, CliBuild, CliExtract, Exit, Prepare, ApplyEccNow, ExtractNow, Submit, Execute,
           ParseImage, CreateImage, ApplyEcc, ParseKey, ParseIni, ParseFlashfs, FinalizeFlashfs,
           FinalizeMobile, ApplyPatch, ApplyOptions, Clear, ExtractAll, SwapBootloader,
           ApplySmcSignature, ReadOnly, Unfailing, Quiet
  <2>2. /\ status = "running" /\ Head(queue).op = "Build"
        /\ queue \in Seq(Commands) /\ queue # <<>> /\ Falling(queue) /\ ~failed
    BY <2>1 DEF Build, Now, IInv, TypeOK, InOrder
  <2>3. Head(queue) \in Commands
    BY <2>2, TailFacts
  <2>4. Score(Head(queue)) <= 0 /\ Score(Head(queue)) \in Int
    BY <2>2, <2>3, OnlyBuildIsLast, ScoreType
  <2>5. ASSUME NEW i \in DOMAIN queue PROVE queue[i].op = "Build"
    <3>1. queue[i] \in Commands /\ Score(queue[i]) \in Int
      BY <2>2, BatchFacts
    <3>2. Score(queue[i]) <= Score(Head(queue))
      BY <2>2, HeadIsHighest
    <3>3. Score(queue[i]) <= 0
      BY <2>4, <3>1, <3>2
    <3> QED
      BY <3>1, <3>3, OnlyBuildIsLast
  <2> QED
    BY <2>2, <2>5
<1> QED
  BY <1>1, Invariance, PTL DEF Spec, ImageWrittenLast

\* The image is written under the key its NAND was given exactly when pending_key
\* and the options' key do not differ, for every batch of commands and all keys; and
\* they never differ in a session of the command line (sync_options_to_nand, Build).
THEOREM KeysAgree == Spec => OneKeyPerImage
<1>1. IInv /\ [Next]_vars
      => [output' # output /\ output' \in Nand =>
             /\ output'.key # active_nand'.key <=> TwoKeys
             /\ TwoKeys => env.mode = "library"]_vars
  <2> SUFFICES ASSUME IInv, Next, output' # output, output' \in Nand
               PROVE  /\ output'.key # active_nand'.key <=> TwoKeys
                      /\ TwoKeys => env.mode = "library"
    BY DEF vars
  <2>1. Build
    BY DEF Next, CliBuild, CliExtract, Exit, Prepare, ApplyEccNow, ExtractNow, Submit, Execute,
           ParseImage, CreateImage, ApplyEcc, ParseKey, ParseIni, ParseFlashfs, FinalizeFlashfs,
           FinalizeMobile, ApplyPatch, ApplyOptions, Clear, ExtractAll, SwapBootloader,
           ApplySmcSignature, ReadOnly, Unfailing, Quiet
  <2>2. CanBuild /\ status = "running" /\ BuildKey # NoKey
    BY <2>1 DEF Build, Now, CanBuild
  <2>3. PICK assets \in BOOLEAN : active_nand' = WithOptions(fresh_nand(assets))
    BY <2>1 DEF Build
  <2> DEFINE nand == fresh_nand(assets)
             put  == IF option_key = NoKey THEN BuildKey ELSE option_key
  <2>4. nand # NoNand /\ nand \in Nand /\ option_key \in Key
    BY FreshType, SessionAssumption DEF IInv, TypeOK, SessionTypes
  <2>5. nand.key = BuildKey
    BY DEF fresh_nand, new_blank
  <2> HIDE DEF nand
  <2>6. active_nand' \in Nand /\ active_nand'.key = put
    <3>1. CASE option_key = NoKey
      BY <2>3, <2>4, <2>5, <3>1 DEF WithOptions, nand
    <3>2. CASE option_key # NoKey
      <4>1. active_nand' = [nand EXCEPT !.key = option_key]
        BY <2>3, <2>4, <3>2 DEF WithOptions, nand
      <4> QED
        BY <2>4, <3>2, <4>1 DEF Nand
    <3> QED
      BY <3>1, <3>2
  <2>7. output' = [active_nand' EXCEPT !.key = BuildKey]
    BY <2>1, SessionAssumption DEF Build
  <2>8. output'.key = BuildKey
    BY <2>6, <2>7 DEF Nand
  <2>9. BuildKey # put <=> TwoKeys
    BY <2>2 DEF BuildKey, TwoKeys
  <2>10. ASSUME TwoKeys PROVE env.mode = "library"
    <3>1. env.mode # "build"
      BY <2>2, <2>10 DEF IInv, KeyKnown, TwoKeys
    <3>2. env.mode \in {"build", "extract", "library"}
      BY Environs DEF IInv, TypeOK
    <3> QED
      BY <2>2, <3>1, <3>2 DEF CanBuild
  <2> QED
    BY <2>6, <2>8, <2>9, <2>10
<1> QED
  BY <1>1, Invariance, PTL DEF Spec, OneKeyPerImage

==============================================================================
