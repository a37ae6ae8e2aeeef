---------------------------- MODULE FlashFSProofs ----------------------------
(***************************************************************************)
(* What FlashFS guarantees for every image size, set of files and history  *)
(* of operations: types, that no block is ever shared or handed out while  *)
(* a live file or the directory uses it, and what a step may never do to   *)
(* the files, in the second part of the module.  The third part, about     *)
(* FlashFSMount, is what reading back a written image gives: the files     *)
(* that were written, the block map the root was written with, and, to a   *)
(* caller that keeps to names that stay their own, nothing it could        *)
(* notice.                                                                 *)
(*                                                                         *)
(* The inductive invariant speaks of single words of the map instead of    *)
(* chains: links are injective and lead to blocks in use (Sound, of        *)
(* BlockMapProofs), and no link leads to the first block of a live file or *)
(* to the root, which are all different.                                   *)
(***************************************************************************)
EXTENDS FlashFSMount, BlockMapProofs, SequenceTheorems

Holds(es, i) == i \in 1..Len(es) /\ ~es[i].deleted /\ es[i].block_number # 0

HeadsOK(m, es, r) ==
    /\ \A i \in 1..Len(es) : Holds(es, i) =>
          /\ InUse(m[es[i].block_number])
          /\ Unlinked(m, es[i].block_number)
          /\ es[i].block_number # r
    /\ \A i, j \in 1..Len(es) :
          Holds(es, i) /\ Holds(es, j) /\ i # j =>
              es[i].block_number # es[j].block_number

RootOK(m, r) == m[r] # Free /\ Unlinked(m, r)

IInv ==
    /\ TypeOK
    /\ Sound(block_map)
    /\ RootOK(block_map, block_number)
    /\ HeadsOK(block_map, entries, block_number)

-----------------------------------------------------------------------------

LEMMA ZeroBlock == 0 \in Blocks
BY SizeAssumption DEF Blocks

LEMMA NoLinksSound ==
    ASSUME NEW m \in [Blocks -> {Free, End, Reserved}]
    PROVE  Sound(m) /\ \A h : Unlinked(m, h)
<1>1. \A x \in Blocks : ~IsLink(m[x])
  BY WordFacts
<1>2. IsMap(m)
  BY DEF IsMap, Words
<1> QED
  BY <1>1, <1>2 DEF Sound, Unlinked

LEMMA ContentsData == \A d \in Contents : d \in Seq(Chunk)
BY FlashFSAssumption

\* The state after create_defaults, FlashFS::new or the reset of
\* assemble_logical.
LEMMA InitIInv == Init => IInv
<1> SUFFICES ASSUME Init PROVE IInv
  OBVIOUS
<1> USE ZeroBlock, SizeAssumption, FlashFSAssumption
<1>1. DOMAIN image = Blocks
  BY DEF Init
<1>2. CASE Fresh
  <2>1. block_map \in [Blocks -> {Free, End, Reserved}]
    BY <1>2 DEF Fresh, Unformatted, Defaults
  <2>2. block_number \in Blocks
    BY <1>2 DEF Fresh
  <2>3. block_map[block_number] # Free
    <3>1. CASE block_number = 0
      BY <1>2, <2>2, <3>1 DEF Fresh, Unformatted, Free, Reserved
    <3>2. CASE block_number # 0
      BY <1>2, <2>2, <3>2 DEF Fresh, Defaults, Free, Reserved, End
    <3> QED
      BY <3>1, <3>2
  <2>4. TypeOK
    <3>1. entries = <<>> /\ writing = 0 /\ result = "ok"
      BY <1>2 DEF Fresh
    <3>2. block_map \in [Blocks -> Words]
      BY <2>1 DEF Words
    <3> QED
      BY <1>1, <2>2, <3>1, <3>2 DEF TypeOK
  <2>5. HeadsOK(block_map, entries, block_number)
    BY <1>2 DEF Fresh, HeadsOK
  <2> QED
    BY <2>1, <2>3, <2>4, <2>5, NoLinksSound DEF IInv, RootOK
<1>3. CASE Rebuild
  <2>1. PICK b \in Starts \ {0}, P \in Payloads :
           /\ block_number = b
           /\ block_map = [x \in Blocks |-> IF x \in P THEN Reserved ELSE Defaults(b)[x]]
    BY <1>3 DEF Rebuild
  <2>2. block_map \in [Blocks -> {Free, End, Reserved}]
    BY <2>1 DEF Defaults
  <2>3. block_number \in Blocks /\ block_map[block_number] # Free
    BY <2>1 DEF Defaults, Free, End, Reserved
  <2>4. PICK list \in Staged :
           entries = [i \in 1..Len(list) |->
                        [name |-> list[i].name, block_number |-> 0,
                         size |-> Len(list[i].data), deleted |-> list[i].deleted,
                         data |-> list[i].data]]
    BY <1>3 DEF Rebuild
  <2>5. Len(list) \in Nat /\ \A i \in 1..Len(list) :
           list[i] \in [name : Names, data : Contents, deleted : BOOLEAN]
    <3> DEFINE F == [name : Names, data : Contents, deleted : BOOLEAN]
    <3>1. list \in Seq(F)
      BY <2>4
    <3> HIDE DEF F
    <3>2. Len(list) \in Nat /\ \A i \in 1..Len(list) : list[i] \in F
      BY <3>1
    <3> QED
      BY <3>2 DEF F
  <2>6. entries \in Seq(Entry) /\ Len(entries) = Len(list)
    <3> DEFINE n == Len(list)
    <3>1. \A i \in 1..Len(list) : Len(list[i].data) \in Nat
      BY <2>5
    <3>2. entries \in [1..n -> Entry]
      BY <2>4, <2>5, <3>1 DEF Entry
    <3>3. n \in Nat
      BY <2>5
    <3> HIDE DEF n
    <3>4. entries \in Seq(Entry) /\ Len(entries) = n
      BY <3>2, <3>3
    <3> QED
      BY <3>4 DEF n
  <2>7. \A i \in 1..Len(entries) : entries[i].block_number = 0
    BY <2>4, <2>6
  <2>8. TypeOK
    <3>1. block_map \in [Blocks -> Words]
      BY <2>2 DEF Words
    <3>2. writing = 1 /\ result = "running"
      BY <1>3 DEF Rebuild
    <3>3. Len(entries) \in Nat
      BY <2>5, <2>6
    <3> QED
      BY <1>1, <2>3, <2>6, <3>1, <3>2, <3>3 DEF TypeOK
  <2>9. HeadsOK(block_map, entries, block_number)
    BY <2>7 DEF HeadsOK, Holds
  <2> QED
    BY <2>2, <2>3, <2>8, <2>9, NoLinksSound DEF IInv, RootOK
<1> QED
  BY <1>2, <1>3 DEF Init

-----------------------------------------------------------------------------
(* set_entry_data. *)

\* What set_entry_data leaves, succeed or fail: a sound map that still holds
\* every chain that started before, and a first block no other chain uses.
SetEntryOK(b, s) ==
    /\ s.ok \in BOOLEAN
    /\ s.first \in Blocks
    /\ Sound(s.map)
    /\ DOMAIN s.image = Blocks
    /\ s.ok => s.first # 0
    /\ b # 0 => s.first = b
    /\ b = 0 /\ s.first # 0 => block_map[s.first] = Free
    /\ s.first # 0 => InUse(s.map[s.first]) /\ Unlinked(s.map, s.first)
    /\ \A h \in Blocks : Unlinked(block_map, h) /\ block_map[h] # Free =>
          /\ Unlinked(s.map, h)
          /\ s.map[h] # Free
          /\ InUse(block_map[h]) => InUse(s.map[h])

LEMMA SetEntryFacts ==
    ASSUME IInv, NEW b \in Blocks, NEW d \in Seq(Chunk),
           b # 0 => InUse(block_map[b]) /\ Unlinked(block_map, b)
    PROVE  SetEntryOK(b, SetEntryData(b, d))
<1> DEFINE first == FirstBlock(b)
           need  == BlocksNeeded(d)
           map0  == IF b = 0 /\ first # 0 THEN [block_map EXCEPT ![first] = End] ELSE block_map
           map1  == IF first = 0 THEN map0 ELSE Resize(map0, first, need, block_number)
           s     == SetEntryData(b, d)
<1>1. /\ s.first = first /\ s.map = map1 /\ DOMAIN s.image = Blocks
      /\ s.ok \in BOOLEAN /\ (s.ok => first # 0)
  BY DEF SetEntryData, Stored, Zeroed
<1>2. need \in Nat \ {0}
  <2>1. d \in Seq(Chunk)
    BY FlashFSAssumption
  <2> QED
    BY <2>1 DEF BlocksNeeded
<1>3. /\ b # 0 => first = b
      /\ first \in Blocks
      /\ b = 0 /\ first # 0 => block_map[first] = Free
  <2> DEFINE avail == FreeFrom(block_map, block_number)
  <2>1. avail \subseteq Blocks /\ \A x \in avail : block_map[x] = Free
    BY DEF FreeFrom
  <2>2. avail # {} => Least(avail) \in avail
    BY <2>1, WordFacts, LeastFact
  <2> QED
    BY <2>1, <2>2, ZeroBlock DEF FirstBlock
<1>4. Sound(block_map) /\ IsMap(block_map)
  BY DEF IInv, Sound
<1> HIDE DEF first, need
<1>5. ASSUME b = 0, first # 0
      PROVE  /\ Sound(map0) /\ Unlinked(map0, first) /\ InUse(map0[first])
             /\ \A h \in Blocks : Unlinked(block_map, h) /\ block_map[h] # Free =>
                   Unlinked(map0, h) /\ map0[h] = block_map[h]
  <2> DEFINE e == [block_map EXCEPT ![first] = End]
  <2>1. map0 = e
    BY <1>5
  <2>2. \A x \in Blocks : e[x] = IF x = first THEN End ELSE block_map[x]
    BY <1>4 DEF IsMap
  <2>3. IsMap(e)
    BY <1>3, <1>4 DEF IsMap, Words
  <2>4. \A x \in Blocks : IsLink(block_map[x]) => block_map[x] # first
    BY <1>3, <1>4, <1>5, WordFacts DEF Sound
  <2>5. \A x \in Blocks : IsLink(e[x]) => x # first /\ e[x] = block_map[x]
    BY <2>2, WordFacts
  <2> HIDE DEF e
  <2>6. Sound(e)
    <3>1. ASSUME NEW x \in Blocks, IsLink(e[x]) PROVE InUse(e[e[x]])
      BY <1>4, <2>2, <2>4, <2>5, <3>1, WordFacts DEF Sound
    <3>2. \A x, y \in Blocks : IsLink(e[x]) /\ e[x] = e[y] => x = y
      BY <1>4, <2>5 DEF Sound
    <3> QED
      BY <2>3, <3>1, <3>2 DEF Sound
  <2>7. Unlinked(e, first) /\ InUse(e[first])
    BY <1>3, <2>2, <2>4, <2>5, WordFacts DEF Unlinked
  <2>8. \A h \in Blocks : Unlinked(block_map, h) /\ block_map[h] # Free =>
           Unlinked(e, h) /\ e[h] = block_map[h]
    BY <1>3, <1>5, <2>2, <2>5 DEF Unlinked
  <2> QED
    BY <2>1, <2>6, <2>7, <2>8
<1>6. CASE first = 0
  <2>1. b = 0 /\ map1 = block_map
    BY <1>3, <1>6
  <2> QED
    BY <1>1, <1>3, <1>4, <1>6, <2>1 DEF SetEntryOK
<1>7. CASE first # 0
  <2>1. /\ Sound(map0) /\ Unlinked(map0, first) /\ InUse(map0[first])
        /\ \A h \in Blocks : Unlinked(block_map, h) /\ block_map[h] # Free =>
              Unlinked(map0, h) /\ map0[h] = block_map[h]
    <3>1. CASE b = 0
      BY <1>5, <1>7, <3>1
    <3>2. CASE b # 0
      BY <1>3, <1>4, <3>2
    <3> QED
      BY <3>1, <3>2
  <2> HIDE DEF map0
  <2> DEFINE r == Resize(map0, first, need, block_number)
  <2>2. /\ Sound(r)
        /\ \A h \in Blocks : Unlinked(map0, h) /\ map0[h] # Free =>
              Unlinked(r, h) /\ r[h] # Free /\ (InUse(map0[h]) => InUse(r[h]))
    BY <1>2, <1>3, <2>1, ResizeSound
  <2>3. map1 = r
    BY <1>7
  <2> HIDE DEF r, map1, s
  <2>4. map0[first] # Free
    BY <2>1, WordFacts
  <2>5. InUse(r[first]) /\ Unlinked(r, first)
    BY <1>3, <2>1, <2>2, <2>4
  <2>6. \A h \in Blocks : Unlinked(block_map, h) /\ block_map[h] # Free =>
           Unlinked(r, h) /\ r[h] # Free /\ (InUse(block_map[h]) => InUse(r[h]))
    BY <2>1, <2>2
  <2> QED
    BY <1>1, <1>3, <1>7, <2>2, <2>3, <2>5, <2>6 DEF SetEntryOK, s
<1> QED
  BY <1>6, <1>7

\* What the type invariant says of one entry.
LEMMA EntryTypes ==
    ASSUME IInv, NEW i \in 1..Len(entries)
    PROVE  /\ entries[i] \in Entry
           /\ entries[i].block_number \in Blocks
           /\ entries[i].data \in Seq(Chunk)
<1>1. entries[i] \in Entry
  BY DEF IInv, TypeOK
<1> QED
  BY <1>1 DEF Entry

\* The entries after set_entry_data worked on entry i (or on none of them, when
\* i is not an index): the first blocks are still separate and in use.
LEMMA HeadsAfter ==
    ASSUME IInv, NEW b \in Blocks, NEW s, SetEntryOK(b, s), NEW es, NEW i,
           \A j \in 1..Len(es) : Holds(es, j) /\ j # i =>
              /\ j \in 1..Len(entries)
              /\ Holds(entries, j)
              /\ es[j].block_number = entries[j].block_number,
           i \in 1..Len(es) /\ Holds(es, i) =>
              /\ es[i].block_number = s.first
              /\ b # 0 => i \in 1..Len(entries) /\ Holds(entries, i) /\ entries[i].block_number = b
    PROVE  RootOK(s.map, block_number) /\ HeadsOK(s.map, es, block_number)
<1>1. /\ block_number \in Blocks /\ RootOK(block_map, block_number)
      /\ HeadsOK(block_map, entries, block_number)
  BY DEF IInv, TypeOK
<1>2. RootOK(s.map, block_number)
  BY <1>1 DEF RootOK, SetEntryOK
<1>3. ASSUME NEW j \in 1..Len(es), Holds(es, j), j # i
      PROVE  /\ es[j].block_number \in Blocks
             /\ InUse(block_map[es[j].block_number])
             /\ InUse(s.map[es[j].block_number])
             /\ Unlinked(s.map, es[j].block_number)
             /\ es[j].block_number # block_number
             /\ i \in 1..Len(es) /\ Holds(es, i) => es[j].block_number # es[i].block_number
  <2>1. /\ es[j].block_number = entries[j].block_number
        /\ j \in 1..Len(entries) /\ Holds(entries, j)
    BY <1>3
  <2>2. /\ es[j].block_number \in Blocks
        /\ InUse(block_map[es[j].block_number])
        /\ Unlinked(block_map, es[j].block_number)
        /\ es[j].block_number # block_number
    BY <1>1, <2>1, EntryTypes DEF HeadsOK
  <2>3. InUse(s.map[es[j].block_number]) /\ Unlinked(s.map, es[j].block_number)
    BY <2>2, WordFacts DEF SetEntryOK
  <2>4. ASSUME i \in 1..Len(es), Holds(es, i)
        PROVE  es[j].block_number # es[i].block_number
    <3>1. CASE b # 0
      <4>1. es[i].block_number = entries[i].block_number
        BY <2>4, <3>1 DEF SetEntryOK
      <4> QED
        BY <1>1, <1>3, <2>1, <2>4, <3>1, <4>1 DEF HeadsOK
    <3>2. CASE b = 0
      <4>1. block_map[es[i].block_number] = Free
        BY <2>4, <3>2 DEF SetEntryOK, Holds
      <4> QED
        BY <2>2, <4>1, WordFacts
    <3> QED
      BY <3>1, <3>2
  <2> QED
    BY <2>2, <2>3, <2>4
<1>4. ASSUME i \in 1..Len(es), Holds(es, i)
      PROVE  /\ InUse(s.map[es[i].block_number])
             /\ Unlinked(s.map, es[i].block_number)
             /\ es[i].block_number # block_number
  <2>1. es[i].block_number = s.first /\ s.first # 0
    BY <1>4 DEF Holds
  <2>2. CASE b # 0
    <3>1. s.first = entries[i].block_number /\ i \in 1..Len(entries) /\ Holds(entries, i)
      BY <1>4, <2>2 DEF SetEntryOK
    <3> QED
      BY <1>1, <2>1, <3>1 DEF HeadsOK, SetEntryOK
  <2>3. CASE b = 0
    <3>1. block_map[s.first] = Free
      BY <2>1, <2>3 DEF SetEntryOK
    <3>2. s.first # block_number
      BY <1>1, <3>1 DEF RootOK
    <3> QED
      BY <2>1, <3>2 DEF SetEntryOK
  <2> QED
    BY <2>2, <2>3
<1>5. ASSUME NEW j \in 1..Len(es), NEW k \in 1..Len(es), Holds(es, j), Holds(es, k), j # k
      PROVE  es[j].block_number # es[k].block_number
  <2>1. CASE j # i /\ k # i
    <3>1. /\ j \in 1..Len(entries) /\ Holds(entries, j)
          /\ es[j].block_number = entries[j].block_number
          /\ k \in 1..Len(entries) /\ Holds(entries, k)
          /\ es[k].block_number = entries[k].block_number
      BY <1>5, <2>1
    <3> QED
      BY <1>1, <1>5, <3>1 DEF HeadsOK
  <2>2. CASE j # i /\ k = i
    BY <1>3, <1>5, <2>2
  <2>3. CASE j = i /\ k # i
    BY <1>3, <1>5, <2>3
  <2> QED
    BY <1>5, <2>1, <2>2, <2>3
<1>6. \A j \in 1..Len(es) : Holds(es, j) =>
          /\ InUse(s.map[es[j].block_number])
          /\ Unlinked(s.map, es[j].block_number)
          /\ es[j].block_number # block_number
  BY <1>3, <1>4
<1>7. HeadsOK(s.map, es, block_number)
  BY <1>5, <1>6 DEF HeadsOK
<1> QED
  BY <1>2, <1>7

\* A live entry has a first block that set_entry_data may work on.
LEMMA EntryFacts ==
    ASSUME IInv, NEW i \in 1..Len(entries), ~entries[i].deleted
    PROVE  /\ entries[i].block_number \in Blocks
           /\ entries[i].data \in Seq(Chunk)
           /\ LET b == entries[i].block_number IN
              b # 0 => InUse(block_map[b]) /\ Unlinked(block_map, b) /\ Holds(entries, i)
<1>1. HeadsOK(block_map, entries, block_number)
  BY DEF IInv
<1> QED
  BY <1>1, EntryTypes DEF HeadsOK, Holds

\* Setting fields of one entry.
LEMMA EntryUpdate ==
    ASSUME TypeOK, NEW i \in 1..Len(entries), NEW e \in Entry
    PROVE  /\ [entries EXCEPT ![i] = e] \in Seq(Entry)
           /\ Len([entries EXCEPT ![i] = e]) = Len(entries)
           /\ \A j \in 1..Len(entries) :
                 [entries EXCEPT ![i] = e][j] = IF j = i THEN e ELSE entries[j]
BY DEF TypeOK

-----------------------------------------------------------------------------
(* One lemma per action. *)

\* The parts of the next state's invariant.
LEMMA NextIInv ==
    ASSUME block_number' \in Blocks, entries' \in Seq(Entry), Sound(block_map'),
           DOMAIN image' = Blocks, writing' \in 0..(Len(entries') + 1),
           result' \in {"ok", "err", "running"},
           RootOK(block_map', block_number'), HeadsOK(block_map', entries', block_number')
    PROVE  IInv'
<1>1. block_map' \in [Blocks -> Words]
  BY DEF Sound, IsMap
<1> QED
  BY <1>1 DEF IInv, TypeOK

\* A new entry with the blocks set_entry_data gives it.
LEMMA AddIInv ==
    ASSUME IInv, NEW n \in Names, NEW d \in Seq(Chunk), NEW s, s = SetEntryData(0, d),
           writing = 0, writing' = 0, block_number' = block_number,
           result' \in {"ok", "err", "running"},
           block_map' = s.map, image' = s.image,
           entries' = IF s.ok
                      THEN Append(entries, [name |-> n, block_number |-> s.first,
                                            size |-> Len(d), deleted |-> FALSE, data |-> d])
                      ELSE entries
    PROVE  IInv'
<1> DEFINE new == [name |-> n, block_number |-> s.first, size |-> Len(d),
                   deleted |-> FALSE, data |-> d]
<1>1. SetEntryOK(0, s)
  BY ZeroBlock, SetEntryFacts
<1>2. entries \in Seq(Entry) /\ Len(entries) \in Nat
  BY DEF IInv, TypeOK
<1>3. block_number \in Blocks /\ block_map \in [Blocks -> Words] /\ DOMAIN image = Blocks
  BY DEF IInv, TypeOK
<1>5. CASE entries' = entries
  <2>1. RootOK(s.map, block_number) /\ HeadsOK(s.map, entries, block_number)
    <3>1. 0 \notin 1..Len(entries)
      BY <1>2
    <3> QED
      BY <1>1, <3>1, ZeroBlock, HeadsAfter
  <2>2. Sound(s.map) /\ DOMAIN s.image = Blocks
    BY <1>1 DEF SetEntryOK
  <2> QED
    BY <1>2, <1>3, <1>5, <2>1, <2>2, NextIInv
<1>6. CASE entries' = Append(entries, new)
  <2> DEFINE es == Append(entries, new)
             k  == Len(entries) + 1
  <2>1. new \in Entry
    <3>1. Len(d) \in Nat
      BY FlashFSAssumption
    <3> QED
      BY <1>1, <3>1 DEF Entry, SetEntryOK
  <2>2. es \in Seq(Entry) /\ Len(es) = Len(entries) + 1 /\ es[k] = new
        /\ \A j \in 1..Len(entries) : es[j] = entries[j]
    BY <1>2, <2>1
  <2> HIDE DEF es
  <2>3. RootOK(s.map, block_number) /\ HeadsOK(s.map, es, block_number)
    <3>1. \A j \in 1..Len(es) : Holds(es, j) /\ j # k =>
             /\ j \in 1..Len(entries) /\ Holds(entries, j)
             /\ es[j].block_number = entries[j].block_number
      BY <1>2, <2>2 DEF Holds
    <3>2. es[k].block_number = s.first
      BY <2>2
    <3> HIDE DEF k
    <3> QED
      BY <1>1, <3>1, <3>2, ZeroBlock, HeadsAfter
  <2>4. entries' = es
    BY <1>6 DEF es
  <2>5. Sound(s.map) /\ DOMAIN s.image = Blocks
    BY <1>1 DEF SetEntryOK
  <2>6. entries' \in Seq(Entry) /\ writing' \in 0..(Len(entries') + 1)
    BY <1>2, <2>2, <2>4
  <2>7. HeadsOK(block_map', entries', block_number') /\ RootOK(block_map', block_number')
    BY <1>2, <1>6, <2>3, <2>4
  <2>8. Sound(block_map') /\ DOMAIN image' = Blocks
    BY <1>6, <2>5
  <2> QED
    BY <1>2, <1>3, <2>6, <2>7, <2>8, NextIInv
<1> QED
  BY <1>5, <1>6

LEMMA InjectIInv ==
    ASSUME IInv, NEW n \in Names, NEW d \in Seq(Chunk), InjectFile(n, d)
    PROVE  IInv'
<1>1. CASE UNCHANGED <<entries, block_map, image>>
  BY <1>1 DEF InjectFile, IInv, TypeOK
<1>2. CASE LiveNamed(n) = {}
  <2> PICK s : s = SetEntryData(0, d)
    OBVIOUS
  <2>1. /\ writing = 0 /\ writing' = 0 /\ block_number' = block_number
        /\ result' \in {"ok", "err"}
        /\ block_map' = s.map /\ image' = s.image
        /\ entries' = IF s.ok
                      THEN Append(entries, [name |-> n, block_number |-> s.first,
                                            size |-> Len(d), deleted |-> FALSE, data |-> d])
                      ELSE entries
    BY <1>2 DEF InjectFile, Idle
  <2> QED
    BY <2>1, AddIInv
<1> QED
  BY <1>1, <1>2 DEF InjectFile

\* Replace and the loop body of write_logical: entry i gets the first block s
\* says, whether or not the rest of s worked.
LEMMA UpdateHeads ==
    ASSUME IInv, NEW i \in 1..Len(entries), ~entries[i].deleted, NEW s,
           SetEntryOK(entries[i].block_number, s), NEW e \in Entry,
           e.block_number = s.first, ~e.deleted
    PROVE  LET es == [entries EXCEPT ![i] = e] IN
           /\ es \in Seq(Entry) /\ Len(es) = Len(entries)
           /\ RootOK(s.map, block_number) /\ HeadsOK(s.map, es, block_number)
<1> DEFINE es == [entries EXCEPT ![i] = e]
           b  == entries[i].block_number
<1>1. /\ es \in Seq(Entry) /\ Len(es) = Len(entries)
      /\ \A j \in 1..Len(entries) : es[j] = IF j = i THEN e ELSE entries[j]
  BY EntryUpdate DEF IInv
<1> HIDE DEF es
<1>2. b \in Blocks
  BY EntryTypes
<1>3. \A j \in 1..Len(es) : Holds(es, j) /\ j # i =>
         /\ j \in 1..Len(entries) /\ Holds(entries, j)
         /\ es[j].block_number = entries[j].block_number
  BY <1>1 DEF Holds
<1>4. es[i].block_number = s.first
  BY <1>1
<1>5. b # 0 => i \in 1..Len(entries) /\ Holds(entries, i) /\ entries[i].block_number = b
  BY DEF Holds
<1>6. RootOK(s.map, block_number) /\ HeadsOK(s.map, es, block_number)
  <2> HIDE DEF b
  <2>1. SetEntryOK(b, s)
    BY DEF b
  <2> QED
    BY <1>2, <1>3, <1>4, <1>5, <2>1, HeadsAfter
<1> QED
  BY <1>1, <1>6 DEF es

\* What replacing and placing do to a list of entries.
Replaced(es, j, b, d) ==
    [es EXCEPT ![j].block_number = b, ![j].size = Len(d), ![j].data = d]

LEMMA EntryReplaced ==
    ASSUME NEW es, es \in Seq(Entry), NEW j \in 1..Len(es), NEW b, NEW d
    PROVE  LET new == Replaced(es, j, b, d) IN
           /\ Len(new) = Len(es)
           /\ new[j].block_number = b /\ new[j].size = Len(d) /\ new[j].data = d
           /\ new[j].name = es[j].name /\ new[j].deleted = es[j].deleted
           /\ \A i \in 1..Len(es) : i # j => new[i] = es[i]
<1> DEFINE new == Replaced(es, j, b, d)
<1> PICK z : z = Len(d)
  OBVIOUS
<1>1. es[j] \in Entry
  OBVIOUS
<1> DEFINE p == [es EXCEPT ![j].block_number = b]
           q == [p EXCEPT ![j].size = z]
<1>2. new = [q EXCEPT ![j].data = d]
  BY DEF Replaced
<1>3. /\ DOMAIN p = 1..Len(es) /\ Len(p) = Len(es)
      /\ DOMAIN p[j] = DOMAIN es[j] /\ p[j].block_number = b
      /\ p[j].name = es[j].name /\ p[j].deleted = es[j].deleted
      /\ \A i \in 1..Len(es) : i # j => p[i] = es[i]
  BY <1>1 DEF Entry
<1> HIDE DEF p
<1>4. /\ DOMAIN q = 1..Len(es) /\ Len(q) = Len(es)
      /\ DOMAIN q[j] = DOMAIN es[j] /\ q[j].block_number = b /\ q[j].size = z
      /\ q[j].name = es[j].name /\ q[j].deleted = es[j].deleted
      /\ \A i \in 1..Len(es) : i # j => q[i] = es[i]
  BY <1>1, <1>3 DEF Entry
<1> HIDE DEF q
<1> QED
  BY <1>1, <1>2, <1>4 DEF Entry

LEMMA EntryPlaced ==
    ASSUME NEW es, es \in Seq(Entry), NEW j \in 1..Len(es), NEW b, NEW new,
           new = [es EXCEPT ![j].block_number = b]
    PROVE  /\ Len(new) = Len(es)
           /\ \A i \in 1..Len(es) : /\ new[i].name = es[i].name /\ new[i].data = es[i].data
                                    /\ new[i].size = es[i].size /\ new[i].deleted = es[i].deleted
                                    /\ i # j => new[i] = es[i]
           /\ new[j].block_number = b
<1>1. es[j] \in Entry
  OBVIOUS
<1> DEFINE e == [es[j] EXCEPT !.block_number = b]
<1>2. /\ e.block_number = b /\ e.size = es[j].size /\ e.data = es[j].data
      /\ e.name = es[j].name /\ e.deleted = es[j].deleted
  BY <1>1 DEF Entry
<1>3. new = [es EXCEPT ![j] = e]
  OBVIOUS
<1> HIDE DEF e
<1>4. Len(new) = Len(es) /\ new[j] = e /\ \A i \in 1..Len(es) : i # j => new[i] = es[i]
  BY <1>3
<1> QED
  BY <1>2, <1>4
LEMMA FirstExists ==
    ASSUME NEW n, LiveNamed(n) # {}, entries \in Seq(Entry)
    PROVE  First(LiveNamed(n)) \in LiveNamed(n)
<1>1. LiveNamed(n) \subseteq Nat
  BY DEF LiveNamed, Live
<1>2. First(LiveNamed(n)) = Least(LiveNamed(n))
  BY DEF First, Least
<1> HIDE DEF LiveNamed
<1> QED
  BY <1>1, <1>2, LeastFact

LEMMA ReplaceIInv ==
    ASSUME IInv, NEW n \in Names, NEW d \in Seq(Chunk), ReplaceFile(n, d)
    PROVE  IInv'
<1>1. entries \in Seq(Entry) /\ Len(entries) \in Nat /\ writing = 0
      /\ writing' = writing /\ block_number' = block_number
      /\ block_number \in Blocks /\ DOMAIN image = Blocks
  BY DEF IInv, TypeOK, ReplaceFile, Idle
<1>2. CASE LiveNamed(n) = {}
  <2>1. /\ entries' = entries /\ block_map' = block_map /\ image' = image /\ result' = "err"
    BY <1>2 DEF ReplaceFile
  <2> QED
    BY <1>1, <2>1 DEF IInv, TypeOK
<1>3. CASE LiveNamed(n) # {}
  <2> DEFINE i == First(LiveNamed(n))
             s == SetEntryData(entries[i].block_number, d)
             e == [entries[i] EXCEPT !.block_number = s.first, !.size = Len(d), !.data = d]
  <2>1. /\ block_map' = s.map
        /\ image' = s.image
        /\ result' = IF s.ok THEN "ok" ELSE "err"
        /\ entries' = IF s.ok
                      THEN [entries EXCEPT ![i].block_number = s.first,
                                           ![i].size = Len(d), ![i].data = d]
                      ELSE entries
    BY <1>3 DEF ReplaceFile
  <2>2. i \in 1..Len(entries) /\ ~entries[i].deleted
    BY <1>1, <1>3, FirstExists DEF LiveNamed, Live
  <2> HIDE DEF i
  <2>3. SetEntryOK(entries[i].block_number, s)
    <3>1. /\ entries[i].block_number \in Blocks
          /\ entries[i].block_number # 0 =>
                InUse(block_map[entries[i].block_number])
                /\ Unlinked(block_map, entries[i].block_number)
      BY <2>2, EntryFacts
    <3> QED
      BY <3>1, SetEntryFacts
  <2>4. Sound(s.map) /\ DOMAIN s.image = Blocks /\ s.first \in Blocks /\ s.ok \in BOOLEAN
    BY <2>3 DEF SetEntryOK
  <2>5. e \in Entry /\ e.block_number = s.first /\ ~e.deleted
    <3>1. entries[i] \in Entry
      BY <2>2, EntryTypes
    <3>2. Len(d) \in Nat
      BY FlashFSAssumption
    <3> HIDE DEF s
    <3> QED
      BY <2>2, <2>4, <3>1, <3>2 DEF Entry
  <2>6. CASE s.ok
    <3>1. entries' = [entries EXCEPT ![i] = e]
      BY <1>1, <2>1, <2>2, <2>6
    <3> HIDE DEF s, e
    <3>2. LET es == [entries EXCEPT ![i] = e] IN
          /\ es \in Seq(Entry) /\ Len(es) = Len(entries)
          /\ RootOK(s.map, block_number) /\ HeadsOK(s.map, es, block_number)
      BY <2>2, <2>3, <2>5, UpdateHeads
    <3>3. entries' \in Seq(Entry) /\ writing' \in 0..(Len(entries') + 1)
      BY <1>1, <3>1, <3>2
    <3>4. HeadsOK(block_map', entries', block_number') /\ RootOK(block_map', block_number')
      BY <1>1, <2>1, <3>1, <3>2
    <3>5. Sound(block_map') /\ DOMAIN image' = Blocks /\ result' \in {"ok", "err"}
      BY <2>1, <2>4
    <3> QED
      BY <1>1, <3>3, <3>4, <3>5, NextIInv
  <2>7. CASE ~s.ok
    <3>1. RootOK(s.map, block_number) /\ HeadsOK(s.map, entries, block_number)
      <4>1. 0 \notin 1..Len(entries) /\ entries[i].block_number \in Blocks
        BY <1>1, <2>2, EntryTypes
      <4> HIDE DEF s
      <4> QED
        BY <2>3, <4>1, HeadsAfter
    <3> HIDE DEF s
    <3> QED
      BY <1>1, <2>1, <2>4, <2>7, <3>1, NextIInv
  <2> QED
    BY <2>4, <2>6, <2>7
<1> QED
  BY <1>2, <1>3

LEMMA DeleteIInv ==
    ASSUME IInv, NEW n \in Names, DeleteFile(n)
    PROVE  IInv'
<1>1. entries \in Seq(Entry) /\ Len(entries) \in Nat /\ writing = 0
      /\ writing' = writing /\ block_number' = block_number /\ image' = image
      /\ block_number \in Blocks /\ DOMAIN image = Blocks
  BY DEF IInv, TypeOK, DeleteFile, Idle
<1>2. CASE LiveNamed(n) = {}
  <2>1. entries' = entries /\ block_map' = block_map /\ result' = "err"
    BY <1>2 DEF DeleteFile
  <2> QED
    BY <1>1, <2>1 DEF IInv, TypeOK
<1>3. CASE LiveNamed(n) # {}
  <2> DEFINE i == First(LiveNamed(n))
             b == entries[i].block_number
             e == [entries[i] EXCEPT !.deleted = TRUE]
             es == [entries EXCEPT ![i] = e]
             m == IF b # 0 THEN FreeChain(block_map, b) ELSE block_map
  <2>1. /\ block_map' = m
        /\ entries' = [entries EXCEPT ![i].deleted = TRUE]
        /\ result' = "ok"
    BY <1>3 DEF DeleteFile
  <2>2. i \in 1..Len(entries) /\ ~entries[i].deleted
    BY <1>1, <1>3, FirstExists DEF LiveNamed, Live
  <2> HIDE DEF i
  <2>3. /\ b \in Blocks
        /\ b # 0 => InUse(block_map[b]) /\ Unlinked(block_map, b) /\ Holds(entries, i)
    BY <2>2, EntryFacts
  <2>4. e \in Entry /\ e.deleted
    <3>1. entries[i] \in Entry
      BY <2>2, EntryTypes
    <3> QED
      BY <3>1 DEF Entry
  <2>5. entries' = es
    BY <1>1, <2>1, <2>2
  <2> HIDE DEF e, b
  <2>6. /\ es \in Seq(Entry) /\ Len(es) = Len(entries)
        /\ \A j \in 1..Len(entries) : es[j] = IF j = i THEN e ELSE entries[j]
    BY <2>2, <2>4, EntryUpdate DEF IInv
  <2> HIDE DEF es
  <2>7. Sound(block_map) /\ RootOK(block_map, block_number)
        /\ HeadsOK(block_map, entries, block_number)
    BY DEF IInv
  <2>8. /\ Sound(m)
        /\ \A h : Unlinked(block_map, h) => Unlinked(m, h)
        /\ \A h \in Blocks : Unlinked(block_map, h) /\ (b # 0 => h # b) => m[h] = block_map[h]
    BY <2>3, <2>7, FreeChainSound
  <2> HIDE DEF m
  <2>9. RootOK(m, block_number)
    <3>1. b # 0 => block_number # b
      BY <2>2, <2>3, <2>7 DEF HeadsOK, b
    <3> QED
      BY <1>1, <2>7, <2>8, <3>1 DEF RootOK
  <2>10. \A j \in 1..Len(es) : Holds(es, j) =>
            /\ j # i /\ j \in 1..Len(entries) /\ Holds(entries, j)
            /\ es[j].block_number = entries[j].block_number
    BY <2>2, <2>4, <2>6 DEF Holds
  <2>11. \A j \in 1..Len(es) : Holds(es, j) =>
            /\ InUse(m[es[j].block_number])
            /\ Unlinked(m, es[j].block_number)
            /\ es[j].block_number # block_number
    <3> SUFFICES ASSUME NEW j \in 1..Len(es), Holds(es, j)
                 PROVE  /\ InUse(m[es[j].block_number])
                        /\ Unlinked(m, es[j].block_number)
                        /\ es[j].block_number # block_number
      OBVIOUS
    <3>1. /\ j # i /\ j \in 1..Len(entries) /\ Holds(entries, j)
          /\ es[j].block_number = entries[j].block_number
      BY <2>10
    <3>2. entries[j].block_number \in Blocks
      BY <3>1, EntryTypes
    <3>3. b # 0 => entries[j].block_number # b
      BY <2>2, <2>3, <2>7, <3>1 DEF HeadsOK, b
    <3> QED
      BY <2>7, <2>8, <3>1, <3>2, <3>3 DEF HeadsOK
  <2>12. HeadsOK(m, es, block_number)
    BY <2>7, <2>10, <2>11 DEF HeadsOK
  <2>13. entries' \in Seq(Entry) /\ writing' \in 0..(Len(entries') + 1)
    BY <1>1, <2>5, <2>6
  <2>14. HeadsOK(block_map', entries', block_number') /\ RootOK(block_map', block_number')
         /\ Sound(block_map')
    BY <1>1, <2>1, <2>5, <2>8, <2>9, <2>12
  <2> QED
    BY <1>1, <2>1, <2>13, <2>14, NextIInv
<1> QED
  BY <1>2, <1>3
LEMMA BeginWriteIInv ==
    ASSUME IInv, BeginWrite
    PROVE  IInv'
<1>1. /\ block_number' = block_number /\ entries' = entries /\ block_map' = block_map
      /\ image' = image /\ writing' = 1 /\ result' = "running"
  BY DEF BeginWrite
<1>2. Len(entries) \in Nat
  BY DEF IInv, TypeOK
<1> QED
  BY <1>1, <1>2 DEF IInv, TypeOK

LEMMA WriteEntryIInv ==
    ASSUME IInv, WriteEntry
    PROVE  IInv'
<1> DEFINE i == writing
           s == SetEntryData(entries[i].block_number, entries[i].data)
           e == [entries[i] EXCEPT !.block_number = s.first]
<1>1. /\ entries \in Seq(Entry) /\ Len(entries) \in Nat /\ i \in 1..Len(entries)
      /\ block_number' = block_number /\ block_number \in Blocks
      /\ DOMAIN image = Blocks /\ result \in {"ok", "err", "running"}
  BY DEF IInv, TypeOK, WriteEntry
<1>2. CASE entries[i].deleted
  <2>1. /\ entries' = entries /\ block_map' = block_map /\ image' = image
        /\ result' = result /\ writing' = writing + 1
    BY <1>2 DEF WriteEntry
  <2>2. writing' \in 0..(Len(entries') + 1)
    BY <1>1, <2>1
  <2> QED
    BY <1>1, <2>1, <2>2 DEF IInv, TypeOK
<1>3. CASE ~entries[i].deleted
  <2>1. /\ entries' = [entries EXCEPT ![i].block_number = s.first]
        /\ block_map' = s.map
        /\ image' = s.image
        /\ writing' = IF s.ok THEN writing + 1 ELSE 0
        /\ result' = IF s.ok THEN result ELSE "err"
    BY <1>3 DEF WriteEntry
  <2>2. entries' = [entries EXCEPT ![i] = e]
    BY <1>1, <2>1
  <2> HIDE DEF i
  <2>3. SetEntryOK(entries[i].block_number, s)
    <3>1. /\ entries[i].block_number \in Blocks /\ entries[i].data \in Seq(Chunk)
          /\ entries[i].block_number # 0 =>
                InUse(block_map[entries[i].block_number])
                /\ Unlinked(block_map, entries[i].block_number)
      BY <1>1, <1>3, EntryFacts
    <3> QED
      BY <3>1, SetEntryFacts
  <2> HIDE DEF s
  <2>4. Sound(s.map) /\ DOMAIN s.image = Blocks /\ s.first \in Blocks
    BY <2>3 DEF SetEntryOK
  <2>5. e \in Entry /\ e.block_number = s.first /\ ~e.deleted
    <3>1. entries[i] \in Entry
      BY <1>1, EntryTypes
    <3> QED
      BY <1>3, <2>4, <3>1 DEF Entry
  <2> HIDE DEF e
  <2>6. LET es == [entries EXCEPT ![i] = e] IN
        /\ es \in Seq(Entry) /\ Len(es) = Len(entries)
        /\ RootOK(s.map, block_number) /\ HeadsOK(s.map, es, block_number)
    BY <1>1, <1>3, <2>3, <2>5, UpdateHeads
  <2>7. entries' \in Seq(Entry) /\ writing' \in 0..(Len(entries') + 1)
    BY <1>1, <2>1, <2>2, <2>6 DEF i
  <2>8. HeadsOK(block_map', entries', block_number') /\ RootOK(block_map', block_number')
    BY <1>1, <2>1, <2>2, <2>6
  <2>9. /\ Sound(block_map') /\ DOMAIN image' = Blocks
        /\ result' \in {"ok", "err", "running"}
    BY <1>1, <2>1, <2>4
  <2> QED
    BY <1>1, <2>7, <2>8, <2>9, NextIInv
<1> QED
  BY <1>2, <1>3

\* Cutting the root chain back frees no block another chain starts at.
LEMMA RootCutFacts ==
    ASSUME IInv
    PROVE  /\ Sound(RootCut)
           /\ \A h : Unlinked(block_map, h) => Unlinked(RootCut, h)
           /\ \A h \in Blocks : Unlinked(block_map, h) /\ h # block_number =>
                 RootCut[h] = block_map[h]
           /\ block_number # 0 => RootCut[block_number] = End
           /\ RootCut[block_number] # Free
<1> DEFINE r == block_number
           C == Chain(block_map, r)
<1>1. /\ Sound(block_map) /\ r \in Blocks /\ block_map[r] # Free
      /\ Unlinked(block_map, r)
  BY DEF IInv, TypeOK, RootOK
<1>2. CASE r = 0
  BY <1>1, <1>2 DEF RootCut
<1>3. CASE r # 0
  <2>1. /\ C \subseteq Blocks
        /\ \A x \in C : x # r => \E y \in C : IsLink(block_map[y]) /\ block_map[y] = x
    BY <1>1, ChainFacts DEF Sound
  <2> DEFINE E == {r}
  <2>2. RootCut = Prune(block_map, E, C)
    BY <1>3 DEF RootCut, Prune
  <2>3. \A x \in Blocks : IsLink(block_map[x]) /\ block_map[x] \in C \ E => x \in C \cup E
    BY <1>1, ChainEntered
  <2>4. /\ Sound(RootCut)
        /\ \A h : Unlinked(block_map, h) => Unlinked(RootCut, h)
    <3> E \in SUBSET Blocks
      BY <1>1
    <3> HIDE DEF E, C
    <3> QED
      BY <1>1, <2>1, <2>2, <2>3, PruneSound
  <2>5. \A h \in Blocks : Unlinked(block_map, h) /\ h # r => h \notin C
    BY <2>1 DEF Unlinked
  <2>6. RootCut = [x \in Blocks |-> IF x = r THEN End
                                     ELSE IF x \in C THEN Free ELSE block_map[x]]
    BY <1>3 DEF RootCut
  <2>7. RootCut[r] = End /\ \A h \in Blocks : h # r /\ h \notin C => RootCut[h] = block_map[h]
    BY <1>1, <2>6
  <2> QED
    BY <2>4, <2>5, <2>7, WordFacts
<1> QED
  BY <1>2, <1>3

\* The directory takes at least one block.
LEMMA RootNeeds ==
    ASSUME Len(entries) \in Nat
    PROVE  RootBlocksNeeded \in Nat /\ RootBlocksNeeded >= 1
<1>1. Cardinality(Live) \in Nat
  <2>1. Live \subseteq 1..Len(entries)
    BY DEF Live
  <2>2. IsFiniteSet(1..Len(entries))
    BY <2>1, FS_Interval
  <2>3. IsFiniteSet(Live)
    BY <2>1, <2>2, FS_Subset
  <2> QED
    BY <2>3, FS_CardinalityType
<1>2. EntriesPerRoot \in Nat \ {0}
  BY FlashFSAssumption
<1>3. ASSUME NEW x \in Nat, NEW d \in Nat \ {0}, x >= d
      PROVE  x \div d \in Nat /\ x \div d >= 1
  BY <1>3
<1> DEFINE n == Cardinality(Live)
           x == n + EntriesPerRoot - 1
<1>4. CASE n <= EntriesPerRoot
  BY <1>4 DEF RootBlocksNeeded
<1>5. CASE ~(n <= EntriesPerRoot)
  <2>1. x \in Nat /\ x >= EntriesPerRoot
    BY <1>1, <1>2, <1>5
  <2>2. RootBlocksNeeded = x \div EntriesPerRoot
    BY <1>5 DEF RootBlocksNeeded
  <2> HIDE DEF x
  <2> QED
    BY <1>2, <1>3, <2>1, <2>2
<1> QED
  BY <1>4, <1>5

LEMMA RootNeedsBlocks ==
    ASSUME IInv
    PROVE  RootBlocksNeeded \in Nat /\ RootBlocksNeeded >= 1
<1>1. Len(entries) \in Nat
  BY DEF IInv, TypeOK
<1> QED
  BY <1>1, RootNeeds

LEMMA WriteRootIInv ==
    ASSUME IInv, WriteRoot
    PROVE  IInv'
<1> DEFINE r    == block_number
           m    == RootCut
           G    == RootGrowth
           held == IF r = 0 THEN 0 ELSE 1
           root == IF r = 0 THEN Least(G) ELSE r
           ext  == Extend(m, root, G)
<1>1. /\ entries \in Seq(Entry) /\ Len(entries) \in Nat /\ entries' = entries
      /\ writing' = 0 /\ r \in Blocks /\ DOMAIN image = Blocks
      /\ HeadsOK(block_map, entries, r) /\ Unlinked(block_map, r)
  BY DEF IInv, TypeOK, RootOK, WriteRoot
<1>2. /\ Sound(m)
      /\ \A h : Unlinked(block_map, h) => Unlinked(m, h)
      /\ \A h \in Blocks : Unlinked(block_map, h) /\ h # r => m[h] = block_map[h]
      /\ r # 0 => m[r] = End
      /\ m[r] # Free
  BY RootCutFacts
<1>3. /\ G \in SUBSET (Blocks \ {0})
      /\ \A x \in G : m[x] = Free
  BY LowestFree DEF RootGrowth
<1> HIDE DEF m, G
\* The first blocks of the live files keep their words.
<1>4. \A i \in 1..Len(entries) : Holds(entries, i) =>
          LET h == entries[i].block_number IN
          h \in Blocks /\ InUse(m[h]) /\ Unlinked(m, h) /\ h # r /\ h \notin G
  <2> SUFFICES ASSUME NEW i \in 1..Len(entries), Holds(entries, i)
               PROVE  LET h == entries[i].block_number IN
                      h \in Blocks /\ InUse(m[h]) /\ Unlinked(m, h) /\ h # r /\ h \notin G
    OBVIOUS
  <2> DEFINE h == entries[i].block_number
  <2>1. h \in Blocks
    BY EntryTypes
  <2>2. InUse(block_map[h]) /\ Unlinked(block_map, h) /\ h # r
    BY <1>1 DEF HeadsOK
  <2>3. m[h] = block_map[h] /\ Unlinked(m, h)
    BY <1>2, <2>1, <2>2
  <2> QED
    BY <1>3, <2>1, <2>2, <2>3, WordFacts
<1>5. CASE block_map' = m /\ image' = Zeroed(image, G) /\ result' = "err" /\ block_number' = r
  <2>1. RootOK(m, r)
    BY <1>1, <1>2 DEF RootOK
  <2>2. HeadsOK(m, entries, r)
    BY <1>1, <1>4 DEF HeadsOK
  <2>3. DOMAIN image' = Blocks
    BY <1>5 DEF Zeroed
  <2>4. writing' \in 0..(Len(entries') + 1)
    BY <1>1
  <2>5. HeadsOK(block_map', entries', block_number') /\ RootOK(block_map', block_number')
        /\ Sound(block_map')
    BY <1>1, <1>2, <1>5, <2>1, <2>2
  <2> QED
    BY <1>1, <1>5, <2>3, <2>4, <2>5, NextIInv
<1>6. CASE /\ Cardinality(G) + held >= RootBlocksNeeded
           /\ block_number' = root /\ block_map' = ext /\ result' = "ok"
           /\ DOMAIN image' = Blocks
  <2>1. r = 0 => root \in G /\ root = Least(G)
    <3> SUFFICES ASSUME r = 0 PROVE Least(G) \in G
      OBVIOUS
    <3>1. G # {}
      <4>1. SUFFICES ASSUME G = {} PROVE FALSE
        OBVIOUS
      <4>2. Cardinality(G) = 0
        BY <4>1, FS_EmptySet
      <4> QED
        BY <1>6, <4>2, RootNeedsBlocks
    <3>2. G \subseteq Nat
      BY <1>3, WordFacts
    <3> QED
      BY <3>1, <3>2, LeastFact
  <2>2. r # 0 => root = r
    OBVIOUS
  <2>3. root \in Blocks /\ (root \in G \/ (~IsLink(m[root]) /\ InUse(m[root])))
    BY <1>1, <1>2, <1>3, <2>1, <2>2, WordFacts
  <2> HIDE DEF root
  <2>4. /\ Sound(ext)
        /\ \A h : Unlinked(m, h) /\ h \notin G => Unlinked(ext, h)
        /\ \A x \in G : InUse(ext[x])
        /\ \A x \in Blocks : InUse(m[x]) => InUse(ext[x])
        /\ root \in G /\ root = Least(G) => Unlinked(ext, root)
    BY <1>2, <1>3, <2>3, ExtendSound
  <2> HIDE DEF ext
  <2>5. RootOK(ext, root)
    <3>1. ext[root] # Free
      BY <2>3, <2>4, WordFacts
    <3>2. Unlinked(ext, root)
      BY <1>1, <1>2, <1>3, <2>1, <2>2, <2>4
    <3> QED
      BY <3>1, <3>2 DEF RootOK
  <2>6. \A i \in 1..Len(entries) : Holds(entries, i) =>
          /\ InUse(ext[entries[i].block_number])
          /\ Unlinked(ext, entries[i].block_number)
          /\ entries[i].block_number # root
    BY <1>4, <2>1, <2>2, <2>4
  <2>7. HeadsOK(ext, entries, root)
    BY <1>1, <2>6 DEF HeadsOK
  <2>8. writing' \in 0..(Len(entries') + 1)
    BY <1>1
  <2>9. HeadsOK(block_map', entries', block_number') /\ RootOK(block_map', block_number')
        /\ Sound(block_map') /\ block_number' \in Blocks
    BY <1>1, <1>6, <2>3, <2>4, <2>5, <2>7
  <2> QED
    BY <1>1, <1>6, <2>8, <2>9, NextIInv
<1> QED
  BY <1>5, <1>6 DEF WriteRoot, m, G

-----------------------------------------------------------------------------
(* The theorems. *)

LEMMA StepIInv == IInv /\ [Next]_vars => IInv'
<1> SUFFICES ASSUME IInv, [Next]_vars PROVE IInv'
  OBVIOUS
<1>1. ASSUME NEW n \in Names, NEW d \in Seq(Chunk), InjectFile(n, d) PROVE IInv'
  BY <1>1, InjectIInv
<1>2. ASSUME NEW n \in Names, NEW d \in Seq(Chunk), ReplaceFile(n, d) PROVE IInv'
  BY <1>2, ReplaceIInv
<1>3. ASSUME NEW n \in Names, DeleteFile(n) PROVE IInv'
  BY <1>3, DeleteIInv
<1>4. CASE BeginWrite
  BY <1>4, BeginWriteIInv
<1>5. CASE WriteEntry
  BY <1>5, WriteEntryIInv
<1>6. CASE WriteRoot
  BY <1>6, WriteRootIInv
<1>7. CASE UNCHANGED vars
  BY <1>7 DEF vars, IInv, TypeOK
<1> QED
  BY <1>1, <1>2, <1>3, <1>4, <1>5, <1>6, <1>7, ContentsData DEF Next, Edit, Write

LEMMA Invariance == Spec => []IInv
<1>1. Init => IInv
  BY InitIInv
<1>2. IInv /\ [Next]_vars => IInv'
  BY StepIInv
<1> QED
  BY <1>1, <1>2, PTL DEF Spec

\* Every state of every history is well typed: the block map holds only legal
\* words and every first block is a block (FileSystemRoot).
THEOREM TypeSafety == Spec => []TypeOK
<1>1. IInv => TypeOK
  BY DEF IInv
<1> QED
  BY <1>1, Invariance, PTL

LEMMA HolderHolds ==
    ASSUME NEW i \in Holders
    PROVE  i \in 1..Len(entries) /\ Holds(entries, i)
BY DEF Holders, Live, Holds

\* No block is ever shared by two live files, or by a live file and the
\* directory, for every image size, set of files and history of operations.
THEOREM NoSharedBlocks == Spec => []ChainsDisjoint
<1>1. IInv => ChainsDisjoint
  <2> SUFFICES ASSUME IInv PROVE ChainsDisjoint
    OBVIOUS
  <2>1. /\ Sound(block_map) /\ HeadsOK(block_map, entries, block_number)
        /\ block_number \in Blocks /\ Unlinked(block_map, block_number)
    BY DEF IInv, TypeOK, RootOK
  <2>2. ASSUME NEW i \in Holders
        PROVE  /\ entries[i].block_number \in Blocks
               /\ Unlinked(block_map, entries[i].block_number)
               /\ entries[i].block_number # block_number
    BY <2>1, EntryTypes, HolderHolds DEF HeadsOK
  <2>3. ASSUME NEW i \in Holders, NEW j \in Holders, i # j
        PROVE  FileChain(i) \cap FileChain(j) = {}
    <3>1. entries[i].block_number # entries[j].block_number
      BY <2>1, <2>3, HolderHolds DEF HeadsOK
    <3> QED
      BY <2>1, <2>2, <3>1, ChainsApart DEF FileChain
  <2>4. ASSUME NEW i \in Holders
        PROVE  FileChain(i) \cap RootChain = {}
    BY <2>1, <2>2, ChainsApart DEF FileChain, RootChain
  <2> QED
    BY <2>3, <2>4 DEF ChainsDisjoint
<1> QED
  BY <1>1, Invariance, PTL

\* Every block of a live file's chain is in use, so that the allocator never
\* hands it out; the directory's blocks are not free either.
THEOREM ChainsStayHeld == Spec => []ChainsHeld
<1>1. IInv => ChainsHeld
  <2> SUFFICES ASSUME IInv PROVE ChainsHeld
    OBVIOUS
  <2>1. /\ Sound(block_map) /\ HeadsOK(block_map, entries, block_number)
        /\ block_number \in Blocks /\ block_map[block_number] # Free
    BY DEF IInv, TypeOK, RootOK
  <2>2. ASSUME NEW i \in Holders
        PROVE  \A x \in FileChain(i) : InUse(block_map[x])
    <3>1. entries[i].block_number \in Blocks /\ InUse(block_map[entries[i].block_number])
      BY <2>1, EntryTypes, HolderHolds DEF HeadsOK
    <3> QED
      BY <2>1, <3>1, ChainInUse DEF FileChain
  <2>3. \A x \in RootChain : block_map[x] # Free
    <3>1. \A x \in Chain(block_map, block_number) :
             x = block_number \/ \E y \in Blocks : IsLink(block_map[y]) /\ block_map[y] = x
      BY <2>1, ChainFacts DEF Sound
    <3>2. \A x \in Chain(block_map, block_number) : block_map[x] # Free
      BY <2>1, <3>1, WordFacts DEF Sound
    <3> QED
      BY <3>2 DEF RootChain
  <2> QED
    BY <2>2, <2>3 DEF ChainsHeld
<1> QED
  BY <1>1, Invariance, PTL

-----------------------------------------------------------------------------
(* What a step may never do: damage a file it is not about, leave a file   *)
(* half written when it reports success, change a file when it reports     *)
(* failure, lose a block, give up before the image is full, or touch a     *)
(* protected block.                                                        *)
(*                                                                         *)
(* Everything follows from the invariant above and one lemma on            *)
(* set_entry_data, which says what the call does to the chain it is for    *)
(* and that it leaves every other chain alone, map and image.              *)

\* The image img holds the data d on the chain of b in the map m.
On(m, img, b, d) ==
    /\ b # 0
    /\ Cardinality(Chain(m, b)) >= Len(d)
    /\ \A x \in Chain(m, b) :
          Position(m, b, x) <= Len(d) => img[x].chunk = d[Position(m, b, x)]

LEMMA OnImageIsOn ==
    ASSUME NEW i
    PROVE  OnImage(i) <=> On(block_map, image, entries[i].block_number, entries[i].data)
BY DEF OnImage, FileChain, On

\* Places on a chain count from 1.
LEMMA PlacesPositive ==
    ASSUME NEW m, IsMap(m), NEW b \in Blocks, NEW x \in Chain(m, b)
    PROVE  Position(m, b, x) \in Nat \ {0}
<1>1. Chain(m, x) \in SUBSET Chain(m, b) /\ Chain(m, b) \in SUBSET Blocks
  BY ChainInside, ChainFacts
<1>2. IsFiniteSet(Chain(m, b)) /\ Cardinality(Chain(m, b)) \in Nat
  BY <1>1, WordFacts, FS_Subset, FS_CardinalityType
<1>3. Cardinality(Chain(m, x)) \in Nat /\ Cardinality(Chain(m, x)) <= Cardinality(Chain(m, b))
  BY <1>1, <1>2, FS_Subset, FS_CardinalityType
<1> QED
  BY <1>2, <1>3 DEF Position

\* A chain the map and the image keep still holds what it held.
LEMMA OnKept ==
    ASSUME NEW m, IsMap(m), NEW n, IsMap(n), NEW img, NEW new, NEW b \in Blocks, NEW d,
           \A x \in Chain(m, b) : n[x] = m[x] /\ new[x] = img[x],
           On(m, img, b, d)
    PROVE  On(n, new, b, d)
<1>1. /\ Chain(n, b) = Chain(m, b)
      /\ \A x \in Chain(m, b) : Position(n, b, x) = Position(m, b, x)
  BY ChainSame
<1> QED
  BY <1>1 DEF On

-----------------------------------------------------------------------------
(* set_entry_data. *)

\* What the call for an entry with first block b and data d does to the map
\* and the image, beyond what SetEntryOK says.
SetEntryStep(b, d, s) ==
    \* every other chain stays, map and image,
    /\ \A h \in Blocks : h # b /\ Unlinked(block_map, h) /\ InUse(block_map[h]) =>
          \A x \in Chain(block_map, h) : s.map[x] = block_map[x] /\ s.image[x] = image[x]
    \* and so does every protected block;
    /\ \A x \in Blocks : block_map[x] # Free /\ ~InUse(block_map[x]) =>
          s.map[x] = block_map[x] /\ s.image[x] = image[x]
    \* a block in use is one of the entry's, or it was in use and is not one
    \* of those the entry had;
    /\ s.ok => \A x \in Blocks : InUse(s.map[x]) =>
          \/ x \in Chain(s.map, s.first)
          \/ s.map[x] = block_map[x] /\ (b # 0 => x \notin Chain(block_map, b))
    \* a success leaves the data on the image,
    /\ s.ok => On(s.map, s.image, s.first, d)
    \* a failure means a full image, and keeps what the chain held.
    /\ ~s.ok =>
          /\ FreeFrom(s.map, block_number) = {}
          /\ b # 0 => /\ Cardinality(Chain(block_map, b)) < BlocksNeeded(d)
                      /\ \A old \in Seq(Chunk) : On(block_map, image, b, old) =>
                                                  On(s.map, s.image, b, old)

LEMMA NeededFacts ==
    ASSUME NEW d \in Seq(Chunk)
    PROVE  /\ Len(d) \in Nat
           /\ BlocksNeeded(d) \in Nat \ {0}
           /\ BlocksNeeded(d) >= Len(d)
           /\ \A k \in Nat \ {0} : k >= Len(d) => k >= BlocksNeeded(d)
<1>1. d \in Seq(Chunk)
  BY FlashFSAssumption
<1> QED
  BY <1>1 DEF BlocksNeeded

\* The map and the first block set_entry_data works on once the entry has one.
LEMMA FirstTaken ==
    ASSUME IInv, NEW b \in Blocks,
           b # 0 => InUse(block_map[b]) /\ Unlinked(block_map, b)
    PROVE  LET first == FirstBlock(b)
               m     == IF b = 0 /\ first # 0 THEN [block_map EXCEPT ![first] = End]
                                              ELSE block_map
           IN  /\ first \in Blocks
               /\ b # 0 => first = b
               /\ first = 0 => b = 0 /\ FreeFrom(block_map, block_number) = {}
               /\ first # 0 =>
                     /\ Sound(m) /\ Unlinked(m, first) /\ InUse(m[first])
                     /\ \A x \in Blocks : block_map[x] # Free => m[x] = block_map[x]
                     /\ \A x \in Blocks : m[x] # block_map[x] => x = first
                     /\ b = 0 => block_map[first] = Free /\ m[first] = End
                     /\ b # 0 => m = block_map
<1> DEFINE first == FirstBlock(b)
           avail == FreeFrom(block_map, block_number)
           e == [block_map EXCEPT ![first] = End]
<1>1. Sound(block_map) /\ IsMap(block_map)
  BY DEF IInv, Sound
<1>2. avail \subseteq Blocks /\ \A x \in avail : block_map[x] = Free /\ x # 0
  <2>1. ~(0 >= FirstUsable)
    BY SizeAssumption
  <2> QED
    BY <2>1 DEF FreeFrom
<1>3. avail # {} => Least(avail) \in avail
  BY <1>2, WordFacts, LeastFact
<1>4. /\ b # 0 => first = b
      /\ b = 0 /\ avail = {} => first = 0
      /\ b = 0 /\ avail # {} => first \in avail
  BY <1>3 DEF FirstBlock
<1>5. first \in Blocks
  BY <1>2, <1>4, ZeroBlock
<1> HIDE DEF first, avail
<1>6. ASSUME b = 0, first # 0
      PROVE  /\ Sound(e) /\ Unlinked(e, first) /\ InUse(e[first]) /\ e[first] = End
             /\ block_map[first] = Free
             /\ \A x \in Blocks : x # first => e[x] = block_map[x]
  <2>1. block_map[first] = Free
    BY <1>2, <1>4, <1>6
  <2>2. \A x \in Blocks : e[x] = IF x = first THEN End ELSE block_map[x]
    BY <1>1 DEF IsMap
  <2>3. IsMap(e)
    BY <1>1, <1>5 DEF IsMap, Words
  <2>4. \A x \in Blocks : IsLink(block_map[x]) => block_map[x] # first
    BY <1>1, <2>1, WordFacts DEF Sound
  <2>5. \A x \in Blocks : IsLink(e[x]) => x # first /\ e[x] = block_map[x]
    BY <2>2, WordFacts
  <2> HIDE DEF e
  <2>6. Sound(e)
    <3>1. ASSUME NEW x \in Blocks, IsLink(e[x]) PROVE InUse(e[e[x]])
      BY <1>1, <2>2, <2>4, <2>5, <3>1, WordFacts DEF Sound
    <3>2. \A x, y \in Blocks : IsLink(e[x]) /\ e[x] = e[y] => x = y
      BY <1>1, <2>5 DEF Sound
    <3> QED
      BY <2>3, <3>1, <3>2 DEF Sound
  <2>7. Unlinked(e, first) /\ InUse(e[first]) /\ e[first] = End
    BY <1>5, <2>2, <2>4, <2>5, WordFacts DEF Unlinked
  <2> QED
    BY <2>1, <2>2, <2>6, <2>7
<1>7. CASE first = 0
  BY <1>4, <1>5, <1>7, <1>2 DEF first, avail
<1>8. CASE first # 0 /\ b = 0
  <2>1. \A x \in Blocks : block_map[x] # Free => x # first
    BY <1>6, <1>8
  <2> HIDE DEF e
  <2>2. /\ Sound(e) /\ Unlinked(e, first) /\ InUse(e[first]) /\ e[first] = End
        /\ block_map[first] = Free
        /\ \A x \in Blocks : x # first => e[x] = block_map[x]
    BY <1>6, <1>8
  <2> QED
    BY <1>5, <1>8, <2>1, <2>2 DEF first, e
<1>9. CASE b # 0
  BY <1>1, <1>4, <1>5, <1>9 DEF first
<1> QED
  BY <1>7, <1>8, <1>9

LEMMA SetEntrySteps ==
    ASSUME IInv, NEW b \in Blocks, NEW d \in Seq(Chunk),
           b # 0 => InUse(block_map[b]) /\ Unlinked(block_map, b)
    PROVE  SetEntryStep(b, d, SetEntryData(b, d))
<1> DEFINE first == FirstBlock(b)
           need  == BlocksNeeded(d)
           m     == IF b = 0 /\ first # 0 THEN [block_map EXCEPT ![first] = End] ELSE block_map
           r     == Resize(m, first, need, block_number)
           s     == SetEntryData(b, d)
<1>1. Sound(block_map) /\ IsMap(block_map)
  BY DEF IInv, Sound
<1>2. /\ first \in Blocks
      /\ b # 0 => first = b
      /\ first = 0 => b = 0 /\ FreeFrom(block_map, block_number) = {}
      /\ first # 0 =>
            /\ Sound(m) /\ Unlinked(m, first) /\ InUse(m[first])
            /\ \A x \in Blocks : block_map[x] # Free => m[x] = block_map[x]
            /\ \A x \in Blocks : m[x] # block_map[x] => x = first
            /\ b = 0 => block_map[first] = Free /\ m[first] = End
            /\ b # 0 => m = block_map
  BY FirstTaken
<1>3. CASE first = 0
  <2>1. /\ s.map = block_map /\ ~s.ok
        /\ s.image = Zeroed(image, {x \in Blocks : block_map[x] = Free /\ block_map[x] # Free})
    BY <1>3 DEF SetEntryData
  <2>2. \A x \in Blocks : s.image[x] = image[x]
    BY <2>1 DEF Zeroed
  <2>3. b = 0 /\ FreeFrom(block_map, block_number) = {}
    BY <1>2, <1>3
  <2>4. \A h \in Blocks : Chain(block_map, h) \subseteq Blocks
    BY <1>1, ChainFacts
  <2> HIDE DEF s
  <2>5. ~s.ok /\ FreeFrom(s.map, block_number) = {}
    BY <2>1, <2>3
  <2>6. \A x \in Blocks : s.map[x] = block_map[x] /\ s.image[x] = image[x]
    BY <2>1, <2>2
  <2>7. SetEntryStep(b, d, s)
    <3>1. \A h \in Blocks : \A x \in Chain(block_map, h) :
             s.map[x] = block_map[x] /\ s.image[x] = image[x]
      BY <2>4, <2>6
    <3> QED
      BY <2>3, <2>5, <2>6, <3>1 DEF SetEntryStep
  <2> QED
    BY <2>7 DEF s
<1>4. CASE first # 0
  <2> DEFINE Z  == {x \in Blocks : block_map[x] = Free /\ r[x] # Free}
             ok == CanResize(m, first, need, block_number)
             D  == Chain(m, first)
             E  == Chain(r, first)
  <2>1. /\ s.ok = ok /\ s.map = r /\ s.first = first
        /\ s.image = IF ok THEN Stored(Zeroed(image, Z), r, first, d) ELSE Zeroed(image, Z)
    <3> DEFINE t == IF first = 0 THEN m ELSE r
               Y == {x \in Blocks : block_map[x] = Free /\ t[x] # Free}
               c == first # 0 /\ ok
    <3>1. s = [ok    |-> c,
               first |-> first,
               map   |-> t,
               image |-> IF c THEN Stored(Zeroed(image, Y), t, first, d) ELSE Zeroed(image, Y)]
      BY DEF SetEntryData
    <3>2. t = r /\ Y = Z /\ c = ok
      BY <1>4 DEF CanResize
    <3> HIDE DEF s, t, Y, c, r, Z, ok, m, first
    <3> QED
      BY <3>1, <3>2
  <2>2. /\ Sound(m) /\ Unlinked(m, first) /\ InUse(m[first])
        /\ \A x \in Blocks : block_map[x] # Free => m[x] = block_map[x]
        /\ \A x \in Blocks : m[x] # block_map[x] => x = first
        /\ b = 0 => block_map[first] = Free /\ m[first] = End
        /\ b # 0 => m = block_map
    BY <1>2, <1>4
  <2>3. /\ need \in Nat \ {0} /\ Len(d) \in Nat /\ need >= Len(d)
    BY NeededFacts
  <2> HIDE DEF m, first, need, s
  <2>4. ResizeOK(m, first, need, block_number)
    BY <1>2, <2>2, <2>3, ResizeFacts
  <2>5. /\ Sound(r)
        /\ \A h \in Blocks : Unlinked(m, h) /\ m[h] # Free => Unlinked(r, h)
        /\ InUse(r[first]) /\ Unlinked(r, first)
    <3>1. \A h \in Blocks : Unlinked(m, h) /\ m[h] # Free =>
             /\ Unlinked(r, h)
             /\ InUse(m[h]) => InUse(r[h])
      BY <1>2, <2>2, <2>3, ResizeSound
    <3>2. m[first] # Free
      BY <2>2, WordFacts
    <3>3. Sound(r)
      BY <1>2, <2>2, <2>3, ResizeSound
    <3> QED
      BY <1>2, <2>2, <3>1, <3>2, <3>3
  <2>6. /\ \A x \in Blocks : x \notin D /\ m[x] # Free => r[x] = m[x]
        /\ \A x \in Blocks : InUse(r[x]) => x \in E \/ (x \notin D /\ r[x] = m[x])
        /\ ok => Cardinality(E) >= need
        /\ ~ok => /\ FreeFrom(r, block_number) = {}
                  /\ Cardinality(D) < need
                  /\ Cardinality(E) >= Cardinality(D)
                  /\ \A x \in D : Position(r, first, x) = Position(m, first, x)
                  /\ \A x \in E : x \in D \/ Position(r, first, x) > Cardinality(D)
    BY <2>4 DEF ResizeOK
  <2> HIDE DEF r
  <2>7. /\ IsMap(m) /\ IsMap(r) /\ first \in D /\ D \subseteq Blocks /\ E \subseteq Blocks
        /\ (\A x \in D : InUse(m[x])) /\ (\A x \in E : InUse(r[x]))
    BY <1>2, <2>2, <2>5, ChainFacts, ChainInUse DEF Sound
  \* The image outside the entry's chain.
  <2>8. \A x \in Blocks : x \notin E /\ block_map[x] # Free => s.image[x] = image[x]
    <3> SUFFICES ASSUME NEW x \in Blocks, x \notin E, block_map[x] # Free
                 PROVE  s.image[x] = image[x]
      OBVIOUS
    <3>1. Zeroed(image, Z)[x] = image[x]
      BY DEF Zeroed
    <3> HIDE DEF Z, ok
    <3>2. Stored(Zeroed(image, Z), r, first, d)[x] = Zeroed(image, Z)[x]
      BY DEF Stored
    <3> QED
      BY <2>1, <3>1, <3>2
  <2>9. ASSUME NEW h \in Blocks, h # b, Unlinked(block_map, h), InUse(block_map[h])
        PROVE  \A x \in Chain(block_map, h) : s.map[x] = block_map[x] /\ s.image[x] = image[x]
    <3> DEFINE C == Chain(block_map, h)
    <3>1. C \subseteq Blocks /\ h \in C /\ \A x \in C : InUse(block_map[x])
      BY <1>1, <2>9, ChainFacts, ChainInUse
    <3>2. \A x \in C : block_map[x] # Free
      BY <3>1, WordFacts
    <3>3. h # first
      BY <1>2, <2>2, <2>9, <3>1, <3>2
    <3>4. \A x \in C : m[x] = block_map[x]
      BY <2>2, <3>1, <3>2
    <3>5. Unlinked(m, h)
      <4> SUFFICES ASSUME NEW x \in Blocks, IsLink(m[x]), m[x] = h PROVE FALSE
        BY DEF Unlinked
      <4>1. CASE m[x] = block_map[x]
        BY <2>9, <4>1 DEF Unlinked
      <4>2. CASE m[x] # block_map[x]
        BY <2>2, <4>2, WordFacts
      <4> QED
        BY <4>1, <4>2
    <3>6. Chain(m, h) = C
      BY <1>1, <2>7, <3>4, ChainSame
    <3>7. C \cap D = {}
      BY <1>2, <2>2, <3>3, <3>5, <3>6, ChainsApart
    <3>8. \A x \in C : r[x] = m[x]
      BY <2>6, <3>1, <3>2, <3>4, <3>7
    <3>9. Chain(r, h) = C
      BY <2>7, <3>6, <3>8, ChainSame
    <3>10. Unlinked(r, h)
      BY <2>5, <3>1, <3>2, <3>4, <3>5
    <3>11. C \cap E = {}
      BY <1>2, <2>5, <3>3, <3>9, <3>10, ChainsApart
    <3> HIDE DEF C, D, E
    <3>12. \A x \in C : s.image[x] = image[x]
      BY <2>8, <3>1, <3>2, <3>11
    <3> QED
      BY <2>1, <3>4, <3>8, <3>12 DEF C
  <2>10. ASSUME NEW x \in Blocks, block_map[x] # Free, ~InUse(block_map[x])
         PROVE  s.map[x] = block_map[x] /\ s.image[x] = image[x]
    <3>1. m[x] = block_map[x]
      BY <2>2, <2>10
    <3>2. x \notin D
      BY <2>7, <2>10, <3>1
    <3>3. r[x] = block_map[x]
      BY <2>6, <2>10, <3>1, <3>2
    <3>4. x \notin E
      BY <2>7, <2>10, <3>3
    <3> QED
      BY <2>1, <2>8, <2>10, <3>3, <3>4
  <2>11. ASSUME NEW x \in Blocks, InUse(r[x])
         PROVE  x \in E \/ (r[x] = block_map[x] /\ (b # 0 => x \notin Chain(block_map, b)))
    <3>1. CASE x \in E
      BY <3>1
    <3>2. CASE x \notin E
      <4>1. x \notin D /\ r[x] = m[x]
        BY <2>6, <2>11, <3>2
      <4>2. x # first
        BY <2>7, <4>1
      <4>3. m[x] = block_map[x]
        BY <2>2, <4>2
      <4> QED
        BY <1>2, <2>2, <4>1, <4>3
    <3> QED
      BY <3>1, <3>2
  <2>12. ASSUME ok PROVE On(r, s.image, first, d)
    <3>1. s.image = Stored(Zeroed(image, Z), r, first, d)
      BY <2>1, <2>12
    <3>2. \A x \in E : s.image[x] = DataBlock(ChunkAt(d, Position(r, first, x)))
      BY <2>7, <3>1 DEF Stored
    <3>3. \A x \in E : Position(r, first, x) \in Nat \ {0}
      BY <1>2, <2>7, PlacesPositive
    <3>4. ASSUME NEW x \in E, Position(r, first, x) <= Len(d)
          PROVE  s.image[x].chunk = d[Position(r, first, x)]
      <4> DEFINE k == Position(r, first, x)
      <4>1. k \in 1..Len(d)
        BY <2>3, <3>3, <3>4
      <4>2. s.image[x] = DataBlock(ChunkAt(d, k))
        BY <3>2
      <4> HIDE DEF k
      <4>3. s.image[x].chunk = ChunkAt(d, k)
        BY <4>2 DEF DataBlock
      <4> QED
        BY <4>1, <4>3 DEF ChunkAt, k
    <3>5. Cardinality(E) >= Len(d)
      <4>1. Cardinality(E) \in Nat
        BY <2>7, WordFacts, FS_Subset, FS_CardinalityType
      <4> QED
        BY <2>3, <2>6, <2>12, <4>1
    <3> QED
      BY <1>4, <3>4, <3>5 DEF On
  <2>13. ASSUME ~ok, b # 0, NEW old \in Seq(Chunk), On(block_map, image, b, old)
         PROVE  On(r, s.image, b, old)
    <3>1. first = b /\ m = block_map
      BY <1>2, <2>2, <2>13
    <3>2. /\ Cardinality(D) >= Len(old)
          /\ \A x \in D : Position(m, b, x) <= Len(old) => image[x].chunk = old[Position(m, b, x)]
      BY <2>13, <3>1 DEF On
    <3>3. Cardinality(D) \in Nat /\ Cardinality(E) \in Nat /\ Len(old) \in Nat
      BY <2>7, WordFacts, FS_Subset, FS_CardinalityType, NeededFacts
    <3>4. Cardinality(E) >= Len(old)
      BY <2>6, <2>13, <3>2, <3>3
    <3>5. \A x \in D : s.image[x] = image[x]
      <4>1. s.image = Zeroed(image, Z)
        BY <2>1, <2>13
      <4>2. \A x \in D : block_map[x] # Free
        BY <2>7, <3>1, WordFacts
      <4> QED
        BY <2>7, <4>1, <4>2 DEF Zeroed
    <3>6. ASSUME NEW x \in E, Position(r, b, x) <= Len(old)
          PROVE  s.image[x].chunk = old[Position(r, b, x)]
      <4>1. Position(r, b, x) \in Nat
        BY <1>2, <2>7, <3>1, PlacesPositive
      <4>2. x \in D
        BY <2>6, <2>13, <3>1, <3>2, <3>3, <3>6, <4>1
      <4>3. Position(r, b, x) = Position(m, b, x)
        BY <2>6, <2>13, <3>1, <4>2
      <4> QED
        BY <3>2, <3>5, <3>6, <4>2, <4>3
    <3> QED
      BY <2>13, <3>1, <3>4, <3>6 DEF On
  <2>14. ~ok => /\ FreeFrom(r, block_number) = {}
                /\ b # 0 => Cardinality(Chain(block_map, b)) < need
    BY <1>2, <2>2, <2>6
  <2> HIDE DEF Z, ok, D
  <2> QED
    BY <2>1, <2>9, <2>10, <2>11, <2>12, <2>13, <2>14 DEF SetEntryStep, s, need
<1> QED
  BY <1>3, <1>4

-----------------------------------------------------------------------------
(* The directory. *)

\* Once the directory is written its chain is its old first block, if it had
\* one, and the blocks it took.
LEMMA RootChainAfter ==
    ASSUME IInv,
           Cardinality(RootGrowth) + (IF block_number = 0 THEN 0 ELSE 1) >= RootBlocksNeeded
    PROVE  LET root == IF block_number = 0 THEN Least(RootGrowth) ELSE block_number
               ext  == Extend(RootCut, root, RootGrowth)
           IN  /\ root \in Blocks \ {0}
               /\ block_number = 0 => root \in RootGrowth
               /\ block_number # 0 => root \notin RootGrowth
               /\ Sound(ext)
               /\ Chain(ext, root) = RootGrowth \cup {root}
               /\ \A x \in Chain(ext, root) : InUse(ext[x])
               /\ \A x \in Blocks : x \notin RootGrowth /\ x # root => ext[x] = RootCut[x]
<1> DEFINE r    == block_number
           m    == RootCut
           G    == RootGrowth
           root == IF r = 0 THEN Least(G) ELSE r
           ext  == Extend(m, root, G)
<1>1. Sound(m) /\ Unlinked(m, r) /\ (r # 0 => m[r] = End) /\ r \in Blocks
  BY RootCutFacts DEF IInv, TypeOK, RootOK
<1>2. G \in SUBSET (Blocks \ {0}) /\ \A x \in G : m[x] = Free
  BY LowestFree DEF RootGrowth
<1> HIDE DEF m, G
<1>3. CASE r = 0
  <2>1. G # {}
    <3>1. SUFFICES ASSUME G = {} PROVE FALSE
      OBVIOUS
    <3>2. Cardinality(G) = 0
      BY <3>1, FS_EmptySet
    <3> QED
      BY <1>3, <3>2, RootNeedsBlocks DEF G
  <2>2. root = Least(G)
    BY <1>3
  <2>3. root \in G
    BY <1>2, <2>1, <2>2, LeastFact, WordFacts
  <2>4. Chain(ext, root) = G
    BY <1>1, <1>2, <2>1, <2>2, FreshChain
  <2> HIDE DEF root
  <2>5. /\ Sound(ext) /\ \A x \in G : InUse(ext[x])
        /\ \A x \in Blocks \ G : x # root => ext[x] = m[x]
    BY <1>1, <1>2, <2>3, ExtendSound
  <2> HIDE DEF ext
  <2> QED
    BY <1>2, <1>3, <2>3, <2>4, <2>5 DEF ext, root, m, G
<1>4. CASE r # 0
  <2>1. root = r /\ root \in Blocks /\ root # 0
    BY <1>1, <1>4
  <2> HIDE DEF root
  <2>2. m[root] = End /\ Unlinked(m, root) /\ ~IsLink(m[root]) /\ InUse(m[root])
    BY <1>1, <1>4, <2>1, WordFacts
  <2>3. root \notin G
    BY <1>2, <2>2, WordFacts
  <2>4. Chain(m, root) = {root}
    BY <1>1, <2>1, <2>2, ChainStep DEF Sound
  <2>5. LastOf(m, root) = root
    BY <1>1, <2>1, <2>2, <2>4, LastUnique
  <2>6. Chain(ext, root) = {root} \cup G
    BY <1>1, <1>2, <2>1, <2>2, <2>4, <2>5, ExtendChain
  <2>7. /\ Sound(ext) /\ (\A x \in G : InUse(ext[x])) /\ InUse(ext[root])
        /\ \A x \in Blocks \ G : x # root => ext[x] = m[x]
    BY <1>1, <1>2, <2>1, <2>2, ExtendSound
  <2> HIDE DEF ext
  <2> QED
    BY <1>4, <2>1, <2>3, <2>6, <2>7 DEF ext, root, m, G
<1> QED
  BY <1>3, <1>4

\* What the words of RootCut are, and that no file is on the blocks it frees.
LEMMA RootCutWords ==
    ASSUME IInv
    PROVE  /\ \A x \in Blocks : x # block_number /\ (block_number # 0 => x \notin RootChain) =>
                  RootCut[x] = block_map[x]
           /\ block_number # 0 => \A x \in RootChain : x # block_number => RootCut[x] = Free
           /\ \A x \in RootChain : x \in Blocks /\ (x # block_number => InUse(block_map[x]))
           /\ \A x \in RootGrowth : x \in Blocks /\ RootCut[x] = Free
<1>1. block_number \in Blocks /\ Sound(block_map) /\ IsMap(block_map)
  BY DEF IInv, TypeOK, Sound
<1>2. \A x \in RootGrowth : x \in Blocks /\ RootCut[x] = Free
  BY LowestFree DEF RootGrowth
<1>3. CASE block_number = 0
  BY <1>2, <1>3 DEF RootCut, RootChain
<1>4. CASE block_number # 0
  <2> DEFINE C == Chain(block_map, block_number)
  <2>1. RootChain = C
    BY <1>4 DEF RootChain
  <2>2. RootCut = [x \in Blocks |-> IF x = block_number THEN End
                                     ELSE IF x \in C THEN Free ELSE block_map[x]]
    BY <1>4 DEF RootCut
  <2>3. /\ C \subseteq Blocks
        /\ \A x \in C : x # block_number => \E y \in C : IsLink(block_map[y]) /\ block_map[y] = x
    BY <1>1, ChainFacts
  <2>4. \A x \in C : x # block_number => InUse(block_map[x])
    BY <1>1, <2>3 DEF Sound
  <2> HIDE DEF C
  <2>5. \A x \in Blocks : x # block_number /\ x \notin C => RootCut[x] = block_map[x]
    BY <2>2
  <2>6. \A x \in C : x \in Blocks /\ (x # block_number => RootCut[x] = Free)
    BY <2>2, <2>3
  <2> QED
    BY <1>2, <1>4, <2>1, <2>4, <2>5, <2>6
<1> QED
  BY <1>3, <1>4

\* Writing the directory leaves the other chains and the protected blocks
\* alone, and loses no block when it succeeds.
LEMMA WriteRootStep ==
    ASSUME IInv, WriteRoot
    PROVE  /\ \A h \in Blocks :
                 h # 0 /\ h # block_number /\ Unlinked(block_map, h) /\ InUse(block_map[h]) =>
                 \A x \in Chain(block_map, h) :
                    block_map'[x] = block_map[x] /\ image'[x] = image[x]
           /\ \A x \in Blocks : block_map[x] = Reserved /\ x # block_number =>
                 block_map'[x] = Reserved /\ image'[x] = image[x]
           /\ result' = "ok" =>
                 /\ block_number' # 0
                 /\ \A x \in Blocks : InUse(block_map'[x]) =>
                       \/ x \in Chain(block_map', block_number')
                       \/ block_map'[x] = block_map[x] /\ x \notin RootChain
<1> DEFINE r    == block_number
           m    == RootCut
           G    == RootGrowth
           held == IF r = 0 THEN 0 ELSE 1
           root == IF r = 0 THEN Least(G) ELSE r
           ext  == Extend(m, root, G)
           K    == {x \in Blocks : /\ x # r /\ (r # 0 => x \notin RootChain)
                                   /\ block_map[x] # Free}
<1>1. /\ \A x \in Blocks : x # r /\ (r # 0 => x \notin RootChain) => m[x] = block_map[x]
      /\ r # 0 => \A x \in RootChain : x # r => m[x] = Free
      /\ \A x \in RootChain : x \in Blocks /\ (x # r => InUse(block_map[x]))
      /\ \A x \in G : x \in Blocks /\ m[x] = Free
  BY RootCutWords
\* The blocks of the other chains and the protected ones are in K.
<1>2. ASSUME NEW h \in Blocks, h # 0, h # r, Unlinked(block_map, h), InUse(block_map[h])
      PROVE  Chain(block_map, h) \subseteq K
  <2>1. Sound(block_map) /\ r \in Blocks /\ Unlinked(block_map, r)
    BY DEF IInv, TypeOK, RootOK
  <2>2. Chain(block_map, h) \subseteq Blocks /\ \A x \in Chain(block_map, h) : block_map[x] # Free
    BY <1>2, <2>1, ChainFacts, ChainInUse, WordFacts DEF Sound
  <2>3. Chain(block_map, h) \cap Chain(block_map, r) = {} /\ r \in Chain(block_map, r)
    BY <1>2, <2>1, ChainsApart, ChainFacts DEF Sound
  <2> QED
    BY <2>2, <2>3 DEF RootChain
<1>3. \A x \in Blocks : block_map[x] = Reserved /\ x # r => x \in K
  BY <1>1, WordFacts DEF Free, Reserved
<1>4. \A x \in K : m[x] = block_map[x] /\ x \notin G
  BY <1>1
<1> HIDE DEF m, G
<1>5. CASE /\ Cardinality(G) + held < RootBlocksNeeded
           /\ block_map' = m /\ image' = Zeroed(image, G) /\ result' = "err"
  <2>1. \A x \in K : image'[x] = image[x] /\ block_map'[x] = block_map[x]
    BY <1>4, <1>5 DEF Zeroed
  <2> HIDE DEF K
  <2> QED
    BY <1>2, <1>3, <1>5, <2>1
<1>6. CASE /\ Cardinality(G) + held >= RootBlocksNeeded
           /\ block_number' = root /\ block_map' = ext
           /\ image' = [x \in Blocks |->
                           IF x \in Chain(ext, root)
                           THEN RootShare(ext, Position(ext, root, x))
                           ELSE image[x]]
  <2>1. /\ root \in Blocks \ {0}
        /\ r = 0 => root \in G
        /\ Chain(ext, root) = G \cup {root}
        /\ \A x \in Blocks : x \notin G /\ x # root => ext[x] = m[x]
    BY <1>6, RootChainAfter DEF m, G
  <2>2. r # 0 => root = r
    OBVIOUS
  <2> HIDE DEF ext, root
  <2>3. \A x \in K : x # root /\ x \notin G
    BY <1>4, <2>1, <2>2
  <2>4. \A x \in K : image'[x] = image[x] /\ block_map'[x] = block_map[x]
    BY <1>4, <1>6, <2>1, <2>3
  <2>5. ASSUME NEW x \in Blocks, InUse(ext[x]), x \notin Chain(ext, root)
        PROVE  ext[x] = block_map[x] /\ x \notin RootChain
    <3>1. x \notin G /\ x # root /\ ext[x] = m[x]
      BY <2>1, <2>5
    <3>2. CASE r = 0
      <4>1. RootChain = {} /\ m = block_map
        BY <3>2 DEF RootChain, RootCut, m
      <4> QED
        BY <3>1, <4>1
    <3>3. CASE r # 0
      <4>1. x \notin RootChain
        BY <1>1, <2>2, <2>5, <3>1, <3>3, WordFacts DEF m
      <4> QED
        BY <1>1, <2>2, <3>1, <3>3, <4>1 DEF m
    <3> QED
      BY <3>2, <3>3
  <2> HIDE DEF K
  <2> QED
    BY <1>2, <1>3, <1>6, <2>1, <2>4, <2>5
<1> QED
  BY <1>5, <1>6 DEF WriteRoot, m, G

-----------------------------------------------------------------------------
(* Files that are on the image stay there. *)

\* The first block of a live file starts a chain of its own.
LEMMA LiveHead ==
    ASSUME IInv, NEW i \in Live, entries[i].block_number # 0
    PROVE  LET h == entries[i].block_number IN
           /\ h \in Blocks /\ InUse(block_map[h]) /\ Unlinked(block_map, h)
           /\ h # block_number
           /\ \A j \in Live : j # i => entries[j].block_number # h
<1>1. i \in 1..Len(entries) /\ Holds(entries, i) /\ HeadsOK(block_map, entries, block_number)
  BY DEF Live, Holds, IInv
<1>2. entries[i].block_number \in Blocks
  BY <1>1, EntryTypes
<1>3. \A j \in Live : j # i => entries[j].block_number # entries[i].block_number
  BY <1>1 DEF HeadsOK, Live, Holds
<1> QED
  BY <1>1, <1>2, <1>3 DEF HeadsOK

\* A step that leaves a file's entry, chain and blocks alone keeps it on the
\* image.
LEMMA FileKept ==
    ASSUME IInv, IInv', NEW i \in Live, OnImage(i),
           entries'[i].block_number = entries[i].block_number,
           entries'[i].data = entries[i].data,
           \A x \in FileChain(i) : block_map'[x] = block_map[x] /\ image'[x] = image[x]
    PROVE  OnImage(i)'
<1> DEFINE b == entries[i].block_number
           d == entries[i].data
<1>1. IsMap(block_map) /\ IsMap(block_map')
  BY DEF IInv, Sound
<1>2. On(block_map, image, b, d)
  BY OnImageIsOn
<1>3. b \in Blocks
  BY EntryTypes DEF Live
<1>4. \A x \in Chain(block_map, b) : block_map'[x] = block_map[x] /\ image'[x] = image[x]
  BY DEF FileChain
<1> HIDE DEF b, d
<1>5. On(block_map', image', b, d)
  BY <1>1, <1>2, <1>3, <1>4, OnKept
<1> QED
  BY <1>5 DEF On, OnImage, FileChain, b, d

\* The entry at i after an operation that gave it the data d.
LEMMA FileStored ==
    ASSUME NEW i, NEW d, NEW b, On(block_map', image', b, d),
           entries'[i].block_number = b, entries'[i].data = d
    PROVE  OnImage(i)'
BY DEF On, OnImage, FileChain

\* What set_entry_data does for the entry at j keeps every other file.
LEMMA OthersKept ==
    ASSUME IInv, IInv', NEW j \in Live, NEW d \in Seq(Chunk),
           LET s == SetEntryData(entries[j].block_number, d)
           IN  block_map' = s.map /\ image' = s.image,
           NEW i \in Live, i # j, OnImage(i), entries'[i].block_number = entries[i].block_number,
           entries'[i].data = entries[i].data
    PROVE  OnImage(i)'
<1> DEFINE b == entries[j].block_number
           h == entries[i].block_number
           s == SetEntryData(b, d)
<1>1. h # 0
  BY DEF OnImage
<1>2. /\ h \in Blocks /\ InUse(block_map[h]) /\ Unlinked(block_map, h) /\ b # h
  BY <1>1, LiveHead
<1>3. b \in Blocks /\ (b # 0 => InUse(block_map[b]) /\ Unlinked(block_map, b))
  BY EntryFacts DEF Live
<1>4. SetEntryStep(b, d, s)
  BY <1>3, SetEntrySteps
<1> HIDE DEF s
<1>5. \A x \in Chain(block_map, h) : s.map[x] = block_map[x] /\ s.image[x] = image[x]
  BY <1>2, <1>4 DEF SetEntryStep
<1> QED
  BY <1>5, FileKept DEF FileChain, s

LEMMA InjectKeeps ==
    ASSUME IInv, IInv', NEW n \in Names, NEW d \in Seq(Chunk), InjectFile(n, d),
           NEW i \in Live, OnImage(i)
    PROVE  OnImage(i)'
<1> DEFINE s == SetEntryData(0, d)
           h == entries[i].block_number
<1>1. h # 0
  BY DEF OnImage
<1>2. h \in Blocks /\ InUse(block_map[h]) /\ Unlinked(block_map, h)
  BY <1>1, LiveHead
<1>3. SetEntryStep(0, d, s)
  BY ZeroBlock, SetEntrySteps
<1>4. entries'[i] = entries[i]
  <2>1. entries \in Seq(Entry) /\ i \in 1..Len(entries)
    BY DEF IInv, TypeOK, Live
  <2> QED
    BY <2>1 DEF InjectFile
<1> HIDE DEF s
<1>5. \A x \in Chain(block_map, h) : s.map[x] = block_map[x] /\ s.image[x] = image[x]
  BY <1>1, <1>2, <1>3 DEF SetEntryStep
<1>6. \/ block_map' = block_map /\ image' = image
      \/ block_map' = s.map /\ image' = s.image
  BY DEF InjectFile, s
<1> QED
  BY <1>4, <1>5, <1>6, FileKept DEF FileChain

LEMMA ReplaceKeeps ==
    ASSUME IInv, IInv', NEW n \in Names, NEW d \in Seq(Chunk), ReplaceFile(n, d),
           NEW i \in Live, OnImage(i)
    PROVE  OnImage(i)'
<1>0. entries \in Seq(Entry) /\ i \in 1..Len(entries)
  BY DEF IInv, TypeOK, Live
<1>1. CASE LiveNamed(n) = {}
  BY <1>1, FileKept DEF ReplaceFile
<1>2. CASE LiveNamed(n) # {}
  <2> DEFINE j == First(LiveNamed(n))
             b == entries[j].block_number
             s == SetEntryData(b, d)
  <2>1. j \in Live
    BY <1>0, <1>2, FirstExists DEF LiveNamed
  <2>2. /\ block_map' = s.map /\ image' = s.image
        /\ entries' = IF s.ok
                      THEN [entries EXCEPT ![j].block_number = s.first,
                                           ![j].size = Len(d), ![j].data = d]
                      ELSE entries
    BY <1>2 DEF ReplaceFile
  <2>3. j \in 1..Len(entries) /\ entries[j] \in Entry
    BY <2>1, EntryTypes DEF Live
  <2>4. b \in Blocks /\ (b # 0 => InUse(block_map[b]) /\ Unlinked(block_map, b))
    BY <2>1, EntryFacts DEF Live
  <2>5. SetEntryStep(b, d, s)
    BY <2>4, SetEntrySteps
  <2> HIDE DEF j
  <2>6. CASE i # j
    <3>1. entries'[i] = entries[i]
      BY <1>0, <2>2, <2>3, <2>6
    <3> QED
      BY <2>1, <2>2, <2>6, <3>1, OthersKept
  <2>7. CASE i = j /\ s.ok
    <3>1. On(s.map, s.image, s.first, d)
      BY <2>5, <2>7 DEF SetEntryStep
    <3> HIDE DEF s
    <3>2. entries'[j].block_number = s.first /\ entries'[j].data = d
      BY <1>0, <2>2, <2>3, <2>7 DEF Entry
    <3> QED
      BY <2>2, <2>7, <3>1, <3>2, FileStored
  <2>8. CASE i = j /\ ~s.ok
    <3> DEFINE old == entries[i].data
    <3>1. On(block_map, image, b, old) /\ old \in Seq(Chunk)
      BY <1>0, <2>8, OnImageIsOn, EntryTypes
    <3>2. b # 0
      BY <3>1 DEF On
    <3> HIDE DEF old, s
    <3>3. On(s.map, s.image, b, old)
      BY <2>5, <2>8, <3>1, <3>2 DEF SetEntryStep
    <3>4. On(block_map', image', b, old)
      BY <2>2, <3>3
    <3>5. entries'[i].block_number = b /\ entries'[i].data = old
      BY <2>2, <2>8 DEF old
    <3> QED
      BY <3>4, <3>5, FileStored
  <2> QED
    BY <2>6, <2>7, <2>8
<1> QED
  BY <1>1, <1>2

\* delete_file frees the chain of the file it deletes and no other.
LEMMA DeleteStep ==
    ASSUME IInv, NEW b \in Blocks, InUse(block_map[b]), Unlinked(block_map, b),
           NEW h \in Blocks, h # b, Unlinked(block_map, h)
    PROVE  \A x \in Chain(block_map, h) : FreeChain(block_map, b)[x] = block_map[x]
<1>1. Sound(block_map)
  BY DEF IInv
<1>2. Chain(block_map, h) \cap Chain(block_map, b) = {}
  BY <1>1, ChainsApart
<1>3. Chain(block_map, h) \subseteq Blocks
  BY <1>1, ChainFacts DEF Sound
<1> QED
  BY <1>2, <1>3 DEF FreeChain

LEMMA DeleteKeeps ==
    ASSUME IInv, IInv', NEW n \in Names, DeleteFile(n),
           NEW i \in Live, i \in Live', OnImage(i)
    PROVE  OnImage(i)'
<1>0. entries \in Seq(Entry) /\ i \in 1..Len(entries)
  BY DEF IInv, TypeOK, Live
<1>1. CASE LiveNamed(n) = {}
  BY <1>1, FileKept DEF DeleteFile
<1>2. CASE LiveNamed(n) # {}
  <2> DEFINE j == First(LiveNamed(n))
             b == entries[j].block_number
             h == entries[i].block_number
  <2>1. j \in Live
    BY <1>0, <1>2, FirstExists DEF LiveNamed
  <2>2. /\ block_map' = IF b # 0 THEN FreeChain(block_map, b) ELSE block_map
        /\ entries' = [entries EXCEPT ![j].deleted = TRUE]
        /\ image' = image
    BY <1>2 DEF DeleteFile
  <2>3. j \in 1..Len(entries) /\ entries[j] \in Entry
    BY <2>1, EntryTypes DEF Live
  <2> HIDE DEF j
  <2>4. i # j
    <3>1. ~entries'[i].deleted
      BY DEF Live
    <3> QED
      BY <1>0, <2>2, <2>3, <3>1 DEF Entry
  <2>5. entries'[i] = entries[i]
    BY <1>0, <2>2, <2>4
  <2>6. h # 0
    BY DEF OnImage
  <2>7. h \in Blocks /\ InUse(block_map[h]) /\ Unlinked(block_map, h) /\ b # h
    BY <2>1, <2>4, <2>6, LiveHead
  <2>8. b \in Blocks /\ (b # 0 => InUse(block_map[b]) /\ Unlinked(block_map, b))
    BY <2>1, EntryFacts DEF Live
  <2>9. \A x \in Chain(block_map, h) : block_map'[x] = block_map[x]
    BY <2>2, <2>7, <2>8, DeleteStep
  <2> QED
    BY <2>2, <2>5, <2>9, FileKept DEF FileChain
<1> QED
  BY <1>1, <1>2

LEMMA WriteEntryKeeps ==
    ASSUME IInv, IInv', WriteEntry, NEW i \in Live, OnImage(i)
    PROVE  OnImage(i)'
<1>0. entries \in Seq(Entry) /\ i \in 1..Len(entries) /\ writing \in 1..Len(entries)
  BY DEF IInv, TypeOK, Live, WriteEntry
<1>1. CASE entries[writing].deleted
  BY <1>1, FileKept DEF WriteEntry
<1>2. CASE ~entries[writing].deleted
  <2> DEFINE j == writing
             b == entries[j].block_number
             d == entries[j].data
             s == SetEntryData(b, d)
  <2>1. j \in Live
    BY <1>0, <1>2 DEF Live
  <2>2. /\ block_map' = s.map /\ image' = s.image
        /\ entries' = [entries EXCEPT ![j].block_number = s.first]
    BY <1>2 DEF WriteEntry
  <2>3. entries[j] \in Entry
    BY <1>0, EntryTypes
  <2>4. /\ b \in Blocks /\ (b # 0 => InUse(block_map[b]) /\ Unlinked(block_map, b))
        /\ d \in Seq(Chunk)
    BY <1>0, <1>2, EntryFacts
  <2>5. SetEntryStep(b, d, s)
    BY <2>4, SetEntrySteps
  <2> HIDE DEF j
  <2>6. CASE i # j
    <3>1. entries'[i] = entries[i]
      BY <1>0, <2>2, <2>6
    <3> QED
      BY <2>1, <2>2, <2>4, <2>6, <3>1, OthersKept
  <2>7. CASE i = j /\ s.ok
    <3>1. On(s.map, s.image, s.first, d)
      BY <2>5, <2>7 DEF SetEntryStep
    <3>2. entries'[j].block_number = s.first /\ entries'[j].data = d
      <4> HIDE DEF s
      <4> QED
        BY <1>0, <2>2, <2>3, <2>7 DEF Entry
    <3> HIDE DEF s, d
    <3> QED
      BY <2>2, <2>7, <3>1, <3>2, FileStored
  \* A file that is on the image has all the blocks it needs.
  <2>8. CASE i = j /\ ~s.ok
    <3>1. On(block_map, image, b, d)
      BY <2>8, OnImageIsOn
    <3>2. b # 0 /\ Cardinality(Chain(block_map, b)) >= Len(d)
      BY <3>1 DEF On
    <3>3. Cardinality(Chain(block_map, b)) < BlocksNeeded(d)
      <4> HIDE DEF s
      <4> QED
        BY <2>5, <2>8, <3>2 DEF SetEntryStep
    <3>4. Cardinality(Chain(block_map, b)) \in Nat \ {0}
      BY <2>4, <3>2, PositionStep DEF IInv
    <3>5. Cardinality(Chain(block_map, b)) >= BlocksNeeded(d) /\ BlocksNeeded(d) \in Nat
      BY <2>4, <3>2, <3>4, NeededFacts
    <3> QED
      BY <3>3, <3>4, <3>5
  <2> QED
    BY <2>6, <2>7, <2>8
<1> QED
  BY <1>1, <1>2

LEMMA WriteRootKeeps ==
    ASSUME IInv, IInv', WriteRoot, NEW i \in Live, OnImage(i)
    PROVE  OnImage(i)'
<1> DEFINE h == entries[i].block_number
<1>1. h # 0
  BY DEF OnImage
<1>2. h \in Blocks /\ InUse(block_map[h]) /\ Unlinked(block_map, h) /\ h # block_number
  BY <1>1, LiveHead
<1>3. \A x \in Chain(block_map, h) : block_map'[x] = block_map[x] /\ image'[x] = image[x]
  BY <1>1, <1>2, WriteRootStep
<1>4. entries' = entries
  BY DEF WriteRoot
<1> QED
  BY <1>3, <1>4, FileKept DEF FileChain

LEMMA StepKeeps ==
    ASSUME IInv, [Next]_vars, NEW i \in Live, OnImage(i), i \in Live'
    PROVE  OnImage(i)'
<1>0. IInv'
  BY StepIInv
<1>1. ASSUME NEW n \in Names, NEW d \in Seq(Chunk), InjectFile(n, d) PROVE OnImage(i)'
  BY <1>0, <1>1, InjectKeeps
<1>2. ASSUME NEW n \in Names, NEW d \in Seq(Chunk), ReplaceFile(n, d) PROVE OnImage(i)'
  BY <1>0, <1>2, ReplaceKeeps
<1>3. ASSUME NEW n \in Names, DeleteFile(n) PROVE OnImage(i)'
  BY <1>0, <1>3, DeleteKeeps
<1>4. CASE BeginWrite
  BY <1>0, <1>4, FileKept DEF BeginWrite
<1>5. CASE WriteEntry
  BY <1>0, <1>5, WriteEntryKeeps
<1>6. CASE WriteRoot
  BY <1>0, <1>6, WriteRootKeeps
<1>7. CASE UNCHANGED vars
  BY <1>0, <1>7, FileKept DEF vars
<1> QED
  BY <1>1, <1>2, <1>3, <1>4, <1>5, <1>6, <1>7, ContentsData DEF Next, Edit, Write

\* A file that is on the image stays there, for every image size, whatever
\* happens to other files and even when replacing it fails half way, until it
\* is deleted or replaced (set_chain_data, free_block_chain, write_logical).
THEOREM FilesStay == Spec => KeepsOnImage
<1>1. IInv /\ [Next]_vars => [\A i \in Live : OnImage(i) /\ i \in Live' => OnImage(i)']_vars
  BY StepKeeps
<1> QED
  BY <1>1, Invariance, PTL DEF Spec, KeepsOnImage

-----------------------------------------------------------------------------
(* What write_logical reports. *)

\* While write_logical runs, the live files it has passed are on the image.
WritingOK ==
    /\ writing # 0 => result = "running"
    /\ \A i \in Live : i < writing => OnImage(i)

LEMMA WritingInit == Init => WritingOK
<1>1. ASSUME Init PROVE writing \in {0, 1} /\ (writing # 0 => result = "running")
  BY <1>1 DEF Init, Fresh, Rebuild
<1>2. \A i \in Live : i \in Nat \ {0}
  BY DEF Live
<1> QED
  BY <1>1, <1>2 DEF WritingOK

LEMMA WritingStep ==
    ASSUME IInv, WritingOK, [Next]_vars
    PROVE  /\ WritingOK'
           /\ ~Idle /\ result' = "ok" => \A i \in Live' : OnImage(i)'
<1>0. /\ entries \in Seq(Entry) /\ Len(entries) \in Nat
      /\ writing \in 0..(Len(entries) + 1) /\ writing \in Nat
  BY DEF IInv, TypeOK
<1>1. Live \subseteq 1..Len(entries) /\ Live' \subseteq Nat \ {0}
  BY DEF Live
<1>2. ASSUME Idle, writing' = 0 PROVE WritingOK'
  BY <1>1, <1>2 DEF WritingOK
<1>3. CASE \E n \in Names, d \in Contents : InjectFile(n, d) \/ ReplaceFile(n, d)
  BY <1>2, <1>3 DEF InjectFile, ReplaceFile, Idle
<1>4. CASE \E n \in Names : DeleteFile(n)
  BY <1>2, <1>4 DEF DeleteFile, Idle
<1>5. CASE BeginWrite
  BY <1>1, <1>5 DEF BeginWrite, Idle, WritingOK
<1>6. CASE WriteEntry
  <2> DEFINE j == writing
             b == entries[j].block_number
             d == entries[j].data
             s == SetEntryData(b, d)
  <2>1. j \in 1..Len(entries) /\ result = "running"
    BY <1>6 DEF WriteEntry, WritingOK
  <2>2. entries[j] \in Entry
    BY <2>1, EntryTypes
  <2>3. result' # "ok"
    BY <1>6, <2>1 DEF WriteEntry
  <2>4. Live' = Live
    <3>1. CASE entries[j].deleted
      BY <1>6, <3>1 DEF WriteEntry, Live
    <3>2. CASE ~entries[j].deleted
      <4>1. entries' = [entries EXCEPT ![j].block_number = s.first]
        BY <1>6, <3>2 DEF WriteEntry
      <4> HIDE DEF s
      <4>2. Len(entries') = Len(entries)
            /\ \A i \in 1..Len(entries) : entries'[i].deleted = entries[i].deleted
        BY <1>0, <2>1, <2>2, <4>1 DEF Entry
      <4> QED
        BY <4>2 DEF Live
    <3> QED
      BY <3>1, <3>2
  <2>5. ASSUME NEW i \in Live, i < j PROVE OnImage(i)'
    <3>1. OnImage(i) /\ i \in Live'
      BY <2>4, <2>5 DEF WritingOK
    <3> QED
      BY <3>1, StepKeeps
  <2>6. ASSUME NEW i \in Live, i = j, s.ok PROVE OnImage(i)'
    <3>0. ~entries[j].deleted
      BY <2>6 DEF Live
    <3>1. b \in Blocks /\ (b # 0 => InUse(block_map[b]) /\ Unlinked(block_map, b))
          /\ d \in Seq(Chunk)
      BY <2>1, <3>0, EntryFacts
    <3>2. SetEntryStep(b, d, s)
      BY <3>1, SetEntrySteps
    <3>3. /\ block_map' = s.map /\ image' = s.image
          /\ entries' = [entries EXCEPT ![j].block_number = s.first]
      BY <1>6, <3>0 DEF WriteEntry
    <3>4. On(s.map, s.image, s.first, d)
      BY <2>6, <3>2 DEF SetEntryStep
    <3> HIDE DEF s
    <3>5. entries'[i].block_number = s.first /\ entries'[i].data = d
      BY <1>0, <2>1, <2>2, <2>6, <3>3 DEF Entry
    <3> HIDE DEF d, j
    <3> QED
      BY <3>3, <3>4, <3>5, FileStored
  <2>7. CASE writing' = 0
    BY <1>1, <2>3, <2>7 DEF WritingOK
  <2>8. CASE writing' # 0
    <3>1. writing' = j + 1 /\ result' = "running" /\ (entries[j].deleted \/ s.ok)
      <4> HIDE DEF s
      <4> QED
        BY <1>6, <2>1, <2>8 DEF WriteEntry, s
    <3>2. \A i \in Live' : i < writing' => OnImage(i)'
      <4> SUFFICES ASSUME NEW i \in Live', i < writing' PROVE OnImage(i)'
        OBVIOUS
      <4>1. i \in Live /\ (i < j \/ i = j)
        BY <1>0, <1>1, <2>4, <3>1
      <4>2. i = j => s.ok
        BY <3>1, <4>1 DEF Live
      <4> HIDE DEF s
      <4> QED
        BY <2>5, <2>6, <4>1, <4>2
    <3> QED
      BY <2>3, <3>1, <3>2 DEF WritingOK
  <2> QED
    BY <2>7, <2>8
<1>7. CASE WriteRoot
  <2>1. writing = Len(entries) + 1 /\ entries' = entries /\ writing' = 0
    BY <1>7 DEF WriteRoot
  <2>2. ASSUME NEW i \in Live' PROVE OnImage(i)'
    <3>1. i \in Live /\ i < writing
      BY <1>0, <1>1, <2>1 DEF Live
    <3>2. OnImage(i)
      BY <3>1 DEF WritingOK
    <3> QED
      BY <3>1, <3>2, StepKeeps
  <2> QED
    BY <1>1, <2>1, <2>2 DEF WritingOK
<1>8. CASE UNCHANGED vars
  <2>1. WritingOK' /\ result' = result /\ (~Idle => result = "running")
    BY <1>8 DEF vars, WritingOK, Live, OnImage, FileChain, Idle
  <2> QED
    BY <2>1
<1> QED
  BY <1>3, <1>4, <1>5, <1>6, <1>7, <1>8 DEF Next, Edit, Write, InjectFile, ReplaceFile,
     DeleteFile, BeginWrite

\* When write_logical reports success every live file is on the image, for
\* every image size, directory and history of edits (write_logical).
THEOREM WriteIsComplete == Spec => WriteStoresAll
<1>1. Init => WritingOK
  BY WritingInit
<1>2. IInv /\ WritingOK /\ [Next]_vars => WritingOK'
  BY WritingStep
<1>3. IInv /\ WritingOK /\ [Next]_vars =>
         [~Idle /\ result' = "ok" => \A i \in Live' : OnImage(i)']_vars
  BY WritingStep
<1> QED
  BY <1>1, <1>2, <1>3, Invariance, PTL DEF Spec, WriteStoresAll

-----------------------------------------------------------------------------
(* What a failure leaves. *)

\* Entries that differ in no name, data or deletion give the caller the same
\* files.
LEMMA SameFiles ==
    ASSUME Len(entries') = Len(entries),
           \A i \in 1..Len(entries) :
              /\ entries'[i].name = entries[i].name
              /\ entries'[i].data = entries[i].data
              /\ entries'[i].deleted = entries[i].deleted,
           entries \in Seq(Entry),
           NEW n
    PROVE  Extract(n)' = Extract(n)
<1>1. Live' = Live /\ Live \subseteq 1..Len(entries)
  BY DEF Live
<1>2. LiveNamed(n)' = LiveNamed(n)
  BY <1>1 DEF LiveNamed
<1>3. ASSUME LiveNamed(n) # {}
      PROVE  entries'[First(LiveNamed(n))].data = entries[First(LiveNamed(n))].data
  BY <1>1, <1>3, FirstExists DEF LiveNamed
<1> QED
  BY <1>2, <1>3 DEF Extract

\* An operation that reports failure leaves every file as it was, for every
\* image size and directory (inject_file, replace_file, delete_file,
\* write_logical).
THEOREM FailuresHarmless == Spec => FailureKeepsFiles
<1>1. ASSUME IInv, Next, result' = "err", NEW n \in Names
      PROVE  Extract(n)' = Extract(n)
  <2>0. entries \in Seq(Entry)
    BY <1>1 DEF IInv, TypeOK
  <2>1. CASE entries' = entries
    BY <2>1 DEF Extract, LiveNamed, Live
  <2>2. CASE WriteEntry /\ ~entries[writing].deleted
    <3> DEFINE j == writing
               s == SetEntryData(entries[j].block_number, entries[j].data)
    <3>1. j \in 1..Len(entries) /\ entries' = [entries EXCEPT ![j].block_number = s.first]
      BY <2>2 DEF WriteEntry
    <3>2. entries[j] \in Entry
      BY <1>1, <3>1, EntryTypes
    <3> HIDE DEF s, j
    <3>3. Len(entries') = Len(entries) /\ \A i \in 1..Len(entries) :
              /\ entries'[i].name = entries[i].name
              /\ entries'[i].data = entries[i].data
              /\ entries'[i].deleted = entries[i].deleted
      BY <2>0, <3>1, <3>2 DEF Entry
    <3> QED
      BY <2>0, <3>3, SameFiles
  <2> QED
    BY <1>1, <2>1, <2>2 DEF Next, Edit, Write, InjectFile, ReplaceFile, DeleteFile,
       BeginWrite, WriteEntry, WriteRoot
<1>2. IInv /\ [Next]_vars => [result' = "err" => \A n \in Names : Extract(n)' = Extract(n)]_vars
  BY <1>1
<1> QED
  BY <1>2, Invariance, PTL DEF Spec, FailureKeepsFiles

\* What inject_file leaves when no file of that name is there, and what
\* replace_file leaves of the entry at j.
LEMMA InjectStep ==
    ASSUME IInv, NEW n \in Names, NEW d \in Seq(Chunk), InjectFile(n, d), LiveNamed(n) = {}
    PROVE  LET s == SetEntryData(0, d) IN
           /\ block_map' = s.map /\ image' = s.image /\ block_number' = block_number
           /\ result' = IF s.ok THEN "ok" ELSE "err"
           /\ SetEntryStep(0, d, s) /\ SetEntryOK(0, s)
           /\ s.ok => entries' = Append(entries, [name |-> n, block_number |-> s.first,
                                                  size |-> Len(d), deleted |-> FALSE,
                                                  data |-> d])
           /\ ~s.ok => entries' = entries
<1> DEFINE s == SetEntryData(0, d)
<1>1. SetEntryStep(0, d, s) /\ SetEntryOK(0, s)
  BY ZeroBlock, SetEntrySteps, SetEntryFacts
<1> QED
  BY <1>1 DEF InjectFile

LEMMA ReplaceStep ==
    ASSUME IInv, NEW n \in Names, NEW d \in Seq(Chunk), ReplaceFile(n, d), LiveNamed(n) # {},
           NEW j, j = First(LiveNamed(n))
    PROVE  LET b == entries[j].block_number
               s == SetEntryData(b, d)
           IN  /\ j \in Live /\ entries[j].name = n
               /\ block_map' = s.map /\ image' = s.image /\ block_number' = block_number
               /\ result' = IF s.ok THEN "ok" ELSE "err"
               /\ SetEntryStep(b, d, s) /\ SetEntryOK(b, s)
               /\ s.ok => /\ Len(entries') = Len(entries)
                          /\ entries'[j].block_number = s.first
                          /\ entries'[j].name = entries[j].name
                          /\ ~entries'[j].deleted
                          /\ \A i \in 1..Len(entries) : i # j => entries'[i] = entries[i]
               /\ ~s.ok => entries' = entries
<1> DEFINE b == entries[j].block_number
           s == SetEntryData(b, d)
<1>0. entries \in Seq(Entry)
  BY DEF IInv, TypeOK
<1>1. j \in Live /\ entries[j].name = n
  BY <1>0, FirstExists DEF LiveNamed
<1>2. j \in 1..Len(entries) /\ ~entries[j].deleted /\ entries[j] \in Entry
  BY <1>1, EntryTypes DEF Live
<1>3. b \in Blocks /\ (b # 0 => InUse(block_map[b]) /\ Unlinked(block_map, b))
  BY <1>2, EntryFacts
<1>4. SetEntryStep(b, d, s) /\ SetEntryOK(b, s)
  BY <1>3, SetEntrySteps, SetEntryFacts
<1>5. /\ block_map' = s.map /\ image' = s.image /\ block_number' = block_number
      /\ result' = IF s.ok THEN "ok" ELSE "err"
      /\ entries' = IF s.ok
                    THEN [entries EXCEPT ![j].block_number = s.first,
                                         ![j].size = Len(d), ![j].data = d]
                    ELSE entries
  BY DEF ReplaceFile
<1> HIDE DEF s
<1>6. ASSUME s.ok
      PROVE  /\ Len(entries') = Len(entries)
             /\ entries'[j].block_number = s.first
             /\ entries'[j].name = entries[j].name
             /\ ~entries'[j].deleted
             /\ \A i \in 1..Len(entries) : i # j => entries'[i] = entries[i]
  <2>1. entries' = Replaced(entries, j, s.first, d)
    BY <1>5, <1>6 DEF Replaced
  <2>2. /\ Len(entries') = Len(entries)
        /\ entries'[j].block_number = s.first
        /\ entries'[j].name = entries[j].name /\ entries'[j].deleted = entries[j].deleted
        /\ \A i \in 1..Len(entries) : i # j => entries'[i] = entries[i]
    BY <1>0, <1>2, <2>1, EntryReplaced
  <2> QED
    BY <1>2, <2>2
<1> QED
  BY <1>1, <1>4, <1>5, <1>6 DEF s

\* What write_logical does for one entry that is not deleted.
LEMMA WriteEntryStep ==
    ASSUME IInv, WriteEntry, ~entries[writing].deleted
    PROVE  LET b == entries[writing].block_number
               d == entries[writing].data
               s == SetEntryData(b, d)
           IN  /\ block_map' = s.map /\ image' = s.image /\ block_number' = block_number
               /\ SetEntryStep(b, d, s)
<1>1. writing \in 1..Len(entries)
  BY DEF WriteEntry
<1>2. LET b == entries[writing].block_number IN
      /\ b \in Blocks /\ (b # 0 => InUse(block_map[b]) /\ Unlinked(block_map, b))
      /\ entries[writing].data \in Seq(Chunk)
  BY <1>1, EntryFacts
<1>3. SetEntryStep(entries[writing].block_number, entries[writing].data,
                   SetEntryData(entries[writing].block_number, entries[writing].data))
  BY <1>2, SetEntrySteps
<1> QED
  BY <1>3 DEF WriteEntry

\* A call or an entry of write_logical that is refused a block has used up
\* every block the allocator could give, and a root chain is refused only when
\* the free blocks are too few, for every image size (allocate_new_block,
\* set_chain_data, write_logical).
THEOREM NeverGivesUpEarly == Spec => FailsOnlyWhenFull
<1>1. ASSUME IInv, NEW n \in Names, NEW d \in Seq(Chunk), InjectFile(n, d),
             LiveNamed(n) = {}, result' = "err"
      PROVE  FreeFrom(block_map', block_number') = {}
  <2> DEFINE s == SetEntryData(0, d)
  <2>1. /\ block_map' = s.map /\ block_number' = block_number /\ ~s.ok
        /\ SetEntryStep(0, d, s)
    BY <1>1, InjectStep
  <2> HIDE DEF s
  <2> QED
    BY <2>1 DEF SetEntryStep
<1>2. ASSUME IInv, NEW n \in Names, NEW d \in Seq(Chunk), ReplaceFile(n, d),
             LiveNamed(n) # {}, result' = "err"
      PROVE  FreeFrom(block_map', block_number') = {}
  <2> DEFINE b == entries[First(LiveNamed(n))].block_number
             s == SetEntryData(b, d)
  <2>1. /\ block_map' = s.map /\ block_number' = block_number /\ ~s.ok
        /\ SetEntryStep(b, d, s)
    BY <1>2, ReplaceStep
  <2> HIDE DEF s, b
  <2> QED
    BY <2>1 DEF SetEntryStep
<1>3. ASSUME IInv, WriteEntry, writing' = 0
      PROVE  FreeFrom(block_map', block_number') = {}
  <2> DEFINE b == entries[writing].block_number
             d == entries[writing].data
             s == SetEntryData(b, d)
  <2>1. writing \in Nat
    BY <1>3 DEF WriteEntry
  <2>2. ~entries[writing].deleted /\ ~s.ok
    BY <1>3, <2>1 DEF WriteEntry
  <2>3. /\ block_map' = s.map /\ block_number' = block_number
        /\ SetEntryStep(b, d, s)
    BY <1>3, <2>2, WriteEntryStep
  <2> HIDE DEF s, b, d
  <2> QED
    BY <2>2, <2>3 DEF SetEntryStep
<1>4. ASSUME IInv, WriteRoot, result' = "err"
      PROVE  Cardinality(FreeFrom(block_map', block_number'))
                + (IF block_number = 0 THEN 0 ELSE 1) < RootBlocksNeeded
  <2> DEFINE held == IF block_number = 0 THEN 0 ELSE 1
             S    == FreeFrom(RootCut, block_number)
  <2>1. /\ block_map' = RootCut /\ block_number' = block_number
        /\ Cardinality(RootGrowth) + held < RootBlocksNeeded
    BY <1>4 DEF WriteRoot
  <2>2. RootBlocksNeeded \in Nat /\ RootBlocksNeeded >= 1
    BY <1>4, RootNeedsBlocks
  <2>3. RootGrowth = Lowest(S, RootBlocksNeeded - held)
    BY DEF RootGrowth
  <2>4. RootGrowth \in SUBSET Blocks /\ S \in SUBSET Blocks
    BY <2>3 DEF FreeFrom, Lowest
  <2>5. Cardinality(RootGrowth) \in Nat
    BY <2>4, WordFacts, FS_Subset, FS_CardinalityType
  <2>6. RootBlocksNeeded - held \in Nat /\ Cardinality(RootGrowth) < RootBlocksNeeded - held
    BY <2>1, <2>2, <2>5
  <2> HIDE DEF S, held
  <2>7. RootGrowth = S
    BY <2>3, <2>4, <2>6, LowestCount
  <2> QED
    BY <2>1, <2>7 DEF S, held
<1>5. IInv /\ [Next]_vars =>
    [/\ \/ WriteEntry /\ writing' = 0
        \/ /\ result' = "err"
           /\ \E n \in Names, d \in Contents :
                 \/ LiveNamed(n) = {} /\ InjectFile(n, d)
                 \/ LiveNamed(n) # {} /\ ReplaceFile(n, d)
       => FreeFrom(block_map', block_number') = {}
     /\ WriteRoot /\ result' = "err"
       => Cardinality(FreeFrom(block_map', block_number'))
             + (IF block_number = 0 THEN 0 ELSE 1) < RootBlocksNeeded]_vars
  BY <1>1, <1>2, <1>3, <1>4, ContentsData
<1> QED
  BY <1>5, Invariance, PTL DEF Spec, FailsOnlyWhenFull

\* No step gives two live entries the same name.
LEMMA NamesStep ==
    ASSUME IInv, Next, UniqueNames
    PROVE  UniqueNames'
<1>0. entries \in Seq(Entry) /\ Len(entries) \in Nat
  BY DEF IInv, TypeOK
\* It is enough that the live entries of the next state were live before
\* and keep their names, but for one whose name no live entry had.
<1>1. ASSUME \A i \in Live' : i \in Live /\ entries'[i].name = entries[i].name
      PROVE  UniqueNames'
  BY <1>1 DEF UniqueNames
<1>2. ASSUME NEW n \in Names, NEW d \in Seq(Chunk), InjectFile(n, d)
      PROVE  UniqueNames'
  <2> DEFINE s == SetEntryData(0, d)
             k == Len(entries) + 1
  <2>1. CASE entries' = entries
    BY <1>1, <2>1 DEF Live
  <2>2. CASE entries' # entries
    <3>1. /\ LiveNamed(n) = {}
          /\ entries' = Append(entries, [name |-> n, block_number |-> s.first,
                                         size |-> Len(d), deleted |-> FALSE, data |-> d])
      BY <1>2, <2>2 DEF InjectFile
    <3> HIDE DEF s
    <3>2. /\ Len(entries') = k /\ entries'[k].name = n
          /\ \A i \in 1..Len(entries) : entries'[i] = entries[i]
      BY <1>0, <3>1
    <3>3. \A i \in Live' : i = k \/ (i \in Live /\ entries'[i].name = entries[i].name)
      BY <1>0, <3>2 DEF Live
    <3>4. \A i \in Live : entries[i].name # n
      BY <3>1 DEF LiveNamed
    <3> HIDE DEF k
    <3> QED
      BY <3>2, <3>3, <3>4 DEF UniqueNames
  <2> QED
    BY <2>1, <2>2
<1>3. ASSUME NEW n \in Names, NEW d \in Seq(Chunk), ReplaceFile(n, d)
      PROVE  UniqueNames'
  <2>1. CASE entries' = entries
    BY <1>1, <2>1 DEF Live
  <2>2. CASE entries' # entries
    <3> DEFINE j == First(LiveNamed(n))
    <3>1. LiveNamed(n) # {}
      BY <1>3, <2>2 DEF ReplaceFile
    <3>2. /\ j \in Live
          /\ Len(entries') = Len(entries)
          /\ entries'[j].name = entries[j].name
          /\ \A i \in 1..Len(entries) : i # j => entries'[i] = entries[i]
      BY <1>3, <2>2, <3>1, ReplaceStep
    <3> HIDE DEF j
    <3>3. \A i \in Live' : i \in Live /\ entries'[i].name = entries[i].name
      BY <3>2 DEF Live
    <3> QED
      BY <1>1, <3>3
  <2> QED
    BY <2>1, <2>2
<1>4. ASSUME NEW n \in Names, DeleteFile(n) PROVE UniqueNames'
  <2>1. CASE LiveNamed(n) = {}
    BY <1>1, <1>4, <2>1 DEF DeleteFile, Live
  <2>2. CASE LiveNamed(n) # {}
    <3> DEFINE j == First(LiveNamed(n))
    <3>1. j \in 1..Len(entries)
      BY <1>0, <2>2, FirstExists DEF LiveNamed, Live
    <3>2. entries[j] \in Entry /\ entries' = [entries EXCEPT ![j].deleted = TRUE]
      BY <1>4, <2>2, <3>1, EntryTypes DEF DeleteFile
    <3> HIDE DEF j
    <3>3. \A i \in Live' : i \in Live /\ entries'[i].name = entries[i].name
      BY <1>0, <3>1, <3>2 DEF Live, Entry
    <3> QED
      BY <1>1, <3>3
  <2> QED
    BY <2>1, <2>2
<1>5. CASE WriteEntry /\ ~entries[writing].deleted
  <2> DEFINE j == writing
             s == SetEntryData(entries[j].block_number, entries[j].data)
  <2>1. j \in 1..Len(entries) /\ entries' = [entries EXCEPT ![j].block_number = s.first]
    BY <1>5 DEF WriteEntry
  <2>2. entries[j] \in Entry
    BY <2>1, EntryTypes
  <2> HIDE DEF s, j
  <2>3. \A i \in Live' : i \in Live /\ entries'[i].name = entries[i].name
    BY <1>0, <2>1, <2>2 DEF Live, Entry
  <2> QED
    BY <1>1, <2>3
<1>6. CASE entries' = entries
  BY <1>1, <1>6 DEF Live
<1> QED
  BY <1>2, <1>3, <1>4, <1>5, <1>6, ContentsData
  DEF Next, Edit, Write, BeginWrite, WriteEntry, WriteRoot

\* No operation gives two live entries the same name, whatever the directory
\* held (inject_file, replace_file, write_logical).
THEOREM NamesUnique == Spec => NamesStayUnique
<1>1. IInv /\ [Next]_vars => [UniqueNames => UniqueNames']_vars
  BY NamesStep
<1> QED
  BY <1>1, Invariance, PTL DEF Spec, NamesStayUnique

\* What delete_file does to the map.
LEMMA DeleteWords ==
    ASSUME IInv, NEW n \in Names, DeleteFile(n), LiveNamed(n) # {},
           NEW j, j = First(LiveNamed(n))
    PROVE  LET b == entries[j].block_number IN
           /\ j \in Live
           /\ image' = image /\ block_number' = block_number
           /\ b # 0 => \A x \in Blocks :
                 block_map'[x] = IF x \in FileChain(j) THEN Free ELSE block_map[x]
           /\ b = 0 => block_map' = block_map
           /\ Len(entries') = Len(entries)
           /\ \A i \in 1..Len(entries) : i # j => entries'[i] = entries[i]
           /\ entries'[j].deleted
<1>0. entries \in Seq(Entry)
  BY DEF IInv, TypeOK
<1>1. j \in Live
  BY <1>0, FirstExists DEF LiveNamed
<1>2. j \in 1..Len(entries) /\ entries[j] \in Entry
  BY <1>1, EntryTypes DEF Live
<1>3. entries' = [entries EXCEPT ![j].deleted = TRUE]
  BY DEF DeleteFile
<1>4. /\ Len(entries') = Len(entries) /\ entries'[j].deleted
      /\ \A i \in 1..Len(entries) : i # j => entries'[i] = entries[i]
  BY <1>0, <1>2, <1>3 DEF Entry
<1> QED
  BY <1>1, <1>4 DEF DeleteFile, FreeChain, FileChain

\* A protected block is never handed out and never written, for every image
\* size, unless the root was placed on it (allocate_new_block,
\* set_chain_data, write_logical).
THEOREM ReservedStays == Spec => ReservedUntouched
<1>1. ASSUME IInv, Next, NEW x \in Blocks, block_map[x] = Reserved, x # block_number
      PROVE  block_map'[x] = Reserved /\ image'[x] = image[x]
  <2>1. CASE block_map' = block_map /\ image' = image
    BY <1>1, <2>1
  <2>2. ASSUME NEW b, NEW d, NEW s, SetEntryStep(b, d, s), block_map' = s.map, image' = s.image
        PROVE  block_map'[x] = Reserved /\ image'[x] = image[x]
    <3>1. block_map[x] # Free /\ ~InUse(block_map[x])
      BY <1>1, WordFacts DEF Free, Reserved
    <3> QED
      BY <1>1, <2>2, <3>1 DEF SetEntryStep
  <2>3. ASSUME NEW n \in Names, NEW d \in Seq(Chunk), InjectFile(n, d), LiveNamed(n) = {}
        PROVE  block_map'[x] = Reserved /\ image'[x] = image[x]
    BY <1>1, <2>2, <2>3, InjectStep
  <2>4. ASSUME NEW n \in Names, NEW d \in Seq(Chunk), ReplaceFile(n, d), LiveNamed(n) # {}
        PROVE  block_map'[x] = Reserved /\ image'[x] = image[x]
    BY <1>1, <2>2, <2>4, ReplaceStep
  <2>5. ASSUME NEW n \in Names, DeleteFile(n), LiveNamed(n) # {}
        PROVE  block_map'[x] = Reserved /\ image'[x] = image[x]
    <3> DEFINE j == First(LiveNamed(n))
               b == entries[j].block_number
    <3>1. /\ j \in Live /\ image' = image
          /\ b # 0 => block_map'[x] = IF x \in FileChain(j) THEN Free ELSE block_map[x]
          /\ b = 0 => block_map' = block_map
      BY <1>1, <2>5, DeleteWords
    <3> HIDE DEF j
    <3>2. b # 0 => x \notin FileChain(j)
      <4> SUFFICES ASSUME b # 0 PROVE x \notin FileChain(j)
        OBVIOUS
      <4>1. \A y \in FileChain(j) : InUse(block_map[y])
        BY <1>1, <3>1, LiveHead, ChainInUse DEF FileChain, IInv
      <4> QED
        BY <1>1, <4>1, WordFacts
    <3> QED
      BY <1>1, <3>1, <3>2
  <2>6. CASE WriteEntry /\ ~entries[writing].deleted
    BY <1>1, <2>2, <2>6, WriteEntryStep
  <2>7. CASE WriteRoot
    BY <1>1, <2>7, WriteRootStep
  <2>8. CASE \E n \in Names, d \in Contents : InjectFile(n, d) \/ ReplaceFile(n, d)
    <3> PICK n \in Names, d \in Contents : InjectFile(n, d) \/ ReplaceFile(n, d)
      BY <2>8
    <3>1. d \in Seq(Chunk)
      BY ContentsData
    <3>2. CASE InjectFile(n, d)
      <4>1. CASE LiveNamed(n) = {}
        BY <2>3, <3>1, <3>2, <4>1
      <4>2. CASE LiveNamed(n) # {}
        BY <2>1, <3>2, <4>2 DEF InjectFile
      <4> QED
        BY <4>1, <4>2
    <3>3. CASE ReplaceFile(n, d)
      <4>1. CASE LiveNamed(n) # {}
        BY <2>4, <3>1, <3>3, <4>1
      <4>2. CASE LiveNamed(n) = {}
        BY <2>1, <3>3, <4>2 DEF ReplaceFile
      <4> QED
        BY <4>1, <4>2
    <3> QED
      BY <3>2, <3>3
  <2>9. CASE \E n \in Names : DeleteFile(n)
    <3> PICK n \in Names : DeleteFile(n)
      BY <2>9
    <3>1. CASE LiveNamed(n) # {}
      BY <2>5, <3>1
    <3>2. CASE LiveNamed(n) = {}
      BY <2>1, <3>2 DEF DeleteFile
    <3> QED
      BY <3>1, <3>2
  <2>10. CASE BeginWrite
    BY <2>1, <2>10 DEF BeginWrite
  <2>11. CASE WriteEntry
    <3>1. CASE entries[writing].deleted
      BY <2>1, <2>11, <3>1 DEF WriteEntry
    <3> QED
      BY <2>6, <2>11, <3>1
  <2> QED
    BY <1>1, <2>7, <2>8, <2>9, <2>10, <2>11 DEF Next, Edit, Write
<1>2. IInv /\ [Next]_vars =>
         [\A x \in Blocks : block_map[x] = Reserved /\ x # block_number =>
             block_map'[x] = Reserved /\ image'[x] = image[x]]_vars
  BY <1>1
<1> QED
  BY <1>2, Invariance, PTL DEF Spec, ReservedUntouched

-----------------------------------------------------------------------------
(* No block is lost. *)

\* x is on the chain of a live file, or of the directory.
Reached(x) == x \in RootChain \/ \E i \in Holders : x \in FileChain(i)

LEMMA LostMeans ==
    ASSUME NEW x
    PROVE  /\ x \in Lost <=> x \in Blocks /\ InUse(block_map[x]) /\ ~Reached(x)
           /\ x \in Lost' <=> x \in Blocks /\ InUse(block_map'[x]) /\ ~Reached(x)'
<1>1. x \in UNION {FileChain(i) : i \in Holders} <=> \E i \in Holders : x \in FileChain(i)
  OBVIOUS
<1>2. x \in UNION {FileChain(i)' : i \in Holders'} <=> \E i \in Holders' : x \in FileChain(i)'
  OBVIOUS
<1> DEFINE U == UNION {FileChain(i) : i \in Holders}
<1>3. x \in Lost <=> x \in Blocks /\ InUse(block_map[x]) /\ ~(x \in U \/ x \in RootChain)
  <2> HIDE DEF U
  <2>1. Lost = {y \in Blocks : InUse(block_map[y])} \ (U \cup RootChain)
    BY DEF Lost, U
  <2> QED
    BY <2>1
<1>4. x \in Lost' <=> x \in Blocks /\ InUse(block_map'[x]) /\ ~(x \in U' \/ x \in RootChain')
  <2> HIDE DEF U
  <2>1. Lost' = {y \in Blocks : InUse(block_map'[y])} \ (U' \cup RootChain')
    BY DEF Lost, U
  <2> QED
    BY <2>1
<1>5. Reached(x) <=> x \in U \/ x \in RootChain
  BY <1>1 DEF Reached
<1>6. Reached(x)' <=> x \in U' \/ x \in RootChain'
  BY <1>2 DEF Reached
<1> HIDE DEF U
<1> QED
  BY <1>3, <1>4, <1>5, <1>6

\* A holder whose entry and chain a step leaves alone keeps its blocks.
LEMMA HolderKept ==
    ASSUME IInv, IInv', NEW i \in Holders, i \in Live',
           entries'[i].block_number = entries[i].block_number,
           \A x \in FileChain(i) : block_map'[x] = block_map[x]
    PROVE  i \in Holders' /\ FileChain(i)' = FileChain(i)
<1>1. i \in Live /\ entries[i].block_number # 0
  BY DEF Holders
<1>2. entries[i].block_number \in Blocks
  BY <1>1, EntryTypes DEF Live
<1>3. IsMap(block_map) /\ IsMap(block_map')
  BY DEF IInv, Sound
<1> DEFINE b == entries[i].block_number
<1>4. \A x \in Chain(block_map, b) : block_map'[x] = block_map[x]
  BY DEF FileChain
<1> HIDE DEF b
<1>5. Chain(block_map', b) = Chain(block_map, b)
  BY <1>2, <1>3, <1>4, ChainSame DEF b
<1> QED
  BY <1>1, <1>5 DEF Holders, FileChain, b

\* The directory keeps its blocks when their words stay.
LEMMA RootKept ==
    ASSUME IInv, IInv', block_number' = block_number,
           \A x \in RootChain : block_map'[x] = block_map[x]
    PROVE  RootChain' = RootChain
<1>1. IsMap(block_map) /\ IsMap(block_map') /\ block_number \in Blocks
  BY DEF IInv, Sound, TypeOK
<1>2. CASE block_number = 0
  BY <1>2 DEF RootChain
<1>3. CASE block_number # 0
  <2> DEFINE r == block_number
  <2>1. \A x \in Chain(block_map, r) : block_map'[x] = block_map[x]
    BY <1>3 DEF RootChain
  <2>2. Chain(block_map', r) = Chain(block_map, r)
    BY <1>1, <2>1, ChainSame
  <2> QED
    BY <1>3, <2>2 DEF RootChain
<1> QED
  BY <1>2, <1>3

\* set_entry_data leaves the directory's blocks alone.
LEMMA RootFrame ==
    ASSUME IInv, NEW b \in Blocks, NEW d, NEW s, SetEntryStep(b, d, s),
           b # 0 => b # block_number
    PROVE  \A x \in RootChain : s.map[x] = block_map[x]
<1> DEFINE r == block_number
<1>1. /\ Sound(block_map) /\ IsMap(block_map) /\ r \in Blocks /\ Unlinked(block_map, r)
      /\ block_map[r] # Free
  BY DEF IInv, TypeOK, RootOK, Sound
<1>2. CASE r = 0
  BY <1>2 DEF RootChain
<1>3. CASE r # 0 /\ InUse(block_map[r])
  BY <1>1, <1>3 DEF RootChain, SetEntryStep
\* A root placed on a protected block is a chain of that block.
<1>4. CASE r # 0 /\ ~InUse(block_map[r])
  <2>1. ~IsLink(block_map[r])
    BY <1>4 DEF InUse
  <2>2. Chain(block_map, r) = {r}
    BY <1>1, <2>1, ChainStep
  <2> QED
    BY <1>1, <1>4, <2>2 DEF RootChain, SetEntryStep
<1> QED
  BY <1>2, <1>3, <1>4

LEMMA InjectLoss ==
    ASSUME IInv, IInv', NEW n \in Names, NEW d \in Seq(Chunk), InjectFile(n, d), result' = "ok"
    PROVE  Lost' \subseteq Lost
<1> DEFINE s == SetEntryData(0, d)
<1> PICK k : k = Len(entries) + 1
  OBVIOUS
<1>0. entries \in Seq(Entry) /\ Len(entries) \in Nat
  BY DEF IInv, TypeOK
<1>1. LiveNamed(n) = {}
  BY DEF InjectFile
<1>2. /\ block_map' = s.map /\ block_number' = block_number /\ s.ok
      /\ SetEntryStep(0, d, s) /\ SetEntryOK(0, s)
      /\ entries' = Append(entries, [name |-> n, block_number |-> s.first,
                                     size |-> Len(d), deleted |-> FALSE, data |-> d])
  BY <1>1, InjectStep
<1> HIDE DEF s
<1>3. s.first # 0
  BY <1>2 DEF SetEntryOK
<1>4. /\ Len(entries') = k /\ ~entries'[k].deleted /\ entries'[k].block_number = s.first
      /\ \A i \in 1..Len(entries) : entries'[i] = entries[i]
  BY <1>0, <1>2
<1>5. k \in Holders' /\ FileChain(k)' = Chain(s.map, s.first)
  BY <1>0, <1>2, <1>3, <1>4 DEF Holders, Live, FileChain
<1>6. ASSUME NEW i \in Holders PROVE i \in Holders' /\ FileChain(i)' = FileChain(i)
  <2>1. i \in Live /\ i \in 1..Len(entries) /\ entries[i].block_number # 0
    BY DEF Holders, Live
  <2>2. entries'[i] = entries[i] /\ i \in Live'
    BY <1>0, <1>4, <2>1 DEF Live
  <2>3. LET h == entries[i].block_number IN
        h \in Blocks /\ h # 0 /\ Unlinked(block_map, h) /\ InUse(block_map[h])
    BY <2>1, LiveHead
  <2>4. \A x \in FileChain(i) : block_map'[x] = block_map[x]
    BY <1>2, <2>3 DEF SetEntryStep, FileChain
  <2> QED
    BY <2>2, <2>4, HolderKept
<1>7. RootChain' = RootChain
  BY <1>2, ZeroBlock, RootFrame, RootKept
<1>8. ASSUME NEW x \in Lost' PROVE x \in Lost
  <2>1. x \in Blocks /\ InUse(s.map[x]) /\ ~Reached(x)'
    BY <1>2, <1>8, LostMeans
  <2>2. x \notin Chain(s.map, s.first)
    BY <1>5, <2>1 DEF Reached
  <2>3. InUse(block_map[x])
    BY <1>2, <2>1, <2>2 DEF SetEntryStep
  <2>4. ~Reached(x)
    BY <1>6, <1>7, <2>1 DEF Reached
  <2> QED
    BY <2>1, <2>3, <2>4, LostMeans
<1> QED
  BY <1>8

LEMMA ReplaceLoss ==
    ASSUME IInv, IInv', NEW n \in Names, NEW d \in Seq(Chunk), ReplaceFile(n, d), result' = "ok"
    PROVE  Lost' \subseteq Lost
<1>0. entries \in Seq(Entry) /\ Len(entries) \in Nat
  BY DEF IInv, TypeOK
<1>1. LiveNamed(n) # {}
  BY DEF ReplaceFile
<1> PICK j : j = First(LiveNamed(n))
  OBVIOUS
<1> PICK b : b = entries[j].block_number
  OBVIOUS
<1> DEFINE s == SetEntryData(b, d)
<1>2. /\ j \in Live /\ block_map' = s.map /\ block_number' = block_number /\ s.ok
      /\ SetEntryStep(b, d, s) /\ SetEntryOK(b, s)
      /\ Len(entries') = Len(entries) /\ entries'[j].block_number = s.first
      /\ ~entries'[j].deleted
      /\ \A i \in 1..Len(entries) : i # j => entries'[i] = entries[i]
  BY <1>1, ReplaceStep
<1> HIDE DEF s
<1>3. s.first # 0 /\ j \in 1..Len(entries)
  BY <1>2 DEF SetEntryOK, Live
<1>4. j \in Holders' /\ FileChain(j)' = Chain(s.map, s.first)
  BY <1>0, <1>2, <1>3 DEF Holders, Live, FileChain
<1>5. ASSUME NEW i \in Holders, i # j PROVE i \in Holders' /\ FileChain(i)' = FileChain(i)
  <2>1. i \in Live /\ i \in 1..Len(entries) /\ entries[i].block_number # 0
    BY DEF Holders, Live
  <2>2. entries'[i] = entries[i] /\ i \in Live'
    BY <1>0, <1>2, <1>5, <2>1 DEF Live
  <2>3. LET h == entries[i].block_number IN
        h \in Blocks /\ h # b /\ Unlinked(block_map, h) /\ InUse(block_map[h])
    BY <1>2, <1>5, <2>1, LiveHead
  <2>4. \A x \in FileChain(i) : block_map'[x] = block_map[x]
    BY <1>2, <2>3 DEF SetEntryStep, FileChain
  <2> QED
    BY <2>2, <2>4, HolderKept
<1>6. RootChain' = RootChain
  <2>1. b \in Blocks /\ (b # 0 => b # block_number)
    BY <1>2, <1>3, LiveHead, EntryTypes
  <2> QED
    BY <1>2, <2>1, RootFrame, RootKept
<1>7. ASSUME NEW x \in Lost' PROVE x \in Lost
  <2>1. x \in Blocks /\ InUse(s.map[x]) /\ ~Reached(x)'
    BY <1>2, <1>7, LostMeans
  <2>2. x \notin Chain(s.map, s.first)
    BY <1>4, <2>1 DEF Reached
  <2>3. InUse(block_map[x]) /\ (b # 0 => x \notin Chain(block_map, b))
    BY <1>2, <2>1, <2>2 DEF SetEntryStep
  <2>4. \A i \in Holders : x \notin FileChain(i)
    <3> SUFFICES ASSUME NEW i \in Holders PROVE x \notin FileChain(i)
      OBVIOUS
    <3>1. CASE i = j
      BY <2>3, <3>1 DEF Holders, FileChain
    <3>2. CASE i # j
      BY <1>5, <2>1, <3>2 DEF Reached
    <3> QED
      BY <3>1, <3>2
  <2>5. ~Reached(x)
    BY <1>6, <2>1, <2>4 DEF Reached
  <2> QED
    BY <2>1, <2>3, <2>5, LostMeans
<1> QED
  BY <1>7

LEMMA DeleteLoss ==
    ASSUME IInv, IInv', NEW n \in Names, DeleteFile(n), result' = "ok"
    PROVE  Lost' \subseteq Lost
<1>0. entries \in Seq(Entry) /\ Len(entries) \in Nat
  BY DEF IInv, TypeOK
<1>1. LiveNamed(n) # {}
  BY DEF DeleteFile
<1> PICK j : j = First(LiveNamed(n))
  OBVIOUS
<1> PICK b : b = entries[j].block_number
  OBVIOUS
<1>2. /\ j \in Live /\ block_number' = block_number
      /\ b # 0 => \A x \in Blocks :
            block_map'[x] = IF x \in FileChain(j) THEN Free ELSE block_map[x]
      /\ b = 0 => block_map' = block_map
      /\ Len(entries') = Len(entries)
      /\ \A i \in 1..Len(entries) : i # j => entries'[i] = entries[i]
  BY <1>1, DeleteWords
<1>3. j \in 1..Len(entries) /\ b \in Blocks /\ Sound(block_map)
      /\ (b # 0 => /\ j \in Holders /\ FileChain(j) = Chain(block_map, b)
                   /\ Unlinked(block_map, b) /\ InUse(block_map[b]) /\ b # block_number)
  BY <1>2, LiveHead, EntryTypes DEF Live, Holders, FileChain, IInv
\* Chains that start elsewhere keep their words.
<1>4. ASSUME NEW h \in Blocks, Unlinked(block_map, h), b # 0 => h # b
      PROVE  \A x \in Chain(block_map, h) : block_map'[x] = block_map[x]
  <2>1. CASE b = 0
    BY <1>2, <2>1
  <2>2. CASE b # 0
    <3>1. Chain(block_map, h) \cap Chain(block_map, b) = {} /\ Chain(block_map, h) \subseteq Blocks
      BY <1>3, <1>4, <2>2, ChainsApart, ChainFacts DEF Sound
    <3> QED
      BY <1>2, <1>3, <2>2, <3>1
  <2> QED
    BY <2>1, <2>2
<1>5. ASSUME NEW i \in Holders, i # j PROVE i \in Holders' /\ FileChain(i)' = FileChain(i)
  <2>1. i \in Live /\ i \in 1..Len(entries) /\ entries[i].block_number # 0
    BY DEF Holders, Live
  <2>2. entries'[i] = entries[i] /\ i \in Live'
    BY <1>0, <1>2, <1>5, <2>1 DEF Live
  <2>3. LET h == entries[i].block_number IN
        h \in Blocks /\ h # b /\ Unlinked(block_map, h)
    BY <1>2, <1>5, <2>1, LiveHead
  <2>4. \A x \in FileChain(i) : block_map'[x] = block_map[x]
    BY <1>4, <2>3 DEF FileChain
  <2> QED
    BY <2>2, <2>4, HolderKept
<1>6. RootChain' = RootChain
  <2>1. block_number \in Blocks /\ Unlinked(block_map, block_number)
    BY DEF IInv, TypeOK, RootOK
  <2>2. \A x \in RootChain : block_map'[x] = block_map[x]
    BY <1>3, <1>4, <2>1 DEF RootChain
  <2> QED
    BY <1>2, <2>2, RootKept
<1>7. ASSUME NEW x \in Lost' PROVE x \in Lost
  <2>1. x \in Blocks /\ InUse(block_map'[x]) /\ ~Reached(x)'
    BY <1>7, LostMeans
  <2>2. InUse(block_map[x]) /\ (b # 0 => x \notin FileChain(j))
    BY <1>2, <2>1, WordFacts
  <2>3. \A i \in Holders : x \notin FileChain(i)
    <3> SUFFICES ASSUME NEW i \in Holders PROVE x \notin FileChain(i)
      OBVIOUS
    <3>1. CASE i = j
      BY <2>2, <3>1 DEF Holders
    <3>2. CASE i # j
      BY <1>5, <2>1, <3>2 DEF Reached
    <3> QED
      BY <3>1, <3>2
  <2>4. ~Reached(x)
    BY <1>6, <2>1, <2>3 DEF Reached
  <2> QED
    BY <2>1, <2>2, <2>4, LostMeans
<1> QED
  BY <1>7

LEMMA WriteRootLoss ==
    ASSUME IInv, IInv', WriteRoot, result' = "ok"
    PROVE  Lost' \subseteq Lost
<1>1. /\ block_number' # 0 /\ entries' = entries
      /\ \A x \in Blocks : InUse(block_map'[x]) =>
            \/ x \in Chain(block_map', block_number')
            \/ block_map'[x] = block_map[x] /\ x \notin RootChain
  BY WriteRootStep DEF WriteRoot
<1>2. RootChain' = Chain(block_map', block_number')
  BY <1>1 DEF RootChain
<1>3. ASSUME NEW i \in Holders PROVE i \in Holders' /\ FileChain(i)' = FileChain(i)
  <2>1. i \in Live /\ entries[i].block_number # 0 /\ i \in Live'
    BY <1>1 DEF Holders, Live
  <2>2. LET h == entries[i].block_number IN
        /\ h \in Blocks /\ h # 0 /\ h # block_number
        /\ Unlinked(block_map, h) /\ InUse(block_map[h])
    BY <2>1, LiveHead
  <2>3. \A x \in FileChain(i) : block_map'[x] = block_map[x]
    BY <2>2, WriteRootStep DEF FileChain
  <2> QED
    BY <1>1, <2>1, <2>3, HolderKept
<1>4. ASSUME NEW x \in Lost' PROVE x \in Lost
  <2>1. x \in Blocks /\ InUse(block_map'[x]) /\ ~Reached(x)'
    BY <1>4, LostMeans
  <2>2. x \notin RootChain'
    BY <2>1 DEF Reached
  <2>3. InUse(block_map[x]) /\ x \notin RootChain
    BY <1>1, <1>2, <2>1, <2>2
  <2>4. ~Reached(x)
    BY <1>3, <2>1, <2>3 DEF Reached
  <2> QED
    BY <2>1, <2>3, <2>4, LostMeans
<1> QED
  BY <1>4

\* An operation that reports success loses no block: whatever was in use on
\* no chain after it was so before, for every image size and history
\* (set_chain_data, free_block_chain, write_logical).
THEOREM NothingLost == Spec => NoLossOnSuccess
<1>1. ASSUME IInv, WritingOK, Next, result' = "ok"
      PROVE  Lost' \subseteq Lost
  <2>0. IInv'
    BY <1>1, StepIInv
  <2>1. ASSUME NEW n \in Names, NEW d \in Seq(Chunk), InjectFile(n, d) PROVE Lost' \subseteq Lost
    BY <1>1, <2>0, <2>1, InjectLoss
  <2>2. ASSUME NEW n \in Names, NEW d \in Seq(Chunk), ReplaceFile(n, d) PROVE Lost' \subseteq Lost
    BY <1>1, <2>0, <2>2, ReplaceLoss
  <2>3. ASSUME NEW n \in Names, DeleteFile(n) PROVE Lost' \subseteq Lost
    BY <1>1, <2>0, <2>3, DeleteLoss
  <2>4. ~BeginWrite
    BY <1>1 DEF BeginWrite
  <2>5. ~WriteEntry
    <3> SUFFICES ASSUME WriteEntry PROVE FALSE
      OBVIOUS
    <3>1. result = "running"
      <4>1. writing # 0
        BY DEF WriteEntry
      <4> QED
        BY <1>1, <4>1 DEF WritingOK
    <3> QED
      BY <1>1, <3>1 DEF WriteEntry
  <2>6. CASE WriteRoot
    BY <1>1, <2>0, <2>6, WriteRootLoss
  <2> QED
    BY <1>1, <2>1, <2>2, <2>3, <2>4, <2>5, <2>6, ContentsData DEF Next, Edit, Write
<1>2. IInv /\ WritingOK /\ [Next]_vars => [result' = "ok" => Lost' \subseteq Lost]_vars
  BY <1>1
<1>3. Init => WritingOK
  BY WritingInit
<1>4. IInv /\ WritingOK /\ [Next]_vars => WritingOK'
  BY WritingStep
<1> QED
  BY <1>2, <1>3, <1>4, Invariance, PTL DEF Spec, NoLossOnSuccess

-----------------------------------------------------------------------------
(* The order of a set of numbers. *)

Rank(S, x) == Cardinality({y \in S : y < x}) + 1

LEMMA RankFacts ==
    ASSUME NEW S \in SUBSET Nat, IsFiniteSet(S)
    PROVE  /\ Cardinality(S) \in Nat
           /\ \A x \in S : Rank(S, x) \in 1..Cardinality(S)
           /\ \A x, y \in S : Rank(S, x) = Rank(S, y) => x = y
           /\ \A k \in 1..Cardinality(S) : \E x \in S : Rank(S, x) = k
<1> DEFINE below(x) == {y \in S : y < x}
<1>1. Cardinality(S) \in Nat
  BY FS_CardinalityType
<1>2. ASSUME NEW x \in S
      PROVE  /\ IsFiniteSet(below(x)) /\ Cardinality(below(x)) \in Nat
             /\ Cardinality(below(x) \cup {x}) = Cardinality(below(x)) + 1
             /\ Cardinality(below(x)) + 1 <= Cardinality(S)
  <2>1. IsFiniteSet(below(x)) /\ Cardinality(below(x)) \in Nat
    BY FS_Subset, FS_CardinalityType
  <2>2. x \notin below(x) /\ below(x) \cup {x} \subseteq S
    OBVIOUS
  <2> HIDE DEF below
  <2>3. /\ IsFiniteSet(below(x) \cup {x})
        /\ Cardinality(below(x) \cup {x}) = Cardinality(below(x)) + 1
    BY <2>1, <2>2, FS_AddElement
  <2>4. Cardinality(below(x) \cup {x}) <= Cardinality(S)
    BY <2>2, FS_Subset
  <2> QED
    BY <2>1, <2>3, <2>4
<1>3. ASSUME NEW x \in S PROVE Rank(S, x) = Cardinality(below(x)) + 1
  BY DEF Rank
<1>4. ASSUME NEW x \in S, NEW y \in S, x < y PROVE Rank(S, x) < Rank(S, y)
  <2>1. below(x) \cup {x} \subseteq below(y)
    <3>1. ASSUME NEW z \in S, z < x PROVE z < y
      <4>1. x \in Nat /\ y \in Nat /\ z \in Nat
        OBVIOUS
      <4> QED
        BY <1>4, <3>1, <4>1
    <3> QED
      BY <1>4, <3>1
  <2>2. IsFiniteSet(below(y)) /\ Cardinality(below(y)) \in Nat /\ Cardinality(below(x)) \in Nat
        /\ Cardinality(below(x) \cup {x}) = Cardinality(below(x)) + 1
    BY <1>2
  <2> HIDE DEF below
  <2>3. Cardinality(below(x) \cup {x}) <= Cardinality(below(y))
    BY <2>1, <2>2, FS_Subset
  <2> QED
    BY <2>2, <2>3, <1>3
<1>5. ASSUME NEW x \in S PROVE Rank(S, x) \in 1..Cardinality(S)
  <2>1. /\ Rank(S, x) = Cardinality(below(x)) + 1 /\ Cardinality(below(x)) \in Nat
        /\ Cardinality(below(x)) + 1 <= Cardinality(S)
    BY <1>2, <1>3
  <2> HIDE DEF below
  <2> QED
    BY <1>1, <2>1
<1>6. ASSUME NEW x \in S, NEW y \in S, Rank(S, x) = Rank(S, y) PROVE x = y
  <2>1. x < y \/ y < x \/ x = y
    OBVIOUS
  <2>2. Rank(S, x) \in Nat /\ Rank(S, y) \in Nat
    BY <1>5, <1>1
  <2> QED
    BY <1>4, <1>6, <2>1, <2>2
<1> DEFINE f == [x \in S |-> Rank(S, x)]
<1>7. f \in Injection(S, 1..Cardinality(S))
  <2>1. f \in [S -> 1..Cardinality(S)]
    BY <1>5
  <2>2. \A x, y \in S : f[x] = f[y] => x = y
    BY <1>6
  <2> HIDE DEF f
  <2> QED
    BY <2>1, <2>2 DEF Injection, IsInjective
<1>8. IsFiniteSet(1..Cardinality(S)) /\ Cardinality(1..Cardinality(S)) = Cardinality(S)
  BY <1>1, FS_Interval
<1>9. f \in Surjection(S, 1..Cardinality(S))
  <2> HIDE DEF f
  <2> QED
    BY <1>7, <1>8, FS_Injection
<1>10. ASSUME NEW k \in 1..Cardinality(S) PROVE \E x \in S : Rank(S, x) = k
  BY <1>9 DEF Surjection
<1> QED
  BY <1>1, <1>5, <1>6, <1>10

\* Counting through a finite set of numbers meets each of them once.
LEMMA InOrderFacts ==
    ASSUME NEW S \in SUBSET Nat, IsFiniteSet(S)
    PROVE  /\ \A k \in 1..Cardinality(S) : InOrder(S, k) \in S
           /\ \A x \in S : \E k \in 1..Cardinality(S) : InOrder(S, k) = x
           /\ \A j, k \in 1..Cardinality(S) : InOrder(S, j) = InOrder(S, k) => j = k
<1>0. Cardinality(S) \in Nat
  BY RankFacts
<1>1. ASSUME NEW k \in 1..Cardinality(S)
      PROVE  InOrder(S, k) \in S /\ Rank(S, InOrder(S, k)) = k
  <2>1. PICK x \in S : Rank(S, x) = k
    BY RankFacts
  <2>2. ASSUME NEW y \in S PROVE Cardinality({z \in S : z < y}) \in Nat
    BY FS_Subset, FS_CardinalityType
  <2>3. \A y \in S : Rank(S, y) = k <=> Cardinality({z \in S : z < y}) = k - 1
    BY <1>0, <2>2 DEF Rank
  <2>4. \E y \in S : Cardinality({z \in S : z < y}) = k - 1
    BY <2>1, <2>3
  <2>5. InOrder(S, k) \in S /\ Cardinality({z \in S : z < InOrder(S, k)}) = k - 1
    BY <2>4 DEF InOrder
  <2> QED
    BY <2>3, <2>5
<1>2. ASSUME NEW x \in S PROVE \E k \in 1..Cardinality(S) : InOrder(S, k) = x
  <2>1. Rank(S, x) \in 1..Cardinality(S)
    BY RankFacts
  <2>2. PICK k \in 1..Cardinality(S) : k = Rank(S, x)
    BY <2>1
  <2>3. InOrder(S, k) \in S /\ Rank(S, InOrder(S, k)) = Rank(S, x)
    BY <1>1, <2>2
  <2>4. \A y \in S : Rank(S, y) = Rank(S, x) => y = x
    BY RankFacts
  <2> QED
    BY <2>3, <2>4
<1>3. ASSUME NEW j \in 1..Cardinality(S), NEW k \in 1..Cardinality(S),
             InOrder(S, j) = InOrder(S, k)
      PROVE  j = k
  BY <1>1, <1>3
<1> QED
  BY <1>1, <1>2, <1>3

-----------------------------------------------------------------------------
(* The image as read finds it, with its variables as parameters: img is the *)
(* image, m the block map, b the root and es the entries in memory.         *)

LiveIn(es) == {i \in 1..Len(es) : ~es[i].deleted}

ListedIn(img, m, b, p) ==
    img[Nth(m, b, ((p - 1) \div EntriesPerRoot) + 1)].files[PlaceIn(p)]

SlotsIn(img, m, b) ==
    {p \in 1..(EntriesPerRoot * Cardinality(Chain(m, b))) :
        PlaceIn(p) <= Len(img[Nth(m, b, ((p - 1) \div EntriesPerRoot) + 1)].files)}

KeptIn(img, m, b) ==
    {p \in SlotsIn(img, m, b) : \A q \in SlotsIn(img, m, b) :
        q < p => ListedIn(img, m, b, q).name # ListedIn(img, m, b, p).name}

ReadData(img, m, e) ==
    IF e.block_number = 0 \/ e.size = 0 THEN <<>>
    ELSE LET raw == [k \in 1..Cardinality(Chain(m, e.block_number)) |->
                        img[Nth(m, e.block_number, k)].chunk]
         IN  IF Len(raw) >= e.size THEN SubSeq(raw, 1, e.size) ELSE raw

\* A disk entry that is a file's: its first block starts a chain of its own, which
\* holds as much as its size says.
FileEntry(img, m, b, e) ==
    /\ e \in DiskEntry /\ ~e.deleted /\ DiskName[e.name] = e.name
    /\ e.block_number # 0 /\ e.block_number # b
    /\ InUse(m[e.block_number]) /\ Unlinked(m, e.block_number)
    /\ ReadData(img, m, e) \in Seq(Chunk) /\ Len(ReadData(img, m, e)) = e.size

\* The image has the map and the live files of the root in memory.
Readable(img, m, b, es) ==
    /\ b # 0 /\ img[b].map = m /\ m[LastOf(m, b)] = End
    /\ \A p \in SlotsIn(img, m, b) : FileEntry(img, m, b, ListedIn(img, m, b, p))
    /\ \A p, q \in SlotsIn(img, m, b) :
          ListedIn(img, m, b, p).block_number = ListedIn(img, m, b, q).block_number => p = q
    /\ \A p \in KeptIn(img, m, b) : \E j \in LiveIn(es) :
          /\ DiskName[es[j].name] = ListedIn(img, m, b, p).name
          /\ es[j].data = ReadData(img, m, ListedIn(img, m, b, p))
    /\ \A j \in LiveIn(es) : \E p \in SlotsIn(img, m, b) :
          ListedIn(img, m, b, p).name = DiskName[es[j].name]

\* A name that is listed is kept in its first place.
LEMMA KeptFacts ==
    ASSUME NEW img, NEW m, NEW b
    PROVE  /\ KeptIn(img, m, b) \subseteq SlotsIn(img, m, b)
           /\ SlotsIn(img, m, b) \subseteq Nat
           /\ \A p, q \in KeptIn(img, m, b) :
                 ListedIn(img, m, b, p).name = ListedIn(img, m, b, q).name => p = q
           /\ \A p \in SlotsIn(img, m, b) : \E q \in KeptIn(img, m, b) :
                 ListedIn(img, m, b, q).name = ListedIn(img, m, b, p).name
<1> DEFINE S == SlotsIn(img, m, b)
           K == KeptIn(img, m, b)
           name(p) == ListedIn(img, m, b, p).name
<1>1. S \subseteq Nat
  BY DEF SlotsIn
<1>2. K = {p \in S : \A q \in S : q < p => name(q) # name(p)}
  BY DEF KeptIn
<1> HIDE DEF S, K, name
<1>3. ASSUME NEW p \in K, NEW q \in K, name(p) = name(q) PROVE p = q
  <2>1. p \in Nat /\ q \in Nat /\ p \in S /\ q \in S
    BY <1>1, <1>2
  <2>2. ~(p < q) /\ ~(q < p)
    BY <1>2, <1>3, <2>1
  <2> QED
    BY <2>1, <2>2
<1>4. ASSUME NEW p \in S PROVE \E q \in K : name(q) = name(p)
  <2> DEFINE T == {q \in S : name(q) = name(p)}
  <2>1. T \subseteq Nat /\ T # {}
    BY <1>1
  <2>2. Least(T) \in T /\ \A q \in T : Least(T) <= q
    BY <2>1, LeastFact
  <2>3. PICK l : l = Least(T)
    OBVIOUS
  <2>4. l \in S /\ name(l) = name(p) /\ \A q \in S : name(q) = name(p) => l <= q
    BY <2>2, <2>3
  <2>5. \A q \in S : q < l => name(q) # name(l)
    BY <1>1, <2>4
  <2> QED
    BY <1>2, <2>4, <2>5
<1>5. K \subseteq S
  BY <1>2
<1> QED
  BY <1>1, <1>3, <1>4, <1>5 DEF S, K, name

-----------------------------------------------------------------------------
(* Reading back. *)

\* What read makes of a readable image: one live entry for each name that is kept.
LEMMA LoadedEntries ==
    ASSUME NEW m, Sound(m), NEW b \in Blocks, b = block_number, Unlinked(m, b),
           NEW es, Readable(image, m, b, es), Load,
           NEW K, K = KeptIn(image, m, b)
    PROVE  /\ block_map' = m /\ image' = image /\ block_number' = block_number
           /\ writing = 0 /\ writing' = 0 /\ result' = "ok"
           /\ entries' \in Seq(Entry)
           /\ Live' = 1..Len(entries')
           /\ \A k \in Live' : \E p \in K :
                 LET e == ListedIn(image, m, b, p)
                 IN  /\ p = InOrder(K, k)
                     /\ FileEntry(image, m, b, e)
                     /\ entries'[k].name = e.name
                     /\ entries'[k].block_number = e.block_number
                     /\ entries'[k].size = e.size
                     /\ entries'[k].data = ReadData(image, m, e)
           /\ \A p \in K : \E k \in Live' : p = InOrder(K, k)
           /\ \A j, k \in Live' : InOrder(K, j) = InOrder(K, k) => j = k
<1> DEFINE L(p) == ListedIn(image, m, b, p)
           rec(k) == LET e == L(InOrder(K, k))
                     IN  [name |-> e.name, block_number |-> e.block_number, size |-> e.size,
                          deleted |-> e.deleted, data |-> ReadData(image, m, e)]
           list == [k \in 1..Cardinality(K) |-> rec(k)]
<1>1. b \in Blocks /\ b # 0 /\ Sound(m) /\ Unlinked(m, b)
      /\ m \in [Blocks -> Words]
  BY DEF Readable, Sound, IsMap
<1>2. DiskMap = m
  BY DEF DiskMap, Readable
<1>3. Slots = SlotsIn(image, m, b) /\ \A p : Listed(p) = L(p)
  BY <1>2 DEF Slots, SlotsIn, Listed, ListedIn, RootOf
<1>4. Kept = K
  BY <1>3 DEF Kept, KeptIn
<1>5. \A e : DiskData(e) = ReadData(image, m, e)
  BY <1>2 DEF DiskData, ReadData, ChainData
<1>6. block_map' = m
  <2>1. block_map' = [m EXCEPT ![LastOf(m, b)] = End]
    BY <1>2 DEF Load
  <2>2. m[LastOf(m, b)] = End
    BY DEF Readable
  <2> QED
    BY <1>1, <2>1, <2>2
<1>7. entries' = list
  BY <1>3, <1>4, <1>5 DEF Load
<1>8. /\ K \subseteq Nat /\ IsFiniteSet(K) /\ Cardinality(K) \in Nat
      /\ K \subseteq SlotsIn(image, m, b)
  <2>1. K \subseteq SlotsIn(image, m, b) /\ K \subseteq Nat
    BY KeptFacts
  <2>2. Cardinality(Chain(m, b)) \in Nat
    BY <1>1, PositionStep
  <2>3. EntriesPerRoot * Cardinality(Chain(m, b)) \in Nat
    BY <2>2, FlashFSAssumption
  <2>4. IsFiniteSet(1..(EntriesPerRoot * Cardinality(Chain(m, b))))
    BY <2>3, FS_Interval
  <2>5. SlotsIn(image, m, b) \subseteq 1..(EntriesPerRoot * Cardinality(Chain(m, b)))
    BY DEF SlotsIn
  <2> QED
    BY <2>1, <2>4, <2>5, FS_Subset, FS_CardinalityType
<1>9. ASSUME NEW p \in K PROVE FileEntry(image, m, b, L(p))
  BY <1>8 DEF Readable
<1> HIDE DEF L
<1>10. ASSUME NEW k \in 1..Cardinality(K)
       PROVE  /\ InOrder(K, k) \in K
              /\ rec(k) \in Entry /\ ~rec(k).deleted
  <2>1. InOrder(K, k) \in K
    BY <1>8, InOrderFacts
  <2>2. PICK e : e = L(InOrder(K, k))
    OBVIOUS
  <2>3. e \in DiskEntry /\ ~e.deleted /\ ReadData(image, m, e) \in Seq(Chunk)
    BY <1>9, <2>1, <2>2 DEF FileEntry
  <2>4. rec(k) = [name |-> e.name, block_number |-> e.block_number, size |-> e.size,
                  deleted |-> e.deleted, data |-> ReadData(image, m, e)]
    BY <2>2
  <2> HIDE DEF rec
  <2> QED
    BY <2>1, <2>3, <2>4 DEF DiskEntry, Entry
<1>11. /\ list \in Seq(Entry) /\ Len(list) = Cardinality(K)
       /\ \A k \in 1..Cardinality(K) : list[k] = rec(k)
  <2> HIDE DEF rec
  <2> QED
    BY <1>8, <1>10
<1> HIDE DEF list
<1>12. Live' = 1..Len(entries')
  <2> HIDE DEF rec
  <2>1. Live' = {i \in 1..Len(list) : ~list[i].deleted}
    BY <1>7 DEF Live
  <2> QED
    BY <1>10, <1>11, <1>7, <2>1
<1>13. Live' = 1..Cardinality(K)
  BY <1>7, <1>11, <1>12
<1>14. ASSUME NEW k \in 1..Cardinality(K)
       PROVE  \E p \in K :
                 /\ p = InOrder(K, k)
                 /\ FileEntry(image, m, b, L(p))
                 /\ entries'[k].name = L(p).name
                 /\ entries'[k].block_number = L(p).block_number
                 /\ entries'[k].size = L(p).size
                 /\ entries'[k].data = ReadData(image, m, L(p))
  <2>1. PICK p \in K : p = InOrder(K, k)
    BY <1>10
  <2>2. entries'[k] = rec(k)
    BY <1>7, <1>11
  <2> QED
    BY <1>9, <2>1, <2>2
<1>15. \A p \in K : \E k \in Live' : p = InOrder(K, k)
  BY <1>8, <1>13, InOrderFacts
<1>16. \A j, k \in Live' : InOrder(K, j) = InOrder(K, k) => j = k
  BY <1>8, <1>13, InOrderFacts
<1>17. image' = image /\ block_number' = block_number /\ writing = 0 /\ writing' = 0
       /\ result' = "ok"
  BY DEF Load, Idle
<1>18. entries' \in Seq(Entry)
  BY <1>7, <1>11
<1>19. \A k \in Live' : \E p \in K :
          LET e == ListedIn(image, m, b, p)
          IN  /\ p = InOrder(K, k)
              /\ FileEntry(image, m, b, e)
              /\ entries'[k].name = e.name
              /\ entries'[k].block_number = e.block_number
              /\ entries'[k].size = e.size
              /\ entries'[k].data = ReadData(image, m, e)
  BY <1>13, <1>14 DEF L
<1> QED
  BY <1>6, <1>12, <1>15, <1>16, <1>17, <1>18, <1>19

\* What read makes of a readable image, file by file.
LEMMA LoadFiles ==
    ASSUME NEW m, Sound(m), NEW b \in Blocks, b = block_number, Unlinked(m, b),
           NEW es, Readable(image, m, b, es), Load
    PROVE  /\ block_map' = m
           /\ entries' \in Seq(Entry) /\ Live' = 1..Len(entries') /\ UniqueNames'
           /\ \A i \in Live' : \E j \in LiveIn(es) :
                 /\ DiskName[es[j].name] = entries'[i].name
                 /\ es[j].data = entries'[i].data
           /\ \A j \in LiveIn(es) : \E i \in Live' : DiskName[es[j].name] = entries'[i].name
<1> DEFINE L(p) == ListedIn(image, m, b, p)
<1>0. PICK K : K = KeptIn(image, m, b)
  OBVIOUS
<1>1. /\ block_map' = m
      /\ entries' \in Seq(Entry)
      /\ Live' = 1..Len(entries')
      /\ \A k \in Live' : \E p \in K :
            /\ p = InOrder(K, k)
            /\ entries'[k].name = L(p).name
            /\ entries'[k].data = ReadData(image, m, L(p))
      /\ \A p \in K : \E k \in Live' : p = InOrder(K, k)
      /\ \A j, k \in Live' : InOrder(K, j) = InOrder(K, k) => j = k
  BY <1>0, LoadedEntries
<1>2. /\ K \subseteq SlotsIn(image, m, b)
      /\ \A p, q \in K : L(p).name = L(q).name => p = q
      /\ \A p \in SlotsIn(image, m, b) : \E q \in K : L(q).name = L(p).name
  BY <1>0, KeptFacts
<1>3. /\ \A p \in K : \E j \in LiveIn(es) :
            /\ DiskName[es[j].name] = L(p).name
            /\ es[j].data = ReadData(image, m, L(p))
      /\ \A j \in LiveIn(es) : \E p \in SlotsIn(image, m, b) :
            L(p).name = DiskName[es[j].name]
  BY <1>0 DEF Readable
<1> HIDE DEF L
<1>4. ASSUME NEW i \in Live'
      PROVE  \E j \in LiveIn(es) : /\ DiskName[es[j].name] = entries'[i].name
                                   /\ es[j].data = entries'[i].data
  <2>1. PICK p \in K : /\ entries'[i].name = L(p).name
                       /\ entries'[i].data = ReadData(image, m, L(p))
    BY <1>1
  <2> QED
    BY <1>3, <2>1
<1>5. ASSUME NEW j \in LiveIn(es) PROVE \E i \in Live' : DiskName[es[j].name] = entries'[i].name
  <2>1. PICK q \in SlotsIn(image, m, b) : L(q).name = DiskName[es[j].name]
    BY <1>3
  <2>2. PICK p \in K : L(p).name = DiskName[es[j].name]
    BY <1>2, <2>1
  <2>3. PICK k \in Live' : p = InOrder(K, k)
    BY <1>1
  <2>4. entries'[k].name = L(p).name
    BY <1>1, <2>3
  <2> QED
    BY <2>2, <2>3, <2>4
<1>6. UniqueNames'
  <2> SUFFICES ASSUME NEW i \in Live', NEW j \in Live', entries'[i].name = entries'[j].name
               PROVE  i = j
    BY DEF UniqueNames
  <2>1. PICK p \in K : p = InOrder(K, i) /\ entries'[i].name = L(p).name
    BY <1>1
  <2>2. PICK q \in K : q = InOrder(K, j) /\ entries'[j].name = L(q).name
    BY <1>1
  <2>3. p = q
    BY <1>2, <2>1, <2>2
  <2> QED
    BY <1>1, <2>1, <2>2, <2>3
<1> QED
  BY <1>1, <1>4, <1>5, <1>6

\* Sizes in the directory are those of the data.
SizesOK == \A i \in 1..Len(entries) : entries[i].size = Len(entries[i].data)

\* Reading back is genuine and leaves a state the operations can go on from.
LEMMA LoadStep ==
    ASSUME IInv, Readable(image, block_map, block_number, entries), Load
    PROVE  /\ IInv' /\ UniqueNames' /\ SizesOK' /\ WritingOK'
           /\ Readable(image', block_map', block_number', entries')
           /\ block_map' = block_map
           /\ \A i \in Live' : \E j \in Live :
                 /\ DiskName[entries[j].name] = entries'[i].name
                 /\ entries[j].data = entries'[i].data
           /\ \A j \in Live : \E i \in Live' :
                 DiskName[entries[j].name] = entries'[i].name
<1> DEFINE b == block_number
           L(p) == ListedIn(image, block_map, b, p)
<1>0. PICK K : K = KeptIn(image, block_map, b)
  OBVIOUS
<1>1. /\ block_map' = block_map /\ image' = image /\ block_number' = b
      /\ writing = 0 /\ writing' = 0 /\ result' = "ok"
      /\ entries' \in Seq(Entry)
      /\ Live' = 1..Len(entries')
      /\ \A k \in Live' : \E p \in K :
            /\ p = InOrder(K, k)
            /\ FileEntry(image, block_map, b, L(p))
            /\ entries'[k].name = L(p).name
            /\ entries'[k].block_number = L(p).block_number
            /\ entries'[k].size = L(p).size
            /\ entries'[k].data = ReadData(image, block_map, L(p))
      /\ \A p \in K : \E k \in Live' : p = InOrder(K, k)
      /\ \A j, k \in Live' : InOrder(K, j) = InOrder(K, k) => j = k
  <2>1. Sound(block_map) /\ Unlinked(block_map, b) /\ b \in Blocks
    BY DEF IInv, TypeOK, RootOK
  <2> QED
    BY <1>0, <2>1, LoadedEntries
<1>2. /\ K \subseteq SlotsIn(image, block_map, b)
      /\ \A p, q \in K : L(p).name = L(q).name => p = q
      /\ \A p \in SlotsIn(image, block_map, b) : \E q \in K : L(q).name = L(p).name
  BY <1>0, KeptFacts
<1>3. /\ b # 0 /\ image[b].map = block_map /\ block_map[LastOf(block_map, b)] = End
      /\ \A p \in SlotsIn(image, block_map, b) : FileEntry(image, block_map, b, L(p))
      /\ \A p, q \in SlotsIn(image, block_map, b) : L(p).block_number = L(q).block_number => p = q
      /\ \A p \in K : \E j \in LiveIn(entries) :
            /\ DiskName[entries[j].name] = L(p).name
            /\ entries[j].data = ReadData(image, block_map, L(p))
      /\ \A j \in LiveIn(entries) : \E p \in SlotsIn(image, block_map, b) :
            L(p).name = DiskName[entries[j].name]
  BY <1>0 DEF Readable
<1>4. Live = LiveIn(entries) /\ Live' = LiveIn(entries')
  BY DEF Live, LiveIn
<1> HIDE DEF L, b
\* The files are the ones that were written.
<1>5. Sound(block_map) /\ Unlinked(block_map, block_number) /\ block_number \in Blocks
  BY DEF IInv, TypeOK, RootOK
<1>6. /\ UniqueNames'
      /\ \A i \in Live' : \E j \in LiveIn(entries) :
            /\ DiskName[entries[j].name] = entries'[i].name
            /\ entries[j].data = entries'[i].data
      /\ \A j \in LiveIn(entries) : \E i \in Live' :
            DiskName[entries[j].name] = entries'[i].name
  BY <1>5, LoadFiles
\* The invariants.
<1>8. SizesOK'
  <2> SUFFICES ASSUME NEW i \in Live' PROVE entries'[i].size = Len(entries'[i].data)
    BY <1>1 DEF SizesOK
  <2>1. PICK p \in K : /\ FileEntry(image, block_map, b, L(p))
                       /\ entries'[i].size = L(p).size
                       /\ entries'[i].data = ReadData(image, block_map, L(p))
    BY <1>1
  <2> QED
    BY <2>1 DEF FileEntry
<1>9. HeadsOK(block_map, entries', b)
  <2>1. ASSUME NEW i \in Live'
        PROVE  /\ InUse(block_map[entries'[i].block_number])
               /\ Unlinked(block_map, entries'[i].block_number)
               /\ entries'[i].block_number # b
    <3>1. PICK p \in K : /\ FileEntry(image, block_map, b, L(p))
                         /\ entries'[i].block_number = L(p).block_number
      BY <1>1
    <3> QED
      BY <3>1 DEF FileEntry
  <2>2. ASSUME NEW i \in Live', NEW j \in Live',
               entries'[i].block_number = entries'[j].block_number
        PROVE  i = j
    <3>1. PICK p \in K : p = InOrder(K, i) /\ entries'[i].block_number = L(p).block_number
      BY <1>1
    <3>2. PICK q \in K : q = InOrder(K, j) /\ entries'[j].block_number = L(q).block_number
      BY <1>1
    <3>3. p = q
      BY <1>2, <1>3, <2>2, <3>1, <3>2
    <3> QED
      BY <1>1, <3>1, <3>2, <3>3
  <2> QED
    BY <1>1, <2>1, <2>2 DEF HeadsOK, Holds
<1>10. IInv'
  <2>1. /\ block_number \in Blocks /\ Sound(block_map) /\ DOMAIN image = Blocks
        /\ RootOK(block_map, block_number)
    BY DEF IInv, TypeOK
  <2>2. writing' \in 0..(Len(entries') + 1)
    BY <1>1
  <2> QED
    BY <1>1, <1>9, <2>1, <2>2, NextIInv DEF b
<1>11. WritingOK'
  BY <1>1 DEF WritingOK
\* A second read would find the same.
<1>12. ASSUME NEW p \in K
       PROVE  \E j \in Live' : /\ DiskName[entries'[j].name] = L(p).name
                               /\ entries'[j].data = ReadData(image, block_map, L(p))
  <2>1. PICK k \in Live' : p = InOrder(K, k)
    BY <1>1
  <2>2. entries'[k].name = L(p).name /\ entries'[k].data = ReadData(image, block_map, L(p))
    BY <1>1, <2>1
  <2>3. DiskName[L(p).name] = L(p).name
    BY <1>2, <1>3 DEF FileEntry
  <2> QED
    BY <2>1, <2>2, <2>3
<1>13. ASSUME NEW j \in Live'
       PROVE  \E p \in SlotsIn(image, block_map, b) : L(p).name = DiskName[entries'[j].name]
  <2>1. PICK p \in K : entries'[j].name = L(p).name
    BY <1>1
  <2>2. p \in SlotsIn(image, block_map, b) /\ DiskName[L(p).name] = L(p).name
    BY <1>2, <1>3 DEF FileEntry
  <2> QED
    BY <2>1, <2>2
<1>14. Readable(image, block_map, b, entries')
  BY <1>0, <1>3, <1>4, <1>12, <1>13 DEF Readable, L
<1> QED
  BY <1>1, <1>4, <1>6, <1>8, <1>10, <1>11, <1>14 DEF b

-----------------------------------------------------------------------------
(* Writing the directory. *)

\* The directory that is read is the directory that was written.
LEMMA ListedWritten ==
    ASSUME NEW m, Sound(m), NEW r \in Blocks, Unlinked(m, r), NEW img,
           \A x \in Chain(m, r) : img[x] = RootShare(m, Position(m, r, x)),
           NEW n \in Nat, n = Cardinality(Live),
           EntriesPerRoot * Cardinality(Chain(m, r)) >= n
    PROVE  /\ SlotsIn(img, m, r) = 1..n
           /\ \A p \in 1..n : ListedIn(img, m, r, p) = DiskEntries[p]
<1>0. Cardinality(Chain(m, r)) \in Nat /\ EntriesPerRoot \in Nat \ {0}
  BY PositionStep, FlashFSAssumption
<1> PICK c \in Nat : c = Cardinality(Chain(m, r))
  BY <1>0
<1> PICK e \in Nat \ {0} : e = EntriesPerRoot
  BY <1>0
<1> DEFINE block(p) == ((p - 1) \div e) + 1
           files(p) == img[Nth(m, r, block(p))].files
<1>1. e * c \in Nat /\ e * c >= n
  OBVIOUS
<1>2. DiskEntries \in Seq({DiskEntries[i] : i \in 1..n}) /\ Len(DiskEntries) = n
  <2>1. PICK f : f = [k \in 1..n |-> DiskEntries[k]]
    OBVIOUS
  <2>2. DiskEntries = f
    BY <2>1 DEF DiskEntries
  <2>3. f \in Seq({f[i] : i \in 1..n}) /\ Len(f) = n
    BY <2>1
  <2> QED
    BY <2>2, <2>3
<1>3. ASSUME NEW p \in 1..(e * c)
      PROVE  /\ PlaceIn(p) <= Len(files(p)) <=> p <= n
             /\ p <= n => files(p)[PlaceIn(p)] = DiskEntries[p]
  <2>1. PICK k : k = ((p - 1) \div e) + 1
    OBVIOUS
  <2>2. PICK q : q = ((p - 1) % e) + 1
    OBVIOUS
  <2>3. PICK lo : lo = (k - 1) * e + 1
    OBVIOUS
  <2>4. PICK hi : hi = IF k * e < n THEN k * e ELSE n
    OBVIOUS
  <2>5. /\ k \in 1..c /\ lo \in Nat /\ hi \in Nat /\ lo >= 1 /\ hi <= n
        /\ q \in Nat /\ q >= 1 /\ lo + q - 1 = p
        /\ (IF lo <= hi THEN q <= hi - lo + 1 ELSE q <= 0) <=> p <= n
    <3> PICK d : d = (p - 1) \div e
      OBVIOUS
    <3> PICK t : t = (p - 1) % e
      OBVIOUS
    <3>1. d \in Nat /\ t \in 0..(e - 1) /\ p - 1 = e * d + t
      BY <1>1
    <3>2. k = d + 1 /\ q = t + 1
      BY <2>1, <2>2
    <3>3. d < c
      <4>1. e * d < e * c
        BY <1>1, <3>1
      <4> QED
        BY <3>1, <4>1
    <3>4. (k - 1) * e = e * d /\ k * e = e * d + e /\ e * d \in Nat
      BY <3>1, <3>2
    <3> QED
      BY <1>1, <2>3, <2>4, <3>1, <3>2, <3>3, <3>4
  <2>6. Nth(m, r, k) \in Chain(m, r) /\ Position(m, r, Nth(m, r, k)) = k
    BY <2>5, NthExists
  <2>7. img[Nth(m, r, k)].files = SubSeq(DiskEntries, lo, hi)
    <3>1. img[Nth(m, r, k)] = RootShare(m, k)
      BY <2>6
    <3>2. RootShare(m, k).files = SubSeq(DiskEntries, lo, hi)
      BY <1>2, <2>3, <2>4 DEF RootShare, RootBlock
    <3> QED
      BY <3>1, <3>2
  <2>8. files(p) = SubSeq(DiskEntries, lo, hi) /\ PlaceIn(p) = q
    BY <2>1, <2>2, <2>7 DEF PlaceIn
  <2> HIDE DEF files
  <2>9. \A i \in lo..hi : DiskEntries[i] \in {DiskEntries[j] : j \in 1..n}
    BY <2>5
  <2>10. /\ Len(SubSeq(DiskEntries, lo, hi)) = IF lo <= hi THEN hi - lo + 1 ELSE 0
         /\ \A i \in 1 .. hi - lo + 1 : SubSeq(DiskEntries, lo, hi)[i] = DiskEntries[lo + i - 1]
    BY <2>5, <2>9, SubSeqProperties
  <2>11. q <= Len(files(p)) <=> p <= n
    BY <2>5, <2>8, <2>10
  <2>12. ASSUME p <= n PROVE files(p)[q] = DiskEntries[p]
    <3>1. q \in 1 .. hi - lo + 1
      BY <2>5, <2>12
    <3>2. SubSeq(DiskEntries, lo, hi)[q] = DiskEntries[lo + q - 1]
      BY <2>10, <3>1
    <3> QED
      BY <2>5, <2>8, <3>2
  <2> QED
    BY <2>8, <2>11, <2>12
<1>4. \A p \in 1..n : p \in 1..(e * c)
  BY <1>1
<1>5. SlotsIn(img, m, r) = {p \in 1..(e * c) : PlaceIn(p) <= Len(files(p))}
  BY DEF SlotsIn
<1>6. \A p : ListedIn(img, m, r, p) = files(p)[PlaceIn(p)]
  BY DEF ListedIn
<1> HIDE DEF files
<1>7. SlotsIn(img, m, r) = 1..n
  BY <1>1, <1>3, <1>4, <1>5
<1> QED
  BY <1>3, <1>4, <1>6, <1>7

\* A file that is on the image is read whole.
LEMMA ReadsBack ==
    ASSUME NEW m, Sound(m), NEW img, NEW e, NEW b \in Blocks, b = e.block_number, Unlinked(m, b),
           NEW d \in Seq(Chunk), e.size = Len(d), On(m, img, b, d)
    PROVE  ReadData(img, m, e) = d
<1> DEFINE raw == [k \in 1..Cardinality(Chain(m, b)) |-> img[Nth(m, b, k)].chunk]
<1>1. d \in Seq(Chunk)
  BY FlashFSAssumption
<1>2. /\ b # 0 /\ Cardinality(Chain(m, b)) >= Len(d) /\ Cardinality(Chain(m, b)) \in Nat
      /\ \A x \in Chain(m, b) : Position(m, b, x) <= Len(d) => img[x].chunk = d[Position(m, b, x)]
  BY PositionStep DEF On
<1>3. ASSUME NEW k \in 1..Len(d) PROVE raw[k] = d[k]
  <2>1. k \in 1..Cardinality(Chain(m, b))
    BY <1>1, <1>2
  <2>2. Nth(m, b, k) \in Chain(m, b) /\ Position(m, b, Nth(m, b, k)) = k
    BY <2>1, NthExists
  <2> QED
    BY <1>1, <1>2, <2>1, <2>2
<1>4. Len(raw) = Cardinality(Chain(m, b))
  BY <1>2
<1>5. ReadData(img, m, e) = IF e.size = 0 THEN <<>>
                            ELSE IF Len(raw) >= e.size THEN SubSeq(raw, 1, e.size) ELSE raw
  BY <1>2 DEF ReadData
<1> HIDE DEF raw
<1>6. CASE Len(d) = 0
  BY <1>1, <1>5, <1>6
<1>7. CASE Len(d) # 0
  <2> PICK n : n = Len(d)
    OBVIOUS
  <2>1. n \in Nat \ {0} /\ \A k \in 1..n : raw[k] = d[k] /\ d[k] \in Chunk
    BY <1>1, <1>3, <1>7
  <2>2. ReadData(img, m, e) = SubSeq(raw, 1, n)
    BY <1>1, <1>2, <1>4, <1>5, <1>7
  <2>3. \A k \in 1..n : raw[k] \in Chunk
    BY <2>1
  <2>4. /\ SubSeq(raw, 1, n) \in Seq(Chunk) /\ Len(SubSeq(raw, 1, n)) = n
        /\ \A k \in 1..n : SubSeq(raw, 1, n)[k] = raw[k]
    <3>1. /\ SubSeq(raw, 1, n) \in Seq(Chunk)
          /\ Len(SubSeq(raw, 1, n)) = IF 1 <= n THEN n - 1 + 1 ELSE 0
          /\ \A k \in 1..n - 1 + 1 : SubSeq(raw, 1, n)[k] = raw[1 + k - 1]
      BY <2>1, <2>3, SubSeqProperties
    <3> QED
      BY <2>1, <3>1
  <2> PICK s : s = SubSeq(raw, 1, n)
    OBVIOUS
  <2>5. s = d
    BY <1>1, <2>1, <2>4
  <2> QED
    BY <2>2, <2>5
<1> QED
  BY <1>6, <1>7

\* The directory has a place for every live file.
LEMMA RoomForAll ==
    ASSUME IInv, NEW c \in Nat, c >= RootBlocksNeeded
    PROVE  EntriesPerRoot * c >= Cardinality(Live) /\ Cardinality(Live) \in Nat
<1>1. Cardinality(Live) \in Nat
  <2>1. Live \subseteq 1..Len(entries) /\ IsFiniteSet(1..Len(entries))
    BY FS_Interval DEF Live, IInv, TypeOK
  <2> QED
    BY <2>1, FS_Subset, FS_CardinalityType
<1> PICK n \in Nat : n = Cardinality(Live)
  BY <1>1
<1> PICK e \in Nat \ {0} : e = EntriesPerRoot
  BY FlashFSAssumption
<1> SUFFICES e * c >= n
  BY <1>1
<1>2. RootBlocksNeeded = IF n <= e THEN 1 ELSE (n + e - 1) \div e
  BY DEF RootBlocksNeeded
<1> PICK d : d = (n + e - 1) \div e
  OBVIOUS
<1> PICK t : t = (n + e - 1) % e
  OBVIOUS
<1>3. d \in Nat /\ t \in 0..(e - 1) /\ n + e - 1 = e * d + t
  OBVIOUS
<1>4. e * d >= n
  BY <1>3
<1>5. CASE n <= e
  <2>1. c >= 1
    BY <1>2, <1>5
  <2>2. e * c >= e
    BY <2>1
  <2> QED
    BY <1>5, <2>2
<1>6. CASE n > e
  <2>1. c >= d
    BY <1>2, <1>6
  <2>2. e * c >= e * d
    BY <1>3, <2>1
  <2> QED
    <3> PICK x \in Nat : x = e * c
      OBVIOUS
    <3> PICK y \in Nat : y = e * d
      BY <1>3
    <3> QED
      BY <1>4, <2>2
<1> QED
  BY <1>5, <1>6

\* After write_logical reported success the image is readable.
LEMMA WriteRootReadable ==
    ASSUME IInv, IInv', SizesOK, WriteRoot, result' = "ok", \A i \in Live' : OnImage(i)'
    PROVE  Readable(image', block_map', block_number', entries')
<1> PICK m : m = block_map'
  OBVIOUS
<1> PICK r : r = block_number'
  OBVIOUS
<1> PICK img : img = image'
  OBVIOUS
<1> DEFINE held == IF block_number = 0 THEN 0 ELSE 1
           G    == RootGrowth
           C    == Chain(m, r)
<1>1. /\ entries' = entries
      /\ Cardinality(G) + held >= RootBlocksNeeded
      /\ r = IF block_number = 0 THEN Least(G) ELSE block_number
      /\ m = Extend(RootCut, r, G)
      /\ \A x \in Blocks : x \in C => img[x] = RootShare(m, Position(m, r, x))
  BY DEF WriteRoot
<1>2. /\ r \in Blocks /\ r # 0 /\ Sound(m) /\ C = G \cup {r}
      /\ \A x \in C : InUse(m[x])
      /\ block_number = 0 => r \in G
      /\ block_number # 0 => r \notin G
  BY <1>1, RootChainAfter
<1>3. /\ Unlinked(m, r) /\ HeadsOK(m, entries, r)
      /\ entries \in Seq(Entry) /\ Len(entries) \in Nat
  BY <1>1 DEF IInv, RootOK, TypeOK
<1>4. C \subseteq Blocks /\ r \in C /\ IsFiniteSet(C) /\ Cardinality(C) \in Nat
  BY <1>2, <1>3, ChainFacts, PositionStep DEF Sound
<1>5. Cardinality(C) >= RootBlocksNeeded
  <2>1. RootBlocksNeeded \in Nat
    BY RootNeedsBlocks
  <2>2. G \subseteq C /\ IsFiniteSet(G) /\ Cardinality(G) \in Nat
    BY <1>2, <1>4, FS_Subset, FS_CardinalityType
  <2> HIDE DEF G, C
  <2>3. Cardinality(C) = IF r \in G THEN Cardinality(G) ELSE Cardinality(G) + 1
    BY <1>2, <2>2, FS_AddElement
  <2> QED
    BY <1>1, <1>2, <2>1, <2>2, <2>3
<1> PICK n : n = Cardinality(Live)
  OBVIOUS
<1>6. n \in Nat /\ EntriesPerRoot * Cardinality(C) >= n
  BY <1>4, <1>5, RoomForAll
<1>7. /\ SlotsIn(img, m, r) = 1..n
      /\ \A p \in 1..n : ListedIn(img, m, r, p) = DiskEntries[p]
  BY <1>1, <1>2, <1>3, <1>4, <1>6, ListedWritten
\* Each place is a live file's, and each live file has one.
<1>8. /\ \A p \in 1..n : InOrder(Live, p) \in Live
      /\ \A j \in Live : \E p \in 1..n : InOrder(Live, p) = j
      /\ \A p, q \in 1..n : InOrder(Live, p) = InOrder(Live, q) => p = q
  <2>1. Live \subseteq 1..Len(entries)
    BY DEF Live
  <2>2. IsFiniteSet(1..Len(entries)) /\ 1..Len(entries) \subseteq Nat
    BY <1>3, FS_Interval
  <2>3. Live \in SUBSET Nat /\ IsFiniteSet(Live)
    BY <2>1, <2>2, FS_Subset
  <2> QED
    BY <2>3, InOrderFacts
<1> DEFINE D(p) == ListedIn(img, m, r, p)
<1>9. ASSUME NEW p \in 1..n, NEW j \in Live, j = InOrder(Live, p)
      PROVE  /\ FileEntry(img, m, r, D(p))
             /\ D(p).name = DiskName[entries[j].name]
             /\ D(p).block_number = entries[j].block_number
             /\ ReadData(img, m, D(p)) = entries[j].data
  <2> PICK e : e = D(p)
    OBVIOUS
  <2> PICK b : b = entries[j].block_number
    OBVIOUS
  <2> PICK d : d = entries[j].data
    OBVIOUS
  <2>1. j \in 1..Len(entries) /\ ~entries[j].deleted
    BY DEF Live
  <2>2. entries[j] \in Entry
    BY <2>1, EntryTypes
  <2>3. e = [name |-> DiskName[entries[j].name], block_number |-> b,
             size |-> entries[j].size, deleted |-> entries[j].deleted]
    BY <1>7, <1>9 DEF DiskEntries
  <2>4. On(m, img, b, d)
    <3>1. j \in Live'
      BY <1>1, <2>1 DEF Live
    <3>2. OnImage(j)'
      BY <3>1
    <3> QED
      BY <1>1, <3>2 DEF OnImage, FileChain, On
  <2>5. b \in Blocks /\ b # 0 /\ d \in Seq(Chunk) /\ entries[j].name \in Names
    BY <2>2, <2>4 DEF Entry, On
  <2>6. InUse(m[b]) /\ Unlinked(m, b) /\ b # r
    BY <1>3, <2>1, <2>5 DEF HeadsOK, Holds
  <2>7. e.size = Len(d)
    BY <2>1, <2>3 DEF SizesOK
  <2>8. ReadData(img, m, e) = d
    BY <1>2, <2>3, <2>4, <2>5, <2>6, <2>7, ReadsBack
  <2>9. e \in DiskEntry /\ ~e.deleted /\ DiskName[e.name] = e.name
    <3>1. DiskName[entries[j].name] \in Names
      BY <2>5, FlashFSAssumption
    <3>2. DiskName[DiskName[entries[j].name]] = DiskName[entries[j].name]
      BY <2>5, MountAssumption
    <3> QED
      BY <2>1, <2>2, <2>3, <2>5, <3>1, <3>2 DEF DiskEntry, Entry
  <2>10. FileEntry(img, m, r, e)
    BY <2>3, <2>5, <2>6, <2>7, <2>8, <2>9 DEF FileEntry
  <2> QED
    BY <2>3, <2>8, <2>10
<1>10. img[r].map = m
  <2>1. Position(m, r, r) = 1
    BY <1>2, <1>3, PositionStep
  <2>2. img[r] = RootShare(m, 1)
    BY <1>1, <1>2, <1>4, <2>1
  <2> QED
    BY <2>2 DEF RootShare, RootBlock
<1>11. m[LastOf(m, r)] = End
  <2>1. LastOf(m, r) \in C /\ ~IsLink(m[LastOf(m, r)])
    BY <1>2, <1>3, LastExists
  <2> QED
    BY <1>2, <2>1 DEF InUse
<1> HIDE DEF D
<1>12. \A p \in 1..n : FileEntry(img, m, r, D(p))
  BY <1>8, <1>9
<1>13. ASSUME NEW p \in 1..n, NEW q \in 1..n, D(p).block_number = D(q).block_number PROVE p = q
  <2> PICK i \in Live : i = InOrder(Live, p)
    BY <1>8
  <2> PICK j \in Live : j = InOrder(Live, q)
    BY <1>8
  <2>1. entries[i].block_number = entries[j].block_number /\ entries[i].block_number # 0
    BY <1>9, <1>13 DEF FileEntry
  <2>2. i = j
    BY <1>3, <2>1 DEF HeadsOK, Holds, Live
  <2> QED
    BY <1>8, <2>2
<1>14. LiveIn(entries) = Live
  BY DEF LiveIn, Live
<1>15. ASSUME NEW p \in 1..n
       PROVE  \E j \in LiveIn(entries) : /\ DiskName[entries[j].name] = D(p).name
                                         /\ entries[j].data = ReadData(img, m, D(p))
  BY <1>8, <1>9, <1>14
<1>16. ASSUME NEW j \in LiveIn(entries)
       PROVE  \E p \in 1..n : D(p).name = DiskName[entries[j].name]
  BY <1>8, <1>9, <1>14
<1>17. KeptIn(img, m, r) \subseteq 1..n
  BY <1>7, KeptFacts
<1>18. Readable(img, m, r, entries)
  BY <1>2, <1>7, <1>10, <1>11, <1>12, <1>13, <1>15, <1>16, <1>17 DEF Readable, D
<1> QED
  BY <1>1, <1>18


-----------------------------------------------------------------------------
(* The invariant. *)

MountInv ==
    /\ IInv
    /\ WritingOK
    /\ SizesOK
    /\ UniqueNames
    /\ synced => Readable(image, block_map, block_number, entries)

LEMMA MountInitInv == MountInit => MountInv
<1> SUFFICES ASSUME MountInit PROVE MountInv
  OBVIOUS
<1>1. IInv /\ WritingOK /\ ~synced
  BY InitIInv, WritingInit DEF MountInit
<1>2. CASE Fresh
  <2>1. Len(entries) = 0 /\ Live = {}
    BY <1>2 DEF Fresh, Live
  <2> QED
    BY <1>1, <2>1 DEF MountInv, SizesOK, UniqueNames
<1>3. CASE Rebuild
  <2>1. PICK list \in Staged :
           entries = [i \in 1..Len(list) |->
                        [name |-> list[i].name, block_number |-> 0,
                         size |-> Len(list[i].data), deleted |-> list[i].deleted,
                         data |-> list[i].data]]
    BY <1>3 DEF Rebuild
  <2>2. list \in Seq([name : Names, data : Contents, deleted : BOOLEAN])
    BY FlashFSAssumption
  <2>3. /\ Len(entries) = Len(list) /\ DOMAIN list = 1..Len(list)
        /\ \A i \in 1..Len(list) :
              /\ entries[i].name = list[i].name
              /\ entries[i].deleted = list[i].deleted
              /\ entries[i].size = Len(entries[i].data)
    BY <2>1, <2>2
  <2>4. SizesOK
    BY <2>3 DEF SizesOK
  <2>5. UniqueNames
    <3> SUFFICES ASSUME NEW i \in Live, NEW j \in Live, entries[i].name = entries[j].name
                 PROVE  i = j
      BY DEF UniqueNames
    <3>1. /\ i \in DOMAIN list /\ j \in DOMAIN list
          /\ ~list[i].deleted /\ ~list[j].deleted /\ list[i].name = list[j].name
      BY <2>3 DEF Live
    <3> QED
      BY <3>1, MountAssumption
  <2> QED
    BY <1>1, <2>4, <2>5 DEF MountInv
<1> QED
  BY <1>2, <1>3 DEF MountInit, Init

\* An entry keeps its size with its data.
LEMMA SizesStep ==
    ASSUME IInv, SizesOK, Next
    PROVE  SizesOK'
<1>0. entries \in Seq(Entry) /\ Len(entries) \in Nat
  BY DEF IInv, TypeOK
<1>1. ASSUME Len(entries') = Len(entries),
             \A i \in 1..Len(entries) : /\ entries'[i].size = entries[i].size
                                        /\ entries'[i].data = entries[i].data
      PROVE  SizesOK'
  BY <1>1 DEF SizesOK
<1>2. ASSUME NEW n \in Names, NEW d \in Seq(Chunk), InjectFile(n, d), entries' # entries
      PROVE  SizesOK'
  <2> DEFINE s == SetEntryData(0, d)
             k == Len(entries) + 1
  <2>1. entries' = Append(entries, [name |-> n, block_number |-> s.first,
                                    size |-> Len(d), deleted |-> FALSE, data |-> d])
    BY <1>2 DEF InjectFile
  <2> HIDE DEF s
  <2>2. /\ Len(entries') = k
        /\ entries'[k].size = Len(d) /\ entries'[k].data = d
        /\ \A i \in 1..Len(entries) : entries'[i] = entries[i]
    BY <1>0, <2>1
  <2>3. \A i \in 1..k : i = k \/ i \in 1..Len(entries)
    BY <1>0
  <2> HIDE DEF k
  <2> QED
    BY <2>2, <2>3 DEF SizesOK
<1>3. ASSUME NEW n \in Names, NEW d \in Seq(Chunk), ReplaceFile(n, d), entries' # entries
      PROVE  SizesOK'
  <2>1. PICK j : j = First(LiveNamed(n))
    OBVIOUS
  <2> DEFINE s == SetEntryData(entries[j].block_number, d)
  <2>2. j \in 1..Len(entries) /\ entries[j] \in Entry
    BY <1>0, <1>3, <2>1, FirstExists, EntryTypes DEF LiveNamed, Live, ReplaceFile
  <2>3. entries' = Replaced(entries, j, s.first, d)
    BY <1>3, <2>1 DEF ReplaceFile, Replaced
  <2> HIDE DEF s
  <2>4. /\ Len(entries') = Len(entries)
        /\ entries'[j].block_number = s.first
        /\ entries'[j].size = Len(d) /\ entries'[j].data = d
        /\ entries'[j].name = entries[j].name /\ entries'[j].deleted = entries[j].deleted
        /\ \A i \in 1..Len(entries) : i # j => entries'[i] = entries[i]
    BY <1>0, <2>2, <2>3, EntryReplaced
  <2> QED
    BY <2>4 DEF SizesOK
<1>4. ASSUME NEW n \in Names, DeleteFile(n), entries' # entries PROVE SizesOK'
  <2>1. PICK j : j = First(LiveNamed(n))
    OBVIOUS
  <2>2. j \in 1..Len(entries) /\ entries[j] \in Entry
    BY <1>0, <1>4, <2>1, FirstExists, EntryTypes DEF LiveNamed, Live, DeleteFile
  <2>3. entries' = [entries EXCEPT ![j].deleted = TRUE]
    BY <1>4, <2>1 DEF DeleteFile
  <2>4. /\ Len(entries') = Len(entries)
        /\ \A i \in 1..Len(entries) : /\ entries'[i].size = entries[i].size
                                      /\ entries'[i].data = entries[i].data
    BY <1>0, <2>2, <2>3 DEF Entry
  <2> QED
    BY <1>1, <2>4
<1>5. CASE WriteEntry /\ ~entries[writing].deleted
  <2> DEFINE j == writing
             s == SetEntryData(entries[j].block_number, entries[j].data)
  <2>1. j \in 1..Len(entries) /\ entries' = [entries EXCEPT ![j].block_number = s.first]
    BY <1>5 DEF WriteEntry
  <2>2. entries[j] \in Entry
    BY <2>1, EntryTypes
  <2> HIDE DEF s, j
  <2>3. /\ Len(entries') = Len(entries)
        /\ \A i \in 1..Len(entries) : /\ entries'[i].size = entries[i].size
                                      /\ entries'[i].data = entries[i].data
    BY <1>0, <2>1, <2>2 DEF Entry
  <2> QED
    BY <1>1, <2>3
<1>6. CASE entries' = entries
  BY <1>1, <1>6
<1> QED
  BY <1>2, <1>3, <1>4, <1>5, <1>6, ContentsData
  DEF Next, Edit, Write, BeginWrite, WriteEntry, WriteRoot

\* The root block moves only when the directory is written.
LEMMA RootMoves ==
    ASSUME Next, block_number' # block_number
    PROVE  WriteRoot /\ result' = "ok"
BY DEF Next, Edit, Write, InjectFile, ReplaceFile, DeleteFile, BeginWrite, WriteEntry, WriteRoot

\* Only the directory's write ends write_logical with success.
LEMMA SuccessIsWriteRoot ==
    ASSUME Next, WritingOK, ~Idle, result' = "ok"
    PROVE  WriteRoot
<1>1. result = "running"
  BY DEF WritingOK, Idle
<1> QED
  BY <1>1 DEF Next, Edit, Write, InjectFile, ReplaceFile, DeleteFile, BeginWrite, WriteEntry

LEMMA MountStep == MountInv /\ [MountNext]_mountVars => MountInv'
<1> SUFFICES ASSUME MountInv, [MountNext]_mountVars PROVE MountInv'
  OBVIOUS
<1>0. /\ IInv /\ WritingOK /\ SizesOK /\ UniqueNames
      /\ synced => Readable(image, block_map, block_number, entries)
  BY DEF MountInv
<1>1. CASE /\ Next
           /\ synced' = \/ ~Idle /\ result' = "ok"
                        \/ synced /\ UNCHANGED <<entries, block_map, image>>
  <2>1. IInv' /\ WritingOK' /\ SizesOK' /\ UniqueNames'
    BY <1>0, <1>1, StepIInv, WritingStep, SizesStep, NamesStep
  <2>2. ASSUME ~Idle, result' = "ok"
        PROVE  Readable(image', block_map', block_number', entries')
    <3>1. WriteRoot
      BY <1>0, <1>1, <2>2, SuccessIsWriteRoot
    <3>2. \A i \in Live' : OnImage(i)'
      BY <1>0, <1>1, <2>2, WritingStep
    <3> QED
      BY <1>0, <2>1, <2>2, <3>1, <3>2, WriteRootReadable
  <2>3. ASSUME synced, UNCHANGED <<entries, block_map, image>>, Idle \/ result' # "ok"
        PROVE  Readable(image', block_map', block_number', entries')
    <3>1. ~(WriteRoot /\ Idle)
      <4>1. Len(entries) \in Nat
        BY <1>0 DEF IInv, TypeOK
      <4> QED
        BY <4>1 DEF WriteRoot, Idle
    <3>2. block_number' = block_number
      BY <1>1, <2>3, <3>1, RootMoves
    <3> QED
      BY <1>0, <2>3, <3>2
  <2>4. synced' => Readable(image', block_map', block_number', entries')
    BY <1>1, <2>2, <2>3
  <2> QED
    BY <2>1, <2>4 DEF MountInv
<1>2. CASE Load
  <2>1. Readable(image, block_map, block_number, entries)
    BY <1>0, <1>2 DEF Load
  <2> QED
    BY <1>0, <1>2, <2>1, LoadStep DEF MountInv
<1>3. CASE UNCHANGED mountVars
  BY <1>0, <1>3 DEF MountInv, mountVars, vars, IInv, TypeOK, WritingOK, SizesOK, UniqueNames,
     Live, OnImage, FileChain
<1> QED
  BY <1>1, <1>2, <1>3 DEF MountNext

LEMMA MountInvariance == MountSpec => []MountInv
BY MountInitInv, MountStep, PTL DEF MountSpec

\* Reading back a written image gives the files that were live when it was
\* written, each under the name the directory keeps of it, and misses one
\* only for another of the same name, for every image size, directory and
\* history (write_into, FileSystemRoot::read).
THEOREM ReadsBackFiles == MountSpec => LoadIsGenuine
<1>1. ASSUME MountInv, Load
      PROVE  /\ \A i \in Live' : \E j \in Live :
                   /\ DiskName[entries[j].name] = entries'[i].name
                   /\ entries[j].data = entries'[i].data
             /\ \A j \in Live : \E i \in Live' :
                   DiskName[entries[j].name] = entries'[i].name
  <2>1. IInv /\ Readable(image, block_map, block_number, entries)
    BY <1>1 DEF MountInv, Load
  <2> QED
    BY <1>1, <2>1, LoadStep
<1>2. MountInv /\ [MountNext]_mountVars =>
        [Load => /\ \A i \in Live' : \E j \in Live :
                       /\ DiskName[entries[j].name] = entries'[i].name
                       /\ entries[j].data = entries'[i].data
                 /\ \A j \in Live : \E i \in Live' :
                       DiskName[entries[j].name] = entries'[i].name]_mountVars
  BY <1>1
<1> QED
  BY <1>2, MountInvariance, PTL DEF MountSpec, LoadIsGenuine

\* Reading back recovers the block map the root was written with, for every
\* image size, directory and history (write_into, FileSystemRoot::read).
THEOREM ReadsBackMap == MountSpec => LoadKeepsMap
<1>1. ASSUME MountInv, Load PROVE block_map' = block_map
  <2>1. IInv /\ Readable(image, block_map, block_number, entries)
    BY <1>1 DEF MountInv, Load
  <2> QED
    BY <1>1, <2>1, LoadStep
<1>2. MountInv /\ [MountNext]_mountVars => [Load => block_map' = block_map]_mountVars
  BY <1>1
<1> QED
  BY <1>2, MountInvariance, PTL DEF MountSpec, LoadKeepsMap

-----------------------------------------------------------------------------
(* What a caller sees is a store of names and contents. *)

\* extract_asset, with the entries as a parameter.
ExtractIn(es, n) ==
    LET S == {i \in LiveIn(es) : es[i].name = n}
    IN  IF S = {} THEN <<"none">> ELSE <<"some", es[First(S)].data>>

Distinct(es) == \A i, j \in LiveIn(es) : es[i].name = es[j].name => i = j

LEMMA ExtractIsIn ==
    ASSUME NEW n
    PROVE  /\ Extract(n) = ExtractIn(entries, n) /\ Extract(n)' = ExtractIn(entries', n)
           /\ UniqueNames <=> Distinct(entries)
           /\ UniqueNames' <=> Distinct(entries')
           /\ Live = LiveIn(entries) /\ Live' = LiveIn(entries')
<1>1. Live = LiveIn(entries) /\ Live' = LiveIn(entries')
  BY DEF Live, LiveIn
<1>2. /\ LiveNamed(n) = {i \in LiveIn(entries) : entries[i].name = n}
      /\ LiveNamed(n)' = {i \in LiveIn(entries') : entries'[i].name = n}
  BY <1>1 DEF LiveNamed
<1>3. /\ Extract(n) = ExtractIn(entries, n)
      /\ Extract(n)' = ExtractIn(entries', n)
  BY <1>2 DEF Extract, ExtractIn
<1> QED
  BY <1>1, <1>3 DEF UniqueNames, Distinct

\* With distinct names the file found is the only one of its name.
LEMMA ExtractFacts ==
    ASSUME NEW es, Len(es) \in Nat, Distinct(es), NEW n
    PROVE  /\ \A i \in LiveIn(es) : es[i].name = n => ExtractIn(es, n) = <<"some", es[i].data>>
           /\ (\A i \in LiveIn(es) : es[i].name # n) => ExtractIn(es, n) = <<"none">>
<1> DEFINE S == {i \in LiveIn(es) : es[i].name = n}
<1>1. ASSUME NEW i \in LiveIn(es), es[i].name = n PROVE S = {i}
  BY <1>1 DEF Distinct
<1>2. ASSUME NEW i \in LiveIn(es), es[i].name = n
      PROVE  ExtractIn(es, n) = <<"some", es[i].data>>
  <2>1. S = {i}
    BY <1>1, <1>2
  <2>2. i \in Nat
    BY DEF LiveIn
  <2>3. First(S) = i
    BY <2>1, <2>2 DEF First
  <2> QED
    BY <2>1, <2>3 DEF ExtractIn
<1>3. ASSUME \A i \in LiveIn(es) : es[i].name # n PROVE ExtractIn(es, n) = <<"none">>
  <2>1. S = {}
    BY <1>3
  <2> QED
    BY <2>1 DEF ExtractIn
<1> QED
  BY <1>2, <1>3

\* Two lists of entries give the same file when each has the other's of that name.
LEMMA ExtractSame ==
    ASSUME NEW es, Len(es) \in Nat, Distinct(es), NEW fs, Len(fs) \in Nat, Distinct(fs), NEW n,
           \A i \in LiveIn(es) : es[i].name = n =>
              \E j \in LiveIn(fs) : fs[j].name = n /\ fs[j].data = es[i].data,
           \A j \in LiveIn(fs) : fs[j].name = n =>
              \E i \in LiveIn(es) : es[i].name = n
    PROVE  ExtractIn(fs, n) = ExtractIn(es, n)
<1>1. CASE \E i \in LiveIn(es) : es[i].name = n
  <2>1. PICK i \in LiveIn(es) : es[i].name = n
    BY <1>1
  <2>2. PICK j \in LiveIn(fs) : fs[j].name = n /\ fs[j].data = es[i].data
    BY <2>1
  <2> QED
    BY <2>1, <2>2, ExtractFacts
<1>2. CASE \A i \in LiveIn(es) : es[i].name # n
  <2>1. \A j \in LiveIn(fs) : fs[j].name # n
    BY <1>2
  <2> QED
    BY <1>2, <2>1, ExtractFacts
<1> QED
  BY <1>1, <1>2

\* A step that changes what is found under one name only, to r.
LEMMA StoreChange ==
    ASSUME NEW n, NEW r, \A o \in OwnNames \ {n} : Extract(o)' = Extract(o),
           n \in OwnNames => Extract(n)' = r
    PROVE  LET st == [o \in OwnNames |-> Extract(o)]
           IN  IF n \in OwnNames THEN st' = [st EXCEPT ![n] = r] ELSE st' = st
BY DEF OwnNames

LEMMA InjectIsCreate ==
    ASSUME MountInv, MountInv', NEW n \in Names, NEW d \in Contents, InjectFile(n, d)
    PROVE  [Store!Next]_([o \in OwnNames |-> Extract(o)])
<1> DEFINE st == [o \in OwnNames |-> Extract(o)]
<1>0. /\ entries \in Seq(Entry) /\ Len(entries) \in Nat /\ Len(entries') \in Nat
      /\ Distinct(entries) /\ Distinct(entries')
  BY ExtractIsIn DEF MountInv, IInv, TypeOK
<1>1. CASE entries' = entries
  <2>1. \A o : Extract(o)' = Extract(o)
    BY <1>1, ExtractIsIn
  <2> QED
    BY <2>1
<1>2. CASE entries' # entries
  <2> PICK k : k = Len(entries) + 1
    OBVIOUS
  <2> DEFINE s == SetEntryData(0, d)
  <2>1. /\ LiveNamed(n) = {}
        /\ entries' = Append(entries, [name |-> n, block_number |-> s.first,
                                       size |-> Len(d), deleted |-> FALSE, data |-> d])
    BY <1>2 DEF InjectFile
  <2> HIDE DEF s
  <2>2. /\ k \in LiveIn(entries') /\ entries'[k].name = n /\ entries'[k].data = d
        /\ \A i \in LiveIn(entries) : i \in LiveIn(entries') /\ entries'[i] = entries[i]
        /\ \A i \in LiveIn(entries') : i = k \/ (i \in LiveIn(entries) /\ entries'[i] = entries[i])
    BY <1>0, <2>1 DEF LiveIn
  <2>3. \A o : o # n => Extract(o)' = Extract(o)
    BY <1>0, <2>2, ExtractIsIn, ExtractSame
  <2>4. Extract(n) = <<"none">> /\ Extract(n)' = <<"some", d>>
    <3>1. Extract(n) = <<"none">>
      BY <2>1 DEF Extract
    <3>2. Extract(n)' = <<"some", d>>
      BY <1>0, <2>2, ExtractIsIn, ExtractFacts
    <3> QED
      BY <3>1, <3>2
  <2>5. IF n \in OwnNames THEN st' = [st EXCEPT ![n] = <<"some", d>>] ELSE st' = st
    BY <2>3, <2>4, StoreChange
  <2>6. n \in OwnNames => st[n] = <<"none">>
    BY <2>4
  <2> HIDE DEF st
  <2>7. n \in OwnNames => Store!Create(n, d)
    BY <2>5, <2>6 DEF Store!Create, Store!None, Store!Some, st
  <2> QED
    BY <2>5, <2>7 DEF Store!Next, st
<1> QED
  BY <1>1, <1>2

LEMMA ReplaceIsReplace ==
    ASSUME MountInv, MountInv', NEW n \in Names, NEW d \in Contents, ReplaceFile(n, d)
    PROVE  [Store!Next]_([o \in OwnNames |-> Extract(o)])
<1> DEFINE st == [o \in OwnNames |-> Extract(o)]
<1>0. /\ entries \in Seq(Entry) /\ Len(entries) \in Nat /\ Len(entries') \in Nat
      /\ Distinct(entries) /\ Distinct(entries') /\ IInv
  BY ExtractIsIn DEF MountInv, IInv, TypeOK
<1>1. CASE entries' = entries
  <2>1. \A o : Extract(o)' = Extract(o)
    BY <1>1, ExtractIsIn
  <2> QED
    BY <2>1
<1>2. CASE entries' # entries
  <2> PICK j : j = First(LiveNamed(n))
    OBVIOUS
  <2> DEFINE s == SetEntryData(entries[j].block_number, d)
  <2>1. /\ LiveNamed(n) # {}
        /\ entries' = Replaced(entries, j, s.first, d)
    BY <1>2 DEF ReplaceFile, Replaced
  <2>2. j \in LiveIn(entries) /\ entries[j].name = n
    BY <1>0, <2>1, FirstExists, ExtractIsIn DEF LiveNamed
  <2>3. j \in 1..Len(entries) /\ entries[j] \in Entry
    BY <1>0, <2>2, EntryTypes DEF LiveIn
  <2> HIDE DEF s
  <2>11. /\ Len(entries') = Len(entries)
        /\ entries'[j].block_number = s.first
        /\ entries'[j].size = Len(d) /\ entries'[j].data = d
        /\ entries'[j].name = entries[j].name /\ entries'[j].deleted = entries[j].deleted
        /\ \A i \in 1..Len(entries) : i # j => entries'[i] = entries[i]
    BY <1>0, <2>1, <2>3, EntryReplaced
  <2>4. /\ Len(entries') = Len(entries)
        /\ entries'[j].name = n /\ entries'[j].data = d
        /\ entries'[j].deleted = entries[j].deleted
        /\ \A i \in 1..Len(entries) : i # j => entries'[i] = entries[i]
    BY <2>2, <2>11
  <2>5. LiveIn(entries') = LiveIn(entries)
    BY <2>4 DEF LiveIn
  <2>6. \A i \in LiveIn(entries) : i # j => entries'[i] = entries[i]
    BY <2>4 DEF LiveIn
  <2>7. \A o : o # n => Extract(o)' = Extract(o)
    <3> SUFFICES ASSUME NEW o, o # n PROVE Extract(o)' = Extract(o)
      OBVIOUS
    <3>1. \A i \in LiveIn(entries) : entries[i].name = o => entries'[i] = entries[i]
      BY <2>2, <2>6
    <3>2. \A i \in LiveIn(entries) : entries'[i].name = o => entries'[i] = entries[i]
      BY <2>4, <2>6
    <3> QED
      BY <1>0, <2>5, <3>1, <3>2, ExtractIsIn, ExtractSame
  <2>8. Extract(n) = <<"some", entries[j].data>> /\ Extract(n)' = <<"some", d>>
    BY <1>0, <2>2, <2>4, <2>5, ExtractIsIn, ExtractFacts
  <2>9. IF n \in OwnNames THEN st' = [st EXCEPT ![n] = <<"some", d>>] ELSE st' = st
    BY <2>7, <2>8, StoreChange
  <2>10. n \in OwnNames => st[n] # <<"none">>
    BY <2>8
  <2> HIDE DEF st
  <2>12. n \in OwnNames => Store!Replace(n, d)
    BY <2>9, <2>10 DEF Store!Replace, Store!None, Store!Some, st
  <2> QED
    BY <2>9, <2>12 DEF Store!Next, st
<1> QED
  BY <1>1, <1>2

LEMMA DeleteIsRemove ==
    ASSUME MountInv, MountInv', NEW n \in Names, DeleteFile(n)
    PROVE  [Store!Next]_([o \in OwnNames |-> Extract(o)])
<1> DEFINE st == [o \in OwnNames |-> Extract(o)]
<1>0. /\ entries \in Seq(Entry) /\ Len(entries) \in Nat /\ Len(entries') \in Nat
      /\ Distinct(entries) /\ Distinct(entries') /\ IInv
  BY ExtractIsIn DEF MountInv, IInv, TypeOK
<1>1. CASE entries' = entries
  <2>1. \A o : Extract(o)' = Extract(o)
    BY <1>1, ExtractIsIn
  <2> QED
    BY <2>1
<1>2. CASE entries' # entries
  <2> PICK j : j = First(LiveNamed(n))
    OBVIOUS
  <2>1. LiveNamed(n) # {}
    BY <1>2 DEF DeleteFile
  <2>2. j \in LiveIn(entries) /\ entries[j].name = n
    BY <1>0, <2>1, FirstExists, ExtractIsIn DEF LiveNamed
  <2>3. /\ Len(entries') = Len(entries) /\ entries'[j].deleted
        /\ \A i \in 1..Len(entries) : i # j => entries'[i] = entries[i]
    BY <1>0, <2>1, DeleteWords
  <2>4. /\ \A i \in LiveIn(entries) : i # j => i \in LiveIn(entries') /\ entries'[i] = entries[i]
        /\ \A i \in LiveIn(entries') : i # j /\ i \in LiveIn(entries) /\ entries'[i] = entries[i]
    BY <2>3 DEF LiveIn
  <2>5. \A o : o # n => Extract(o)' = Extract(o)
    <3> SUFFICES ASSUME NEW o, o # n PROVE Extract(o)' = Extract(o)
      OBVIOUS
    <3>1. \A i \in LiveIn(entries) : entries[i].name = o =>
              i \in LiveIn(entries') /\ entries'[i] = entries[i]
      BY <2>2, <2>4
    <3> QED
      BY <1>0, <2>4, <3>1, ExtractIsIn, ExtractSame
  <2>6. \A i \in LiveIn(entries') : entries'[i].name # n
    BY <1>0, <2>2, <2>4 DEF Distinct
  <2>7. Extract(n) = <<"some", entries[j].data>> /\ Extract(n)' = <<"none">>
    BY <1>0, <2>2, <2>6, ExtractIsIn, ExtractFacts
  <2>8. IF n \in OwnNames THEN st' = [st EXCEPT ![n] = <<"none">>] ELSE st' = st
    BY <2>5, <2>7, StoreChange
  <2>9. n \in OwnNames => st[n] # <<"none">>
    BY <2>7
  <2> HIDE DEF st
  <2>10. n \in OwnNames => Store!Remove(n)
    BY <2>8, <2>9 DEF Store!Remove, Store!None, st
  <2> QED
    BY <2>8, <2>10 DEF Store!Next, st
<1> QED
  BY <1>1, <1>2

\* write_logical changes no file.
LEMMA WriteIsInvisible ==
    ASSUME MountInv, Write, NEW o
    PROVE  Extract(o)' = Extract(o)
<1>0. entries \in Seq(Entry) /\ IInv
  BY DEF MountInv, IInv, TypeOK
<1>1. CASE entries' = entries
  BY <1>1, ExtractIsIn
<1>2. CASE WriteEntry /\ ~entries[writing].deleted
  <2> DEFINE j == writing
             s == SetEntryData(entries[j].block_number, entries[j].data)
  <2>1. j \in 1..Len(entries) /\ entries' = [entries EXCEPT ![j].block_number = s.first]
    BY <1>2 DEF WriteEntry
  <2>2. entries[j] \in Entry
    BY <1>0, <2>1, EntryTypes
  <2> HIDE DEF s, j
  <2>3. Len(entries') = Len(entries) /\ \A i \in 1..Len(entries) :
            /\ entries'[i].name = entries[i].name
            /\ entries'[i].data = entries[i].data
            /\ entries'[i].deleted = entries[i].deleted
    BY <1>0, <2>1, <2>2, EntryPlaced
  <2> QED
    BY <1>0, <2>3, SameFiles
<1> QED
  BY <1>1, <1>2 DEF Write, BeginWrite, WriteEntry, WriteRoot

\* Nor does reading back, under a name that stays its own on the image.
LEMMA LoadIsInvisible ==
    ASSUME MountInv, MountInv', Load, NEW n \in OwnNames
    PROVE  Extract(n)' = Extract(n)
<1>0. /\ entries \in Seq(Entry) /\ Len(entries) \in Nat /\ Len(entries') \in Nat
      /\ Distinct(entries) /\ Distinct(entries') /\ IInv
  BY ExtractIsIn DEF MountInv, IInv, TypeOK
<1>1. /\ \A i \in LiveIn(entries') : \E j \in LiveIn(entries) :
            /\ DiskName[entries[j].name] = entries'[i].name
            /\ entries[j].data = entries'[i].data
      /\ \A j \in LiveIn(entries) : \E i \in LiveIn(entries') :
            DiskName[entries[j].name] = entries'[i].name
  <2>1. Readable(image, block_map, block_number, entries)
    BY DEF MountInv, Load
  <2> QED
    BY <1>0, <2>1, LoadStep, ExtractIsIn
<1>2. DiskName[n] = n /\ \A o \in Names : DiskName[o] = n => o = n
  BY DEF OwnNames
<1>3. \A j \in LiveIn(entries) : entries[j].name \in Names
  <2>1. \A j \in 1..Len(entries) : entries[j] \in Entry
    BY <1>0, EntryTypes
  <2> QED
    BY <2>1 DEF LiveIn, Entry
<1>4. ASSUME NEW j \in LiveIn(entries'), entries'[j].name = n
      PROVE  \E i \in LiveIn(entries) : entries[i].name = n /\ entries[i].data = entries'[j].data
  <2>1. PICK i \in LiveIn(entries) : /\ DiskName[entries[i].name] = n
                                     /\ entries[i].data = entries'[j].data
    BY <1>1, <1>4
  <2> QED
    BY <1>2, <1>3, <2>1
<1>5. ASSUME NEW i \in LiveIn(entries), entries[i].name = n
      PROVE  \E j \in LiveIn(entries') : entries'[j].name = n
  BY <1>1, <1>2, <1>5
<1>6. ExtractIn(entries, n) = ExtractIn(entries', n)
  BY <1>0, <1>4, <1>5, ExtractSame
<1> QED
  BY <1>6, ExtractIsIn

\* The entries a behaviour starts with hold data the callers passed in.
LEMMA StagedContents ==
    ASSUME MountInit, NEW i \in 1..Len(entries)
    PROVE  entries[i].data \in Contents
<1>1. CASE Fresh
  BY <1>1 DEF Fresh
<1>2. CASE Rebuild
  <2>1. PICK list \in Staged :
           entries = [k \in 1..Len(list) |->
                        [name |-> list[k].name, block_number |-> 0,
                         size |-> Len(list[k].data), deleted |-> list[k].deleted,
                         data |-> list[k].data]]
    BY <1>2 DEF Rebuild
  <2> DEFINE F == [name : Names, data : Contents, deleted : BOOLEAN]
  <2>2. list \in Seq(F)
    BY FlashFSAssumption
  <2>3. \A k \in 1..Len(list) : list[k] \in F
    <3> HIDE DEF F
    <3> QED
      BY <2>2
  <2>4. Len(list) \in Nat /\ i \in 1..Len(list) /\ entries[i].data = list[i].data
    BY <2>1, <2>2
  <2> QED
    BY <2>3, <2>4
<1> QED
  BY <1>1, <1>2 DEF MountInit, Init

\* What a caller sees of the names that stay their own is a store of names
\* and contents: injects, replaces and deletes happen at once or not at all, and
\* writing and reading back the image change nothing, for every image size,
\* directory and history (inject_file, replace_file, delete_file,
\* write_logical, FileSystemRoot::read).
THEOREM FileStoreRefined == MountSpec => ImplementsFileStore
<1>1. MountInit /\ MountInv => Store!Init
  <2> SUFFICES ASSUME MountInit, MountInv PROVE Store!Init
    OBVIOUS
  <2>0. entries \in Seq(Entry) /\ Len(entries) \in Nat /\ IInv /\ Distinct(entries)
    BY ExtractIsIn DEF MountInv, IInv, TypeOK
  <2>1. ASSUME NEW o \in OwnNames
        PROVE  Extract(o) \in {<<"none">>} \cup {<<"some", d>> : d \in Contents}
    <3>1. CASE \E i \in LiveIn(entries) : entries[i].name = o
      <4>1. PICK i \in LiveIn(entries) : entries[i].name = o
        BY <3>1
      <4>2. Extract(o) = <<"some", entries[i].data>>
        BY <2>0, <4>1, ExtractIsIn, ExtractFacts
      <4>3. entries[i].data \in Contents
        BY <4>1, StagedContents DEF LiveIn
      <4> QED
        BY <4>2, <4>3
    <3>2. CASE \A i \in LiveIn(entries) : entries[i].name # o
      BY <2>0, <3>2, ExtractIsIn, ExtractFacts
    <3> QED
      BY <3>1, <3>2
  <2> QED
    BY <2>1 DEF Store!Init, Store!TypeOK, Store!None, Store!Some
<1>2. ASSUME MountInv, MountInv', [MountNext]_mountVars
      PROVE  [Store!Next]_([n \in OwnNames |-> Extract(n)])
  <2>1. CASE Edit
    BY <1>2, <2>1, InjectIsCreate, ReplaceIsReplace, DeleteIsRemove DEF Edit
  <2>2. CASE Write
    <3>1. \A o : Extract(o)' = Extract(o)
      BY <1>2, <2>2, WriteIsInvisible
    <3> QED
      BY <3>1
  <2>3. CASE Load
    <3>1. \A o \in OwnNames : Extract(o)' = Extract(o)
      BY <1>2, <2>3, LoadIsInvisible
    <3>2. OwnNames' = OwnNames
      BY DEF OwnNames
    <3> QED
      BY <3>1, <3>2
  <2>4. CASE UNCHANGED mountVars
    <3>1. \A o : Extract(o)' = Extract(o)
      BY <2>4, ExtractIsIn DEF mountVars, vars
    <3> QED
      BY <3>1
  <2> QED
    BY <1>2, <2>1, <2>2, <2>3, <2>4 DEF MountNext, Next
<1>3. MountSpec => Store!Init
  BY <1>1, MountInitInv DEF MountSpec
<1>4. MountInv /\ MountInv' /\ [MountNext]_mountVars =>
         [Store!Next]_([n \in OwnNames |-> Extract(n)])
  BY <1>2
<1> QED
  BY <1>3, <1>4, MountInvariance, PTL DEF MountSpec, ImplementsFileStore, Store!Spec
=============================================================================
