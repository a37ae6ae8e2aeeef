--------------------------- MODULE BadBlocksProofs ---------------------------
(***************************************************************************)
(* What parsing a dump with bad blocks guarantees for every size of image  *)
(* and reserve, every set of roots and files, and every order of failures. *)
(*                                                                         *)
(* First the numbers in the spare areas: which block number is read back   *)
(* from which format.  Then what the console leaves behind, and last what  *)
(* healing and the scan make of it.                                        *)
(***************************************************************************)
EXTENDS BadBlocks, FiniteSetTheorems, TLAPS

Reserve == ReserveStart .. (N - 1)

-----------------------------------------------------------------------------
(* Numbers. *)

LEMMA Constants ==
    /\ N \in Nat /\ ReserveStart \in Nat /\ ReserveStart > 0 /\ ReserveStart <= N
    /\ Byte \in Nat /\ Byte > 1 /\ Nibble \in Nat /\ Nibble > 1 /\ Nibble <= Byte
    /\ Byte * Nibble \in Nat /\ Byte * Byte \in Nat
    /\ N <= Byte * Nibble /\ Byte * Nibble <= Byte * Byte
    /\ Logical \subseteq Blocks /\ Reserve \subseteq Blocks /\ Logical \cap Reserve = {}
    /\ \A b \in Blocks : b \in Nat /\ b < N /\ (b \in Logical \/ b \in Reserve) /\ b # NoBlock
    /\ 0 \in Logical
<1>1. N \in Nat /\ ReserveStart \in 1 .. N /\ Byte \in Nat \ {0, 1} /\ Nibble \in 2 .. Byte
      /\ N <= Byte * Nibble
  BY BadBlocksAssumption
<1>2. Byte * Nibble \in Nat /\ Byte * Byte \in Nat /\ Byte * Nibble <= Byte * Byte
  BY <1>1
<1> QED
  BY <1>1, <1>2 DEF Logical, Blocks, Reserve, NoBlock

LEMMA Digits ==
    ASSUME NEW x \in Nat
    PROVE  /\ (x % Byte) + Byte * (x \div Byte) = x
           /\ x % Byte \in 0 .. Byte - 1 /\ x \div Byte \in Nat
<1>1. Byte \in Nat \ {0}
  BY BadBlocksAssumption
<1> QED
  BY <1>1

\* A block number has its second digit in the nibble.
LEMMA TwoDigits ==
    ASSUME NEW x \in 0 .. Byte * Nibble - 1
    PROVE  (x \div Byte) % Nibble = x \div Byte
<1>1. Byte \in Nat \ {0} /\ Nibble \in Nat \ {0}
  BY BadBlocksAssumption
<1>2. x \in Nat /\ x < Byte * Nibble
  BY <1>1
<1> DEFINE q == x \div Byte
<1>3. q \in Nat /\ Byte * q <= x
  BY <1>1, <1>2, Digits
<1> HIDE DEF q
<1>4. q < Nibble
  <2> SUFFICES ASSUME q >= Nibble PROVE FALSE
    BY <1>1, <1>3
  <2>1. Byte * q >= Byte * Nibble
    BY <1>1, <1>3
  <2> QED
    BY <1>1, <1>2, <1>3, <2>1
<1> QED
  BY <1>1, <1>3, <1>4 DEF q

LEMMA AllBitsSet ==
    /\ (Byte * Byte - 1) % Byte = Byte - 1
    /\ (Byte * Byte - 1) \div Byte = Byte - 1
<1>1. Byte \in Nat \ {0}
  BY BadBlocksAssumption
<1>2. Byte * Byte - 1 = Byte * (Byte - 1) + (Byte - 1)
  BY <1>1
<1> QED
  BY <1>1, <1>2

\* What is read from a spare area of the small-block format: the numbers that were
\* written, and from an erased one a number that no logical block has.
LEMMA ReadBack ==
    ASSUME format = "MetaType1", NEW b \in PhysicalBlock
    PROVE  /\ b.id \in Logical => ParsedId(b, "Sb") = b.id
           /\ ParsedSequence(b, "Sb") = b.sequence
<1>1. b.id \in Nat /\ b.sequence \in Nat
  BY Constants DEF PhysicalBlock
<1>2. /\ Bytes(b)[1] = b.sequence % Byte /\ Bytes(b)[2] = b.id % Byte
      /\ Bytes(b)[3] = b.id \div Byte /\ Bytes(b)[4] = b.sequence \div Byte
  BY DEF Bytes
<1>3. ParsedSequence(b, "Sb") = (b.sequence % Byte) + Byte * (b.sequence \div Byte)
  BY <1>2 DEF ParsedSequence
<1>4. ParsedId(b, "Sb") = (b.id % Byte) + Byte * ((b.id \div Byte) % Nibble)
  BY <1>2 DEF ParsedId
<1>5. ASSUME b.id \in Logical
      PROVE  ParsedId(b, "Sb") = b.id
  <2>1. b.id \in 0 .. Byte * Nibble - 1
    BY <1>5, Constants DEF Logical
  <2>2. (b.id \div Byte) % Nibble = b.id \div Byte
    BY <2>1, TwoDigits
  <2> QED
    BY <1>1, <1>4, <2>2, Digits
<1> QED
  BY <1>1, <1>3, <1>5, Digits

LEMMA Remainder ==
    ASSUME NEW a \in Nat, NEW b \in Nat \ {0}, NEW r \in 0 .. b - 1
    PROVE  (b * a + r) % b = r
OBVIOUS

LEMMA ErasedIsNone ==
    ASSUME format = "MetaType1", NEW r \in Reserve
    PROVE  ParsedId(ErasedBlock, "Sb") \notin Logical
<1>1. Bytes(ErasedBlock)[2] = Byte - 1 /\ Bytes(ErasedBlock)[3] = Byte - 1
  BY AllBitsSet DEF Bytes, ErasedBlock, Block
<1>2. (Byte - 1) % Nibble = Nibble - 1
  <2>1. Byte \in Nat /\ Nibble \in Nat \ {0} /\ Byte % Nibble = 0 /\ Nibble <= Byte
    BY BadBlocksAssumption
  <2> DEFINE k == Byte \div Nibble
  <2>2. Byte = Nibble * k /\ k \in Nat
    BY <2>1
  <2> HIDE DEF k
  <2>3. k # 0
    BY <2>1, <2>2
  <2> PICK a \in Nat : a = k - 1
    BY <2>2, <2>3
  <2> PICK q \in 0 .. Nibble - 1 : q = Nibble - 1
    BY <2>1
  <2>4. Byte - 1 = Nibble * a + q
    <3>1. Nibble * k = Nibble * a + Nibble
      BY <2>1, <2>2
    <3> QED
      BY <2>1, <2>2, <3>1
  <2>5. (Nibble * a + q) % Nibble = q
    BY <2>1, Remainder
  <2> QED
    BY <2>4, <2>5
<1>3. ParsedId(ErasedBlock, "Sb") = Byte - 1 + Byte * (Nibble - 1)
  BY <1>1, <1>2 DEF ParsedId
<1>4. Byte - 1 + Byte * (Nibble - 1) = Byte * Nibble - 1
  BY Constants
<1> QED
  BY <1>3, <1>4, Constants DEF Logical, Reserve

-----------------------------------------------------------------------------
(* Greatest and least elements, which Max and Min choose. *)

\* As many elements of a finite set are at most x as x's place says; places differ,
\* so that all are taken, the last one by the greatest.
LEMMA MaxExists ==
    ASSUME NEW S \in SUBSET Int, IsFiniteSet(S), S # {}
    PROVE  Max(S) \in S /\ \A y \in S : y <= Max(S)
<1> DEFINE below(x) == {y \in S : y <= x}
           place == [x \in S |-> Cardinality(below(x))]
           n == Cardinality(S)
<1>0. \A x \in S : x \in Int
  OBVIOUS
<1>1. n \in Nat /\ n # 0 /\ n \in 1 .. n
  <2>1. n \in Nat /\ n # 0
    BY FS_CardinalityType, FS_EmptySet
  <2> HIDE DEF n
  <2> QED
    BY <2>1
<1>2. \A x \in S : /\ IsFiniteSet(below(x)) /\ Cardinality(below(x)) \in Nat
                   /\ Cardinality(below(x)) <= n /\ (Cardinality(below(x)) = n => below(x) = S)
  <2> SUFFICES ASSUME NEW x \in S
               PROVE  /\ IsFiniteSet(below(x)) /\ Cardinality(below(x)) \in Nat
                      /\ Cardinality(below(x)) <= n /\ (Cardinality(below(x)) = n => below(x) = S)
    OBVIOUS
  <2>1. below(x) \in SUBSET S
    OBVIOUS
  <2> QED
    BY <2>1, FS_Subset, FS_CardinalityType
<1>3. \A x \in S : Cardinality(below(x)) # 0
  <2> SUFFICES ASSUME NEW x \in S PROVE Cardinality(below(x)) # 0
    OBVIOUS
  <2>1. x \in below(x)
    OBVIOUS
  <2> QED
    BY <1>2, <2>1, FS_EmptySet
<1>4. ASSUME NEW x \in S, NEW y \in S, x < y
      PROVE  Cardinality(below(x)) < Cardinality(below(y))
  <2>0. x \in Int /\ y \in Int /\ x < y
    BY <1>0, <1>4
  <2>01. ASSUME NEW z \in S, z <= x PROVE z <= y
    BY <1>0, <2>0, <2>01
  <2>02. y <= y /\ ~(y <= x)
    BY <2>0
  <2>1. below(x) \in SUBSET below(y) /\ y \in below(y) /\ y \notin below(x)
    <3>1. below(x) \in SUBSET below(y)
      BY <2>01
    <3>2. y \in below(y)
      BY <2>02
    <3>3. y \notin below(x)
      BY <2>02
    <3> QED
      BY <3>1, <3>2, <3>3
  <2>2. IsFiniteSet(below(y)) /\ below(x) # below(y)
    BY <1>2, <2>1
  <2>3. Cardinality(below(x)) <= Cardinality(below(y)) /\ Cardinality(below(x)) # Cardinality(below(y))
    BY <2>1, <2>2, FS_Subset
  <2> QED
    BY <1>2, <2>3
<1>5. place \in Injection(S, 1 .. n)
  <2> DEFINE count(x) == Cardinality(below(x))
  <2>0. \A x \in S : count(x) \in Nat /\ count(x) <= n /\ count(x) # 0
    BY <1>2, <1>3
  <2>01. place = [x \in S |-> count(x)] /\ \A x, y \in S : x < y => count(x) < count(y)
    BY <1>4
  <2> HIDE DEF count, n, place
  <2>1. place \in [S -> 1 .. n]
    BY <1>1, <2>0, <2>01
  <2>2. \A x, y \in S : place[x] = place[y] => x = y
    <3> SUFFICES ASSUME NEW x \in S, NEW y \in S, place[x] = place[y], x # y PROVE FALSE
      OBVIOUS
    <3>1. x < y \/ y < x
      BY <1>0
    <3> QED
      BY <2>0, <2>01, <3>1
  <2> QED
    BY <2>1, <2>2 DEF Injection, IsInjective
<1>6. IsFiniteSet(1 .. n) /\ Cardinality(1 .. n) = n
  BY <1>1, FS_Interval
<1>7. place \in Surjection(S, 1 .. n)
  BY <1>5, <1>6, FS_Injection
<1>8. PICK x \in S : place[x] = n
  <2> HIDE DEF place, n
  <2> QED
    BY <1>1, <1>7 DEF Surjection
<1>9. \A y \in S : y <= x
  BY <1>2, <1>8
<1> HIDE DEF place
<1>10. \E z \in S : \A y \in S : z >= y
  BY <1>9
<1> QED
  BY <1>10 DEF Max

LEMMA MinExists ==
    ASSUME NEW S \in SUBSET Int, IsFiniteSet(S), S # {}
    PROVE  Min(S) \in S
<1> DEFINE T == {-x : x \in S}
           neg == [x \in S |-> -x]
<1>1. neg \in Surjection(S, T)
  BY DEF Surjection
<1>2. IsFiniteSet(T)
  BY <1>1, FS_Surjection
<1>3. T \in SUBSET Int /\ T # {}
  OBVIOUS
<1>4. Max(T) \in T /\ \A y \in T : y <= Max(T)
  BY <1>2, <1>3, MaxExists
<1>5. PICK x \in S : Max(T) = -x
  BY <1>4
<1>6. \A y \in S : x <= y
  <2> SUFFICES ASSUME NEW y \in S PROVE x <= y
    OBVIOUS
  <2>1. -y \in T /\ x \in Int /\ y \in Int
    OBVIOUS
  <2>2. -y <= Max(T)
    BY <1>4, <2>1
  <2> QED
    BY <1>5, <2>1, <2>2
<1>7. \E z \in S : \A y \in S : z =< y
  BY <1>6
<1> QED
  BY <1>7 DEF Min

LEMMA BlocksFinite ==
    ASSUME NEW S \in SUBSET Blocks
    PROVE  IsFiniteSet(S) /\ S \in SUBSET Int
<1>1. N - 1 \in Int /\ 0 \in Int
  BY Constants
<1>2. IsFiniteSet(Blocks)
  BY <1>1, FS_Interval DEF Blocks
<1>3. IsFiniteSet(S)
  BY <1>2, FS_Subset
<1> QED
  BY <1>3, Constants

-----------------------------------------------------------------------------
(* What the console leaves behind. *)

\* The block the newest of s roots is on.
Latest(s) == RootBlocks[((s - 1) % Len(RootBlocks)) + 1]

ConsoleTypes ==
    /\ format \in Formats
    /\ dump \in [Blocks -> PhysicalBlock]
    /\ where \in [Logical -> Blocks]
    /\ stored \in [Logical -> PhysicalBlock]
    /\ sequence \in 1..MaxSequence
    /\ lost \subseteq Logical

\* What was stored last, and the roots on the dump.
StoredOK ==
    /\ \A l \in Logical : stored[l].id = l /\ stored[l].good
    /\ stored[0].sequence = 0
    /\ stored[Latest(sequence)].root /\ stored[Latest(sequence)].sequence = sequence
    /\ \A b \in Blocks : dump[b].root => dump[b].sequence <= sequence

\* A logical block is where it is kept, unless it was lost; it is kept in its own
\* place, or in the reserve when that place has failed; a good block of the
\* reserve is kept for somebody, or erased.
PlacesOK ==
    /\ \A l \in Logical : IF l \in lost THEN ~dump[where[l]].good ELSE dump[where[l]] = stored[l]
    /\ \A l \in Logical : where[l] = l \/ (where[l] \in Reserve /\ ~dump[l].good)
    /\ \A l, m \in Logical : where[l] = where[m] => l = m
    /\ \A r \in Reserve : dump[r].good => dump[r] = ErasedBlock \/ \E l \in Logical : where[l] = r

ConsoleOK == ConsoleTypes /\ StoredOK /\ PlacesOK

LEMMA RootPlaces ==
    ASSUME NEW s \in Nat, s # 0
    PROVE  Latest(s) \in Logical /\ Latest(s) # 0 /\ Latest(s) \notin FileBlocks
<1>1. RootBlocks \in Seq(Logical \ {0}) /\ RootBlocks # <<>>
      /\ \A i \in DOMAIN RootBlocks : RootBlocks[i] \notin FileBlocks
  BY BadBlocksAssumption
<1>2. Len(RootBlocks) \in Nat \ {0} /\ DOMAIN RootBlocks = 1 .. Len(RootBlocks)
  BY <1>1
<1>3. (s - 1) % Len(RootBlocks) \in 0 .. Len(RootBlocks) - 1
  BY <1>2
<1>4. ((s - 1) % Len(RootBlocks)) + 1 \in DOMAIN RootBlocks
  BY <1>2, <1>3
<1> QED
  BY <1>1, <1>4 DEF Latest

LEMMA BlockTypes ==
    /\ \A l \in Logical, s \in Nat, isRoot \in BOOLEAN, d \in Data :
          Block(l, s, isRoot, d) \in PhysicalBlock
    /\ ErasedBlock \in PhysicalBlock /\ DeadBlock \in PhysicalBlock
    /\ ErasedBlock.good /\ ~ErasedBlock.root
    /\ ~DeadBlock.good /\ ~DeadBlock.root
    /\ \A l \in Logical, r \in Reserve : l # ErasedBlock.id
<1>1. /\ \A l \in Logical : l \in 0 .. (Byte * Byte - 1)
      /\ Byte * Byte - 1 \in 0 .. (Byte * Byte - 1) /\ 0 \in 0 .. (Byte * Byte - 1)
      /\ Byte * Byte - 1 \in Nat
  BY Constants DEF Logical
<1>2. \A l \in Logical, s \in Nat, isRoot \in BOOLEAN, d \in Data :
          Block(l, s, isRoot, d) \in PhysicalBlock
  BY <1>1 DEF Block, PhysicalBlock
<1>3. ErasedBlock \in PhysicalBlock /\ ErasedBlock.good /\ ~ErasedBlock.root
      /\ ErasedBlock.id = Byte * Byte - 1
  BY <1>1 DEF Block, ErasedBlock, PhysicalBlock
<1>4. DeadBlock \in PhysicalBlock /\ ~DeadBlock.good /\ ~DeadBlock.root
  BY <1>1 DEF Block, DeadBlock, PhysicalBlock
<1>5. ASSUME NEW l \in Logical, NEW r \in Reserve PROVE l # Byte * Byte - 1
  BY Constants DEF Logical, Reserve
<1> QED
  BY <1>2, <1>3, <1>4, <1>5

LEMMA StoresKeeps ==
    ASSUME ConsoleOK, NEW l \in Logical, NEW b \in PhysicalBlock, Stores(l, b),
           b.id = l, b.good
    PROVE  /\ dump' = [dump EXCEPT ![where[l]] = b] /\ stored' = [stored EXCEPT ![l] = b]
           /\ UNCHANGED <<format, where, lost>>
           /\ dump' \in [Blocks -> PhysicalBlock] /\ stored' \in [Logical -> PhysicalBlock]
           /\ \A m \in Logical : stored'[m].id = m /\ stored'[m].good
           /\ PlacesOK'
<1>1. /\ dump' = [dump EXCEPT ![where[l]] = b] /\ stored' = [stored EXCEPT ![l] = b]
      /\ UNCHANGED <<format, where, lost>> /\ dump[where[l]].good
  BY DEF Stores
<1>2. /\ dump \in [Blocks -> PhysicalBlock] /\ stored \in [Logical -> PhysicalBlock]
      /\ where \in [Logical -> Blocks]
  BY DEF ConsoleOK, ConsoleTypes
<1>3. dump' \in [Blocks -> PhysicalBlock] /\ stored' \in [Logical -> PhysicalBlock]
  BY <1>1, <1>2
<1>4. \A m \in Logical : stored'[m].id = m /\ stored'[m].good
  BY <1>1, <1>2 DEF ConsoleOK, StoredOK
<1>5. l \notin lost
  BY <1>1 DEF ConsoleOK, PlacesOK
<1>6. \A m \in Logical : m # l => where[m] # where[l]
  BY DEF ConsoleOK, PlacesOK
<1>7. /\ \A x \in Blocks : dump'[x].good <=> dump[x].good
      /\ \A x \in Blocks : x # where[l] => dump'[x] = dump[x]
      /\ dump'[where[l]] = b /\ stored'[l] = b /\ \A m \in Logical : m # l => stored'[m] = stored[m]
  BY <1>1, <1>2
<1>8. \A m \in Logical : IF m \in lost THEN ~dump'[where[m]].good ELSE dump'[where[m]] = stored'[m]
  BY <1>2, <1>5, <1>6, <1>7 DEF ConsoleOK, PlacesOK
<1>9. \A m \in Logical : where[m] = m \/ (where[m] \in Reserve /\ ~dump'[m].good)
  BY <1>7, Constants DEF ConsoleOK, PlacesOK
<1>10. \A r \in Reserve : dump'[r].good => dump'[r] = ErasedBlock \/ \E m \in Logical : where[m] = r
  BY <1>7, Constants DEF ConsoleOK, PlacesOK
<1>11. PlacesOK'
  BY <1>1, <1>8, <1>9, <1>10 DEF ConsoleOK, PlacesOK
<1> QED
  BY <1>1, <1>3, <1>4, <1>11

LEMMA StoreFileOK ==
    ASSUME ConsoleOK, NEW l \in FileBlocks, NEW d \in Data, StoreFile(l, d)
    PROVE  ConsoleOK'
<1> DEFINE b == Block(l, 0, FALSE, d)
<1>1. l \in Logical /\ Stores(l, b) /\ sequence' = sequence
  BY BadBlocksAssumption DEF StoreFile
<1>2. b \in PhysicalBlock /\ b.id = l /\ b.good /\ ~b.root /\ b.sequence = 0
  BY <1>1, BlockTypes DEF Block
<1> HIDE DEF b
<1>3. /\ dump' = [dump EXCEPT ![where[l]] = b] /\ stored' = [stored EXCEPT ![l] = b]
      /\ UNCHANGED <<format, where, lost>>
      /\ dump' \in [Blocks -> PhysicalBlock] /\ stored' \in [Logical -> PhysicalBlock]
      /\ \A m \in Logical : stored'[m].id = m /\ stored'[m].good
      /\ PlacesOK'
  BY <1>1, <1>2, StoresKeeps
<1>4. ConsoleTypes'
  BY <1>1, <1>3 DEF ConsoleOK, ConsoleTypes
<1>5. sequence \in Nat /\ sequence # 0
  BY BadBlocksAssumption DEF ConsoleOK, ConsoleTypes
<1>6. Latest(sequence) \in Logical /\ Latest(sequence) # l /\ 0 \in Logical
  BY <1>5, RootPlaces, Constants
<1>7. stored'[0].sequence = 0
  BY <1>2, <1>3, <1>6 DEF ConsoleOK, ConsoleTypes, StoredOK
<1>8. stored'[Latest(sequence)] = stored[Latest(sequence)]
  BY <1>3, <1>6 DEF ConsoleOK, ConsoleTypes
<1>9. \A x \in Blocks : dump'[x].root => dump'[x].sequence <= sequence
  BY <1>2, <1>3 DEF ConsoleOK, ConsoleTypes, StoredOK
<1>10. StoredOK'
  BY <1>1, <1>3, <1>7, <1>8, <1>9 DEF ConsoleOK, StoredOK
<1> QED
  BY <1>3, <1>4, <1>10 DEF ConsoleOK

LEMMA StoreRootOK == ASSUME ConsoleOK, StoreRoot PROVE ConsoleOK'
<1> DEFINE l == RootBlocks[(sequence % Len(RootBlocks)) + 1]
           b == Block(l, sequence + 1, TRUE, Fresh)
<1>1. sequence \in Nat /\ sequence # 0 /\ sequence' = sequence + 1 /\ sequence' \in 1 .. MaxSequence
  BY BadBlocksAssumption DEF ConsoleOK, ConsoleTypes, StoreRoot
<1>2. l = Latest(sequence') /\ Stores(l, b)
  <2>1. sequence' - 1 = sequence
    BY <1>1
  <2> QED
    BY <2>1 DEF Latest, StoreRoot
<1>3. l \in Logical /\ l # 0 /\ 0 \in Logical
  BY <1>1, <1>2, RootPlaces, Constants
<1>4. b \in PhysicalBlock /\ b.id = l /\ b.good /\ b.root /\ b.sequence = sequence + 1
  <2>1. sequence + 1 \in Nat /\ Fresh \in Data
    BY <1>1, BadBlocksAssumption
  <2>2. b \in PhysicalBlock
    BY <1>3, <2>1, BlockTypes
  <2> QED
    BY <2>2 DEF Block
<1> HIDE DEF b, l
<1>5. /\ dump' = [dump EXCEPT ![where[l]] = b] /\ stored' = [stored EXCEPT ![l] = b]
      /\ UNCHANGED <<format, where, lost>>
      /\ dump' \in [Blocks -> PhysicalBlock] /\ stored' \in [Logical -> PhysicalBlock]
      /\ \A m \in Logical : stored'[m].id = m /\ stored'[m].good
      /\ PlacesOK'
  BY <1>2, <1>3, <1>4, StoresKeeps
<1>6. ConsoleTypes'
  BY <1>1, <1>5 DEF ConsoleOK, ConsoleTypes
<1>7. stored'[0].sequence = 0 /\ stored'[l] = b
  BY <1>3, <1>5 DEF ConsoleOK, ConsoleTypes, StoredOK
<1>8. ASSUME NEW x \in Blocks, dump'[x].root
      PROVE  dump'[x].sequence <= sequence + 1
  <2>1. CASE x = where[l]
    BY <1>1, <1>4, <1>5, <2>1 DEF ConsoleOK, ConsoleTypes
  <2>2. CASE x # where[l]
    <3>1. dump'[x] = dump[x] /\ dump[x] \in PhysicalBlock
      BY <1>5, <2>2 DEF ConsoleOK, ConsoleTypes
    <3>2. dump[x].sequence <= sequence /\ dump[x].sequence \in Nat
      BY <1>8, <3>1 DEF ConsoleOK, StoredOK, PhysicalBlock
    <3> QED
      BY <1>1, <3>1, <3>2
  <2> QED
    BY <2>1, <2>2
<1>9. StoredOK'
  BY <1>1, <1>2, <1>4, <1>5, <1>7, <1>8 DEF StoredOK
<1> QED
  BY <1>5, <1>6, <1>9 DEF ConsoleOK

LEMMA FailBlockOK ==
    ASSUME ConsoleOK, NEW l \in Logical, NEW dead \in BOOLEAN, NEW copied \in BOOLEAN,
           FailBlock(l, dead, copied)
    PROVE  ConsoleOK'
<1> DEFINE p == where[l]
           failed == IF dead THEN DeadBlock ELSE [dump[p] EXCEPT !.good = FALSE]
<1>1. /\ dump[p].good /\ UNCHANGED <<format, stored, sequence>>
      /\ \/ /\ Unused # {} /\ dump' = [dump EXCEPT ![p] = failed, ![Max(Unused)] = dump[p]]
            /\ where' = [where EXCEPT ![l] = Max(Unused)] /\ lost' = lost
         \/ /\ dump' = [dump EXCEPT ![p] = failed] /\ lost' = lost \cup {l} /\ where' = where
  BY DEF FailBlock
<1>2. /\ dump \in [Blocks -> PhysicalBlock] /\ stored \in [Logical -> PhysicalBlock]
      /\ where \in [Logical -> Blocks] /\ lost \subseteq Logical /\ p \in Blocks
  BY DEF ConsoleOK, ConsoleTypes
<1>3. l \notin lost /\ dump[p] = stored[l] /\ dump[p].id = l
  BY <1>1 DEF ConsoleOK, StoredOK, PlacesOK
<1>4. /\ failed \in PhysicalBlock /\ ~failed.good
      /\ failed.root => dump[p].root /\ failed.sequence = dump[p].sequence
  <2>1. CASE dead
    BY <2>1, BlockTypes
  <2>2. CASE ~dead
    <3>1. dump[p] \in PhysicalBlock /\ failed = [dump[p] EXCEPT !.good = FALSE]
      BY <1>2, <2>2
    <3> QED
      BY <3>1 DEF PhysicalBlock
  <2> QED
    BY <2>1, <2>2
<1>5. /\ \A m, k \in Logical : where[m] = where[k] => m = k
      /\ \A m \in Logical : IF m \in lost THEN ~dump[where[m]].good ELSE dump[where[m]] = stored[m]
      /\ \A m \in Logical : where[m] = m \/ (where[m] \in Reserve /\ ~dump[m].good)
      /\ \A r \in Reserve : dump[r].good => dump[r] = ErasedBlock \/ \E m \in Logical : where[m] = r
      /\ \A m \in Logical : stored[m].id = m /\ stored[m].good
      /\ \A b \in Blocks : dump[b].root => dump[b].sequence <= sequence
  BY DEF ConsoleOK, PlacesOK, StoredOK
<1> HIDE DEF failed
<1>6. p \in Logical => p = l
  BY <1>2, <1>5, Constants
<1>7. CASE /\ Unused # {} /\ dump' = [dump EXCEPT ![p] = failed, ![Max(Unused)] = dump[p]]
           /\ where' = [where EXCEPT ![l] = Max(Unused)] /\ lost' = lost
  <2> DEFINE r == Max(Unused)
  <2>1. r \in Reserve /\ dump[r] = ErasedBlock /\ r \in Blocks
    <3>1. Unused \in SUBSET Blocks
      BY Constants DEF Unused, Reserve
    <3>2. r \in Unused
      BY <1>7, <3>1, BlocksFinite, MaxExists
    <3> QED
      BY <3>2, Constants DEF Unused, Reserve
  <2>2. dump' = [dump EXCEPT ![p] = failed, ![r] = dump[p]] /\ where' = [where EXCEPT ![l] = r]
    BY <1>7
  <2> HIDE DEF r
  <2>3. \A m \in Logical : where[m] # r
    <3> SUFFICES ASSUME NEW m \in Logical, where[m] = r PROVE FALSE
      OBVIOUS
    <3>1. dump[where[m]].good
      BY <2>1, BlockTypes
    <3>2. stored[m] = ErasedBlock /\ stored[m].id = m
      BY <1>5, <2>1, <3>1
    <3> QED
      BY <2>1, <3>2, BlockTypes
  <2>4. p # r
    BY <2>3
  <2>5. /\ dump'[p] = failed /\ dump'[r] = dump[p]
        /\ \A b \in Blocks : b # p /\ b # r => dump'[b] = dump[b]
        /\ dump' \in [Blocks -> PhysicalBlock]
    BY <1>2, <1>4, <2>1, <2>2, <2>4
  <2>6. /\ where'[l] = r /\ \A m \in Logical : m # l => where'[m] = where[m]
        /\ where' \in [Logical -> Blocks]
    BY <1>2, <2>1, <2>2
  <2>7. ConsoleTypes'
    BY <1>1, <1>2, <1>7, <2>5, <2>6 DEF ConsoleOK, ConsoleTypes
  <2>8. \A b \in Blocks : dump'[b].root => dump'[b].sequence <= sequence
    <3> SUFFICES ASSUME NEW b \in Blocks, dump'[b].root PROVE dump'[b].sequence <= sequence
      OBVIOUS
    <3>1. CASE b = p
      BY <1>2, <1>4, <1>5, <2>5, <3>1
    <3>2. CASE b = r
      BY <1>2, <1>5, <2>5, <3>2
    <3>3. CASE b # p /\ b # r
      BY <1>5, <2>5, <3>3
    <3> QED
      BY <3>1, <3>2, <3>3
  <2>9. StoredOK'
    BY <1>1, <2>8 DEF ConsoleOK, StoredOK
  <2>10. \A m \in Logical : IF m \in lost THEN ~dump'[where'[m]].good ELSE dump'[where'[m]] = stored[m]
    <3> SUFFICES ASSUME NEW m \in Logical
                 PROVE  IF m \in lost THEN ~dump'[where'[m]].good ELSE dump'[where'[m]] = stored[m]
      OBVIOUS
    <3>1. CASE m = l
      BY <1>3, <2>5, <2>6, <3>1
    <3>2. CASE m # l
      <4>1. where'[m] = where[m] /\ where[m] # p /\ where[m] # r /\ where[m] \in Blocks
        BY <1>2, <1>5, <2>3, <2>6, <3>2
      <4>2. dump'[where'[m]] = dump[where[m]]
        BY <2>5, <4>1
      <4> QED
        BY <1>5, <4>2
    <3> QED
      BY <3>1, <3>2
  <2>11. \A m \in Logical : where'[m] = m \/ (where'[m] \in Reserve /\ ~dump'[m].good)
    <3> SUFFICES ASSUME NEW m \in Logical
                 PROVE  where'[m] = m \/ (where'[m] \in Reserve /\ ~dump'[m].good)
      OBVIOUS
    <3>1. m \in Blocks /\ m # r
      BY <2>1, Constants
    <3>2. ~dump[m].good => ~dump'[m].good
      BY <1>4, <2>5, <3>1
    <3>3. CASE m = l
      <4>1. where'[m] = r
        BY <2>6, <3>3
      <4>2. ~dump'[m].good
        BY <1>4, <1>5, <2>5, <3>2, <3>3
      <4> QED
        BY <2>1, <4>1, <4>2
    <3>4. CASE m # l
      BY <1>5, <2>6, <3>2, <3>4
    <3> QED
      BY <3>3, <3>4
  <2>12. \A m, k \in Logical : where'[m] = where'[k] => m = k
    BY <1>5, <2>3, <2>6
  <2>13. \A x \in Reserve : dump'[x].good => dump'[x] = ErasedBlock \/ \E m \in Logical : where'[m] = x
    <3> SUFFICES ASSUME NEW x \in Reserve, dump'[x].good, dump'[x] # ErasedBlock
                 PROVE  \E m \in Logical : where'[m] = x
      OBVIOUS
    <3>1. CASE x = r
      BY <2>6, <3>1
    <3>2. CASE x # r
      <4>1. x # p /\ x \in Blocks
        BY <1>4, <2>5, Constants
      <4>2. dump[x].good /\ dump[x] # ErasedBlock
        BY <2>5, <3>2, <4>1
      <4>3. PICK m \in Logical : where[m] = x
        BY <1>5, <4>2
      <4>4. m # l
        BY <4>1, <4>3
      <4> QED
        BY <2>6, <4>3, <4>4
    <3> QED
      BY <3>1, <3>2
  <2>14. PlacesOK'
    BY <1>1, <1>7, <2>10, <2>11, <2>12, <2>13 DEF PlacesOK
  <2> QED
    BY <2>7, <2>9, <2>14 DEF ConsoleOK
<1>8. CASE dump' = [dump EXCEPT ![p] = failed] /\ lost' = lost \cup {l} /\ where' = where
  <2>1. /\ dump'[p] = failed /\ \A b \in Blocks : b # p => dump'[b] = dump[b]
        /\ dump' \in [Blocks -> PhysicalBlock]
    BY <1>2, <1>4, <1>8
  <2>2. ConsoleTypes'
    BY <1>1, <1>2, <1>8, <2>1 DEF ConsoleOK, ConsoleTypes
  <2>3. \A b \in Blocks : dump'[b].root => dump'[b].sequence <= sequence
    BY <1>2, <1>4, <1>5, <2>1
  <2>4. StoredOK'
    BY <1>1, <2>3 DEF ConsoleOK, StoredOK
  <2>5. \A m \in Logical : IF m \in lost' THEN ~dump'[where[m]].good ELSE dump'[where[m]] = stored[m]
    BY <1>2, <1>4, <1>5, <1>8, <2>1
  <2>6. \A m \in Logical : where[m] = m \/ (where[m] \in Reserve /\ ~dump'[m].good)
    BY <1>4, <1>5, <2>1, Constants
  <2>7. \A x \in Reserve : dump'[x].good => dump'[x] = ErasedBlock \/ \E m \in Logical : where[m] = x
    BY <1>4, <1>5, <2>1, Constants
  <2>8. PlacesOK'
    BY <1>1, <1>5, <1>8, <2>5, <2>6, <2>7 DEF PlacesOK
  <2> QED
    BY <2>2, <2>4, <2>8 DEF ConsoleOK
<1> QED
  BY <1>1, <1>7, <1>8

LEMMA ConsoleInit == Init => ConsoleOK
<1> SUFFICES ASSUME Init PROVE ConsoleOK
  OBVIOUS
<1>1. /\ format \in Formats
      /\ stored = [l \in Logical |-> IF l = RootBlocks[1] THEN Block(l, 1, TRUE, Fresh)
                                     ELSE Block(l, 0, FALSE, Fresh)]
      /\ dump = [b \in Blocks |-> IF b \in Logical THEN stored[b] ELSE ErasedBlock]
      /\ where = [l \in Logical |-> l] /\ sequence = 1 /\ lost = {}
  BY DEF Init
<1>2. RootBlocks[1] = Latest(1) /\ RootBlocks[1] \in Logical /\ RootBlocks[1] # 0
  <2>1. Len(RootBlocks) \in Nat \ {0}
    BY BadBlocksAssumption
  <2>2. ((1 - 1) % Len(RootBlocks)) + 1 = 1
    BY <2>1
  <2>3. RootBlocks[1] = Latest(1)
    BY <2>2 DEF Latest
  <2> QED
    BY <2>3, RootPlaces
<1>3. \A l \in Logical : stored[l] \in PhysicalBlock
  <2>1. Fresh \in Data /\ 0 \in Nat /\ 1 \in Nat
    BY BadBlocksAssumption
  <2> QED
    BY <1>1, <2>1, BlockTypes
<1>4. dump \in [Blocks -> PhysicalBlock] /\ stored \in [Logical -> PhysicalBlock]
  BY <1>1, <1>3, BlockTypes
<1>5. ConsoleTypes
  <2>1. sequence \in 1..MaxSequence
    BY <1>1, BadBlocksAssumption
  <2>2. where \in [Logical -> Blocks] /\ lost \subseteq Logical
    BY <1>1, Constants
  <2> QED
    BY <1>1, <1>4, <2>1, <2>2 DEF ConsoleTypes
<1>6. \A l \in Logical : /\ stored[l].id = l /\ stored[l].good /\ stored[l].sequence <= 1
                         /\ l # RootBlocks[1] => stored[l].sequence = 0
  BY <1>1 DEF Block
<1>7. stored[RootBlocks[1]].root /\ stored[RootBlocks[1]].sequence = 1
  BY <1>1, <1>2 DEF Block
<1>8. \A b \in Blocks : dump[b].root => dump[b].sequence <= 1
  BY <1>1, <1>6, BlockTypes
<1>9. StoredOK
  BY <1>1, <1>2, <1>6, <1>7, <1>8, Constants DEF StoredOK
<1>10. PlacesOK
  BY <1>1, Constants DEF PlacesOK
<1> QED
  BY <1>5, <1>9, <1>10 DEF ConsoleOK

LEMMA ConsoleStep == ConsoleOK /\ [Next]_vars => ConsoleOK'
<1> SUFFICES ASSUME ConsoleOK, [Next]_vars PROVE ConsoleOK'
  OBVIOUS
<1>1. ASSUME UNCHANGED console PROVE ConsoleOK'
  <2>1. UNCHANGED <<format, dump, where, stored, sequence, lost>>
    BY <1>1 DEF console
  <2> QED
    BY <2>1 DEF ConsoleOK, ConsoleTypes, StoredOK, PlacesOK
<1>2. CASE Console
  BY <1>2, StoreFileOK, StoreRootOK, FailBlockOK DEF Console
<1>3. CASE Detect
  BY <1>1, <1>3 DEF Detect
<1>4. CASE HealNext
  BY <1>1, <1>4 DEF HealNext
<1>5. CASE Scan
  BY <1>1, <1>5 DEF Scan
<1>6. CASE UNCHANGED vars
  BY <1>1, <1>6 DEF vars
<1> QED
  BY <1>2, <1>3, <1>4, <1>5, <1>6 DEF Next

LEMMA ConsoleHolds == Spec => []ConsoleOK
BY ConsoleInit, ConsoleStep, PTL DEF Spec

-----------------------------------------------------------------------------
(* Healing. *)

\* What is searched for in the reserve.
Targets == [b \in Blocks |-> IF is_bad_block(b) /\ Copies(b) # {} THEN Max(Copies(b)) ELSE NoBlock]

\* A moved block is in one place of the reserve, and nothing else there reads as it.
SmallBlockIntact == format = "MetaType1" /\ ReserveIntact /\ SearchedWhole

HealTypes ==
    /\ bad \subseteq Blocks
    /\ working \in [Blocks -> PhysicalBlock]
    /\ root \in 0..N
    /\ \A b \in Blocks : target[b] = NoBlock \/ target[b] \in Reserve

\* What is still to be healed, and what has been.
HealOK ==
    stage # "console" =>
        /\ target = Targets
        /\ \A b \in bad : is_bad_block(b)
        /\ Parsed /\ remap => bad = {}
        /\ \A l \in Logical : target[l] = NoBlock => working[l] = dump[l]
        /\ SmallBlockIntact =>
             \A l \in Logical \ lost : IF l \in bad THEN working[where[l]] = stored[l]
                                                    ELSE working[l] = stored[l]

ScanOK == stage = "scanned" => root = IF Roots = {} THEN NoBlock ELSE Newest(Roots)

ParserOK == HealTypes /\ HealOK /\ ScanOK

\* The copies of a bad block: the place it is kept in, or none when it was lost.
LEMMA OneCopy ==
    ASSUME ConsoleOK, SmallBlockIntact, NEW m \in Logical, ~dump[m].good
    PROVE  /\ m \in lost => Copies(m) = {}
           /\ m \notin lost => where[m] \in Reserve /\ Copies(m) = {where[m]}
<1>1. /\ dump \in [Blocks -> PhysicalBlock] /\ where \in [Logical -> Blocks]
      /\ format = "MetaType1" /\ \A r \in Reserve : dump[r].good
  BY DEF ConsoleOK, ConsoleTypes, SmallBlockIntact, ReserveIntact, Reserve
<1>2. /\ \A l \in Logical : IF l \in lost THEN ~dump[where[l]].good ELSE dump[where[l]] = stored[l]
      /\ \A l \in Logical : where[l] = l \/ (where[l] \in Reserve /\ ~dump[l].good)
      /\ \A r \in Reserve : dump[r].good => dump[r] = ErasedBlock \/ \E l \in Logical : where[l] = r
      /\ \A l \in Logical : stored[l].id = l /\ stored[l].good
  BY DEF ConsoleOK, PlacesOK, StoredOK
<1>3. Window = Reserve
  <2>1. Span \in Nat /\ N \in Nat /\ ReserveStart \in Nat /\ N <= ReserveStart + Span
    BY Constants, BadBlocksAssumption DEF SmallBlockIntact, SearchedWhole
  <2> QED
    BY <2>1 DEF Window, Reserve, Blocks
<1>4. \A l \in Logical \ lost : ParsedId(dump[where[l]], "Sb") = l
  <2> SUFFICES ASSUME NEW l \in Logical \ lost PROVE ParsedId(dump[where[l]], "Sb") = l
    OBVIOUS
  <2>1. dump[where[l]] \in PhysicalBlock /\ dump[where[l]].id = l
    BY <1>1, <1>2
  <2> QED
    BY <1>1, <2>1, ReadBack
<1>5. ASSUME NEW r \in Copies(m) PROVE m \notin lost /\ r = where[m]
  <2>1. r \in Reserve /\ ParsedId(dump[r], "Sb") = m /\ dump[r].good
    BY <1>1, <1>3 DEF Copies
  <2>2. dump[r] # ErasedBlock
    BY <1>1, <2>1, ErasedIsNone
  <2>3. PICK l \in Logical : where[l] = r
    BY <1>2, <2>1, <2>2
  <2>4. l \notin lost
    BY <1>2, <2>1, <2>3
  <2>5. l = m
    BY <1>4, <2>1, <2>3, <2>4
  <2> QED
    BY <2>3, <2>4, <2>5
<1>6. ASSUME m \notin lost PROVE where[m] \in Reserve /\ where[m] \in Copies(m)
  <2>1. where[m] \in Reserve
    BY <1>2, <1>6
  <2> QED
    BY <1>3, <1>4, <1>6, <2>1 DEF Copies
<1> QED
  BY <1>5, <1>6

LEMMA TargetsAreReserve ==
    /\ \A b \in Blocks : Targets[b] = NoBlock \/ Targets[b] \in Copies(b)
    /\ \A b \in Blocks : Copies(b) \subseteq Reserve
<1>1. ASSUME NEW b \in Blocks PROVE Copies(b) \subseteq Reserve
  BY Constants DEF Copies, Window, Reserve, Blocks
<1>2. ASSUME NEW b \in Blocks PROVE Targets[b] = NoBlock \/ Targets[b] \in Copies(b)
  <2>1. CASE is_bad_block(b) /\ Copies(b) # {}
    <3>1. Copies(b) \in SUBSET Blocks
      BY <1>1, Constants
    <3>2. Max(Copies(b)) \in Copies(b)
      BY <2>1, <3>1, BlocksFinite, MaxExists
    <3> QED
      BY <2>1, <3>2 DEF Targets
  <2>2. CASE ~(is_bad_block(b) /\ Copies(b) # {})
    BY <2>2 DEF Targets
  <2> QED
    BY <2>1, <2>2
<1> QED
  BY <1>1, <1>2

LEMMA SequenceIsInt ==
    ASSUME NEW b \in PhysicalBlock, NEW layout
    PROVE  ParsedSequence(b, layout) \in Int
<1>1. b.id \in Nat /\ b.sequence \in Nat
  BY Constants DEF PhysicalBlock
<1>2. /\ b.id % Byte \in Int /\ b.id \div Byte \in Int
      /\ b.sequence % Byte \in Int /\ b.sequence \div Byte \in Int
  BY <1>1, Digits
<1>3. Bytes(b)[1] \in Int /\ Bytes(b)[3] \in Int /\ Bytes(b)[4] \in Int
  BY <1>2 DEF Bytes
<1>4. Byte * Bytes(b)[4] \in Int
  BY <1>3, Constants
<1> QED
  BY <1>3, <1>4 DEF ParsedSequence

\* The root the scan takes is one of those it looks at, and none is newer.
LEMMA NewestIsThere ==
    ASSUME ConsoleOK, NEW S \in SUBSET Blocks, S # {}
    PROVE  /\ Newest(S) \in S
           /\ \A c \in S : ParsedSequence(dump[c], promote_layout)
                             <= ParsedSequence(dump[Newest(S)], promote_layout)
<1> DEFINE s(b) == ParsedSequence(dump[b], promote_layout)
           f == [b \in S |-> s(b)]
           T == {s(b) : b \in S}
           best == {b \in S : \A c \in S : s(c) <= s(b)}
<1>1. \A b \in S : s(b) \in Int
  BY SequenceIsInt DEF ConsoleOK, ConsoleTypes
<1> HIDE DEF s
<1>2. f \in Surjection(S, T) /\ IsFiniteSet(S)
  BY BlocksFinite DEF Surjection
<1>3. IsFiniteSet(T)
  BY <1>2, FS_Surjection
<1>4. T \in SUBSET Int /\ T # {}
  BY <1>1
<1>5. Max(T) \in T /\ \A y \in T : y <= Max(T)
  BY <1>3, <1>4, MaxExists
<1>6. PICK b \in S : s(b) = Max(T)
  BY <1>5
<1>7. b \in best
  BY <1>5, <1>6
<1>8. best \in SUBSET Blocks /\ best # {}
  BY <1>7
<1>9. Min(best) \in best
  BY <1>8, BlocksFinite, MinExists
<1>10. Newest(S) = Min(best)
  BY DEF Newest, s
<1>11. Newest(S) \in S /\ \A c \in S : s(c) <= s(Newest(S))
  BY <1>9, <1>10
<1> QED
  BY <1>11 DEF s

LEMMA DetectOK == ASSUME ConsoleOK, ParserOK, Detect PROVE ParserOK'
<1>1. /\ bad' = {b \in Blocks : is_bad_block(b)} /\ target' = Targets /\ working' = dump
      /\ stage' = IF remap' THEN "healing" ELSE "clean"
      /\ UNCHANGED <<format, dump, where, stored, sequence, lost>> /\ root' = root
  BY DEF Detect, Targets, console
<1>2. HealTypes'
  BY <1>1, TargetsAreReserve DEF ConsoleOK, ConsoleTypes, ParserOK, HealTypes
<1>3. Targets' = Targets /\ SmallBlockIntact' = SmallBlockIntact
      /\ \A b : is_bad_block(b)' = is_bad_block(b)
  <2>1. \A b : is_bad_block(b)' = is_bad_block(b)
    BY <1>1 DEF is_bad_block
  <2>2. Targets' = Targets
    BY <1>1 DEF Targets, is_bad_block, Copies, Window, ParsedId, Bytes
  <2>3. SmallBlockIntact' = SmallBlockIntact
    BY <1>1 DEF SmallBlockIntact, ReserveIntact, SearchedWhole, is_bad_block, Copies, Window,
                ParsedId, Bytes
  <2> QED
    BY <2>1, <2>2, <2>3
<1>4. \A l \in Logical \ lost : IF l \in bad' THEN dump[where[l]] = stored[l] ELSE dump[l] = stored[l]
  BY <1>1, Constants DEF ConsoleOK, PlacesOK, is_bad_block
<1>5. Parsed' /\ remap' => FALSE
  BY <1>1 DEF Parsed
<1>6. HealOK'
  <2>1. target' = Targets'
    BY <1>1, <1>3
  <2>2. \A b \in bad' : is_bad_block(b)'
    BY <1>1, <1>3
  <2>3. \A l \in Logical : working'[l] = dump'[l]
    BY <1>1
  <2>4. \A l \in Logical \ lost' : IF l \in bad' THEN working'[where'[l]] = stored'[l]
                                                 ELSE working'[l] = stored'[l]
    BY <1>1, <1>4
  <2> QED
    BY <1>5, <2>1, <2>2, <2>3, <2>4 DEF HealOK
<1>7. ScanOK'
  BY <1>1 DEF ScanOK
<1> QED
  BY <1>2, <1>6, <1>7 DEF ParserOK

LEMMA HealNextOK == ASSUME ConsoleOK, ParserOK, HealNext PROVE ParserOK'
<1>1. /\ stage = "healing" /\ UNCHANGED <<format, dump, where, stored, sequence, lost>>
      /\ remap' = remap /\ target' = target /\ root' = root
      /\ \/ bad = {} /\ stage' = "clean" /\ bad' = bad /\ working' = working
         \/ /\ bad # {} /\ bad' = bad \ {Min(bad)} /\ stage' = stage
            /\ working' = IF target[Min(bad)] = NoBlock THEN working
                          ELSE Healed(Min(bad), target[Min(bad)])
  BY DEF HealNext, console
<1>2. /\ target = Targets /\ \A b \in bad : is_bad_block(b)
      /\ \A l \in Logical : target[l] = NoBlock => working[l] = dump[l]
      /\ SmallBlockIntact => \A l \in Logical \ lost : IF l \in bad THEN working[where[l]] = stored[l]
                                                       ELSE working[l] = stored[l]
  BY <1>1 DEF ParserOK, HealOK
<1>3. /\ bad \subseteq Blocks /\ working \in [Blocks -> PhysicalBlock] /\ root \in 0..N
      /\ \A b \in Blocks : target[b] = NoBlock \/ target[b] \in Reserve
  BY DEF ParserOK, HealTypes
<1>4. Targets' = Targets /\ SmallBlockIntact' = SmallBlockIntact
      /\ \A b : is_bad_block(b)' = is_bad_block(b)
  BY <1>1 DEF Targets, SmallBlockIntact, ReserveIntact, SearchedWhole, is_bad_block, Copies, Window,
              ParsedId, Bytes
<1>5. ScanOK'
  BY <1>1 DEF ScanOK
<1>6. CASE bad = {} /\ stage' = "clean" /\ bad' = bad /\ working' = working
  <2>1. HealTypes'
    BY <1>1, <1>3, <1>6 DEF HealTypes
  <2>2. HealOK'
    BY <1>1, <1>2, <1>4, <1>6 DEF HealOK
  <2> QED
    BY <1>5, <2>1, <2>2 DEF ParserOK
<1>7. CASE /\ bad # {} /\ bad' = bad \ {Min(bad)} /\ stage' = stage
           /\ working' = IF target[Min(bad)] = NoBlock THEN working
                         ELSE Healed(Min(bad), target[Min(bad)])
  <2> DEFINE m == Min(bad)
  <2>1. m \in bad /\ m \in Blocks /\ ~dump[m].good
    <3>1. m \in bad
      BY <1>3, <1>7, BlocksFinite, MinExists
    <3> QED
      BY <1>2, <1>3, <3>1 DEF is_bad_block
  <2>2. bad' = bad \ {m} /\ working' = IF target[m] = NoBlock THEN working ELSE Healed(m, target[m])
    BY <1>7
  <2> HIDE DEF m
  <2> DEFINE r == target[m]
  <2>3. r = NoBlock => working' = working
    BY <2>2
  <2>4. r # NoBlock => /\ r \in Reserve /\ r \in Blocks
                       /\ working' = [working EXCEPT ![m] = working[r], ![r] = ErasedBlock]
    BY <1>3, <2>1, <2>2, Constants DEF Healed
  <2>5. working' \in [Blocks -> PhysicalBlock]
    BY <1>3, <2>1, <2>3, <2>4, BlockTypes
  <2>6. HealTypes'
    BY <1>1, <1>3, <2>2, <2>5 DEF HealTypes
  <2>7. \A l \in Logical : target[l] = NoBlock => working'[l] = dump[l]
    <3> SUFFICES ASSUME NEW l \in Logical, target[l] = NoBlock PROVE working'[l] = dump[l]
      OBVIOUS
    <3>1. CASE r = NoBlock
      BY <1>2, <2>3, <3>1
    <3>2. CASE r # NoBlock
      <4>1. l # m /\ l # r /\ l \in Blocks
        BY <2>4, <3>2, Constants
      <4> QED
        BY <1>2, <1>3, <2>4, <3>2, <4>1
    <3> QED
      BY <3>1, <3>2
  <2>8. ASSUME SmallBlockIntact, NEW l \in Logical \ lost
        PROVE  IF l \in bad' THEN working'[where[l]] = stored[l] ELSE working'[l] = stored[l]
    <3>1. m \in Logical
      BY <2>1, <2>8, Constants DEF SmallBlockIntact, ReserveIntact, Reserve
    <3>2. IF l \in bad THEN working[where[l]] = stored[l] ELSE working[l] = stored[l]
      BY <1>2, <2>8
    <3>3. /\ m \in lost => Copies(m) = {}
          /\ m \notin lost => where[m] \in Reserve /\ Copies(m) = {where[m]}
      BY <2>1, <2>8, <3>1, OneCopy
    <3>4. CASE m \in lost
      <4>1. r = NoBlock
        BY <1>2, <2>1, <3>3, <3>4, TargetsAreReserve
      <4>2. working' = working /\ l # m
        BY <2>3, <3>4, <4>1
      <4> QED
        BY <2>2, <3>2, <4>2
    <3>5. CASE m \notin lost
      <4>1. r = where[m] /\ where[m] \in Reserve /\ where[m] # NoBlock
        <5>1. Targets[m] = Max(Copies(m))
          BY <2>1, <3>3, <3>5 DEF Targets, is_bad_block
        <5>2. Targets[m] # NoBlock
          <6>1. Copies(m) \in SUBSET Blocks /\ Copies(m) # {}
            BY <3>3, <3>5, Constants
          <6>2. Max(Copies(m)) \in Copies(m)
            BY <6>1, BlocksFinite, MaxExists
          <6> QED
            BY <5>1, <6>1, <6>2, Constants
        <5> QED
          BY <1>2, <2>1, <3>3, <3>5, <5>2, Constants, TargetsAreReserve
      <4>2. r # NoBlock /\ m # r /\ r \in Blocks
        BY <3>1, <4>1, Constants
      <4> HIDE DEF r
      <4>3. /\ working'[m] = working[r] /\ \A b \in Blocks : b # m /\ b # r => working'[b] = working[b]
        BY <1>3, <2>1, <2>4, <4>2
      <4>4. CASE l = m
        <5>1. l \notin bad' /\ working[r] = stored[m]
          BY <2>1, <2>2, <3>2, <4>1, <4>4
        <5> QED
          BY <4>3, <4>4, <5>1
      <4>5. CASE l # m /\ l \in bad
        <5>1. ~dump[l].good
          BY <1>2, <4>5 DEF is_bad_block
        <5>2. where[l] \in Reserve
          BY <2>8, <5>1, OneCopy
        <5>3. where[l] # r /\ where[l] # m /\ where[l] \in Blocks
          BY <3>1, <4>1, <4>5, <5>2, Constants DEF ConsoleOK, PlacesOK
        <5>4. l \in bad' /\ working'[where[l]] = working[where[l]]
          BY <2>2, <4>3, <4>5, <5>3
        <5> QED
          BY <3>2, <4>5, <5>4
      <4>6. CASE l # m /\ l \notin bad
        <5>1. l \in Blocks /\ l # r /\ l \notin bad'
          BY <2>2, <4>1, <4>6, Constants
        <5> QED
          BY <3>2, <4>3, <4>6, <5>1
      <4> QED
        BY <4>4, <4>5, <4>6
    <3> QED
      BY <3>4, <3>5
  <2>9. ~Parsed'
    BY <1>1, <1>7 DEF Parsed
  <2>10. target' = Targets' /\ \A b \in bad' : is_bad_block(b)'
    BY <1>1, <1>2, <1>4, <2>2
  <2>11. \A l \in Logical : target'[l] = NoBlock => working'[l] = dump'[l]
    BY <1>1, <2>7
  <2>12. SmallBlockIntact' => \A l \in Logical \ lost' :
             IF l \in bad' THEN working'[where'[l]] = stored'[l] ELSE working'[l] = stored'[l]
    BY <1>1, <1>4, <2>8
  <2>13. HealOK'
    BY <2>9, <2>10, <2>11, <2>12 DEF HealOK
  <2> QED
    BY <1>5, <2>6, <2>13 DEF ParserOK
<1> QED
  BY <1>1, <1>6, <1>7

LEMMA ScanKeeps == ASSUME ConsoleOK, ParserOK, Scan PROVE ParserOK'
<1>1. /\ stage = "clean" /\ stage' = "scanned" /\ root' = IF Roots = {} THEN NoBlock ELSE Newest(Roots)
      /\ UNCHANGED <<format, dump, where, stored, sequence, lost, remap, bad, target, working>>
  BY DEF Scan, console
<1>2. Targets' = Targets /\ SmallBlockIntact' = SmallBlockIntact
      /\ \A b : is_bad_block(b)' = is_bad_block(b)
  BY <1>1 DEF Targets, SmallBlockIntact, ReserveIntact, SearchedWhole, is_bad_block, Copies, Window,
              ParsedId, Bytes
<1>3. Roots' = Roots /\ Newest(Roots)' = Newest(Roots)
  <2>1. format' = format /\ dump' = dump
    BY <1>1
  <2>2. Roots' = Roots
    BY <2>1 DEF Roots, is_bad_block
  <2>3. PICK R : R = Roots
    OBVIOUS
  <2>4. promote_layout' = promote_layout
    BY <2>1 DEF promote_layout, Bytes
  <2>5. \A b, l : ParsedSequence(dump[b], l)' = ParsedSequence(dump[b], l)
    BY <2>1 DEF ParsedSequence, Bytes
  <2>6. Newest(R)' = Newest(R)
    BY <2>1, <2>4, <2>5 DEF Newest
  <2> QED
    BY <2>2, <2>3, <2>6
<1>4. root' \in 0..N
  <2>1. Roots # {} => Newest(Roots) \in Blocks
    <3>1. Roots \in SUBSET Blocks
      BY DEF Roots
    <3> QED
      BY <3>1, NewestIsThere
  <2> QED
    BY <1>1, <2>1, Constants DEF Blocks, NoBlock
<1>5. HealTypes'
  BY <1>1, <1>4 DEF ParserOK, HealTypes
<1>6. HealOK'
  BY <1>1, <1>2 DEF ParserOK, HealOK, Parsed
<1>7. ScanOK'
  BY <1>1, <1>3 DEF ScanOK
<1> QED
  BY <1>5, <1>6, <1>7 DEF ParserOK

LEMMA ParserInit == Init => ParserOK
<1> SUFFICES ASSUME Init PROVE ParserOK
  OBVIOUS
<1>1. stage = "console" /\ bad = {} /\ target = [b \in Blocks |-> NoBlock] /\ working = dump
      /\ root = NoBlock /\ NoBlock \in 0..N
  BY Constants DEF Init, NoBlock
<1>2. working \in [Blocks -> PhysicalBlock]
  BY <1>1, ConsoleInit DEF ConsoleOK, ConsoleTypes
<1> QED
  BY <1>1, <1>2 DEF ParserOK, HealTypes, HealOK, ScanOK

LEMMA ParserStep == ConsoleOK /\ ParserOK /\ [Next]_vars => ParserOK'
<1> SUFFICES ASSUME ConsoleOK, ParserOK, [Next]_vars PROVE ParserOK'
  OBVIOUS
<1>1. CASE Console
  <2>1. stage = "console" /\ stage' = stage /\ UNCHANGED parser
    BY <1>1 DEF Console, StoreFile, StoreRoot, Stores, FailBlock
  <2> QED
    BY <2>1 DEF parser, ParserOK, HealTypes, HealOK, ScanOK
<1>2. CASE UNCHANGED vars
  <2>1. UNCHANGED <<format, dump, where, stored, sequence, lost, stage, remap, bad, target, working, root>>
    BY <1>2 DEF vars, console, parser
  <2>2. Targets' = Targets /\ SmallBlockIntact' = SmallBlockIntact
        /\ \A b : is_bad_block(b)' = is_bad_block(b)
    BY <2>1 DEF Targets, SmallBlockIntact, ReserveIntact, SearchedWhole, is_bad_block, Copies, Window,
                ParsedId, Bytes
  <2>3. Roots' = Roots /\ Newest(Roots)' = Newest(Roots)
    BY <2>1 DEF Roots, Newest, is_bad_block, ParsedSequence, promote_layout, Bytes
  <2> QED
    BY <2>1, <2>2, <2>3 DEF ParserOK, HealTypes, HealOK, ScanOK, Parsed
<1> QED
  BY <1>1, <1>2, DetectOK, HealNextOK, ScanKeeps DEF Next

LEMMA ParserHolds == Spec => [](ConsoleOK /\ ParserOK)
BY ConsoleInit, ConsoleStep, ParserInit, ParserStep, PTL DEF Spec

-----------------------------------------------------------------------------
(* What a parsed image is. *)

\* Blocks keep their form whatever the console does and however they are healed, and
\* the scan ends on a block of the image or on none (preprocess_nand_with_lba_options,
\* scan_physical_with_lba).
THEOREM TypesHold == Spec => []TypeOK
<1>1. ConsoleOK /\ ParserOK => TypeOK
  BY DEF ConsoleOK, ConsoleTypes, ParserOK, HealTypes, TypeOK, Reserve
<1> QED
  BY <1>1, ParserHolds, PTL

\* What the console stored last in a block that was not lost is in the clean image,
\* for every image whose whole reserve is searched and good, however many blocks
\* failed and in whatever order (resolve_remapped_blocks, map_and_heal).
THEOREM HealingIsCurrent == Spec => []HealedIsCurrent
<1>1. ConsoleOK /\ ParserOK => HealedIsCurrent
  <2> SUFFICES ASSUME ParserOK, Parsed, remap, SmallBlockIntact, NEW l \in Logical \ lost
               PROVE  working[l] = stored[l]
    BY DEF HealedIsCurrent, SmallBlockIntact
  <2> QED
    BY DEF ParserOK, HealOK, Parsed
<1> QED
  BY <1>1, ParserHolds, PTL

\* Healing touches no block below the reserve but the bad ones that have a copy, in
\* either format (map_and_heal).
THEOREM HealingKeepsOthers == Spec => []OthersKept
<1>1. ConsoleOK /\ ParserOK => OthersKept
  <2> SUFFICES ASSUME ParserOK, Parsed, NEW l \in Logical, working[l] # dump[l]
               PROVE  is_bad_block(l) /\ \E r \in ReserveStart..(N - 1) : ParsedId(dump[r], "Sb") = l
    BY DEF OthersKept
  <2>1. target = Targets /\ target[l] # NoBlock /\ l \in Blocks
    BY Constants DEF ParserOK, HealOK, Parsed
  <2>2. is_bad_block(l) /\ Copies(l) # {}
    BY <2>1 DEF Targets
  <2>3. PICK r \in Copies(l) : r \in Reserve /\ ParsedId(dump[r], "Sb") = l
    BY <2>1, <2>2, TargetsAreReserve DEF Copies
  <2> QED
    BY <2>2, <2>3 DEF Reserve
<1> QED
  BY <1>1, ParserHolds, PTL

\* In the small-block format the scan ends on a good block with the newest root,
\* unless that root was lost: neither older roots nor the block a root was moved
\* away from are taken for it (scan_physical_with_lba, promote_layout).
THEOREM ScanFindsNewestRoot == Spec => []SmallBlockRootIsNewest
<1>1. ConsoleOK /\ ParserOK => SmallBlockRootIsNewest
  <2> SUFFICES ASSUME ConsoleOK, ParserOK, format = "MetaType1", stage = "scanned",
                      Latest(sequence) \notin lost
               PROVE  root # NoBlock /\ dump[root].good /\ dump[root].sequence = sequence
    BY DEF SmallBlockRootIsNewest, RootIsNewest, Latest
  <2>1. /\ dump \in [Blocks -> PhysicalBlock] /\ where \in [Logical -> Blocks]
        /\ sequence \in Nat /\ sequence # 0
    BY BadBlocksAssumption DEF ConsoleOK, ConsoleTypes
  <2>2. promote_layout = "Sb"
    <3> SUFFICES ASSUME dump[0].good PROVE Bytes(dump[0])[1] = 0
      BY DEF promote_layout
    <3>1. 0 \in Logical
      BY Constants
    <3>2. dump[0] = stored[0] /\ dump[0].sequence = 0
      BY <3>1 DEF ConsoleOK, PlacesOK, StoredOK
    <3>3. 0 % Byte = 0
      BY Constants
    <3> QED
      BY <3>2, <3>3 DEF Bytes
  <2>3. \A b \in Blocks : ParsedSequence(dump[b], promote_layout) = dump[b].sequence
    BY <2>1, <2>2, ReadBack
  <2> DEFINE w == where[Latest(sequence)]
  <2>4. w \in Roots /\ dump[w].sequence = sequence
    <3>1. Latest(sequence) \in Logical
      BY <2>1, RootPlaces
    <3>2. w \in Blocks /\ dump[w] = stored[Latest(sequence)]
      BY <2>1, <3>1 DEF ConsoleOK, PlacesOK
    <3> QED
      BY <3>1, <3>2 DEF ConsoleOK, StoredOK, Roots, is_bad_block
  <2> HIDE DEF w
  <2>5. Roots \in SUBSET Blocks /\ Roots # {} /\ root = Newest(Roots)
    BY <2>4 DEF Roots, ParserOK, ScanOK
  <2>6. root \in Roots /\ \A c \in Roots : ParsedSequence(dump[c], promote_layout)
                                            <= ParsedSequence(dump[root], promote_layout)
    BY <2>5, NewestIsThere
  <2>7. root \in Blocks /\ dump[root].root /\ dump[root].good /\ root # NoBlock
    BY <2>6, Constants DEF Roots, is_bad_block
  <2>8. sequence <= dump[root].sequence
    BY <2>3, <2>4, <2>5, <2>6, <2>7
  <2>9. dump[root].sequence <= sequence
    BY <2>7 DEF ConsoleOK, StoredOK
  <2>10. dump[root].sequence \in Nat
    BY <2>1, <2>7 DEF PhysicalBlock
  <2> QED
    BY <2>1, <2>7, <2>8, <2>9, <2>10
<1> QED
  BY <1>1, ParserHolds, PTL
=============================================================================
