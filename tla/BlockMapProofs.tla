--------------------------- MODULE BlockMapProofs ---------------------------
(***************************************************************************)
(* Facts about the block-map operators: what a chain is, and that every    *)
(* operator keeps the map a set of separate chains.                        *)
(***************************************************************************)
EXTENDS BlockMap, FiniteSetTheorems, WellFoundedInduction, TLAPS

IsMap(m) == m \in [Blocks -> Words]

\* Every link leads to a block in use, and no two links to the same one.
Sound(m) ==
    /\ IsMap(m)
    /\ \A x \in Blocks : IsLink(m[x]) => InUse(m[m[x]])
    /\ \A x, y \in Blocks : IsLink(m[x]) /\ m[x] = m[y] => x = y

\* No link leads to h.
Unlinked(m, h) == \A x \in Blocks : IsLink(m[x]) => m[x] # h

-----------------------------------------------------------------------------

\* A non-empty set of numbers has a least element, which is what Least returns.
LEMMA LeastFact ==
    ASSUME NEW S, S \subseteq Nat, S # {}
    PROVE  Least(S) \in S /\ \A y \in S : Least(S) <= y
<1>1. PICK x \in S : \A y \in S : ~ (<<y, x>> \in OpToRel(<, Nat))
  BY NatLessThanWellFounded, WFMin
<1>2. \A y \in S : x <= y
  <2> SUFFICES ASSUME NEW y \in S, y < x PROVE FALSE
    OBVIOUS
  <2>1. <<y, x>> \in OpToRel(<, Nat)
    BY DEF OpToRel
  <2> QED
    BY <1>1, <2>1
<1> QED
  BY <1>2 DEF Least

LEMMA WordFacts ==
    /\ \A w : IsLink(w) => w \in Blocks /\ w # 0 /\ w # Free /\ w # End /\ w # Reserved
    /\ ~InUse(Free) /\ InUse(End) /\ ~InUse(Reserved)
    /\ Blocks \subseteq Nat
    /\ IsFiniteSet(Blocks)
<1>1. IsFiniteSet(Blocks)
  BY SizeAssumption, FS_Interval DEF Blocks
<1> QED
  BY <1>1, SizeAssumption DEF IsLink, InUse, Blocks, Free, End, Reserved

-----------------------------------------------------------------------------
(* Chains. *)

LEMMA ChainFacts ==
    ASSUME NEW m, IsMap(m), NEW b \in Blocks
    PROVE  /\ b \in Chain(m, b)
           /\ Chain(m, b) \subseteq Blocks
           /\ Closed(m, Chain(m, b))
           /\ \A S : b \in S /\ Closed(m, S) => Chain(m, b) \subseteq S
           /\ \A x \in Chain(m, b) :
                 x # b => \E y \in Chain(m, b) : IsLink(m[y]) /\ m[y] = x
<1> DEFINE C == Chain(m, b)
           closed == {T \in SUBSET Targets(m) : Closed(m, T \cup {b})}
<1>0. C = {b} \cup {x \in Targets(m) : \A T \in closed : x \in T}
  BY DEF Chain
<1>1. \A x : x \in Targets(m) <=> \E y \in Blocks : IsLink(m[y]) /\ m[y] = x
  BY DEF Targets
<1>2. b \in C /\ C \subseteq Blocks
  BY <1>0, <1>1, WordFacts
<1>3. Closed(m, C)
  <2> SUFFICES ASSUME NEW x \in C, IsLink(m[x]), m[x] # b
               PROVE  m[x] \in C
    BY <1>2 DEF Closed
  <2>1. m[x] \in Targets(m)
    BY <1>1, <1>2
  <2>2. ASSUME NEW T \in closed PROVE m[x] \in T
    <3>1. x \in T \cup {b}
      BY <1>0
    <3> QED
      BY <3>1 DEF Closed
  <2> QED
    BY <1>0, <2>1, <2>2
<1>4. ASSUME NEW S, b \in S, Closed(m, S)
      PROVE  C \subseteq S
  <2> DEFINE T == S \cap Targets(m)
  <2>1. Closed(m, T \cup {b})
    <3> SUFFICES ASSUME NEW x \in T \cup {b}, IsLink(m[x])
                 PROVE  m[x] \in T
      BY DEF Closed
    <3>1. x \in S /\ x \in Blocks
      BY <1>4, <1>1, WordFacts
    <3> QED
      BY <3>1, <1>4, <1>1 DEF Closed
  <2>2. T \in closed
    BY <2>1
  <2> QED
    BY <1>0, <1>4, <2>2
<1>5. ASSUME NEW x \in C, x # b
      PROVE  \E y \in C : IsLink(m[y]) /\ m[y] = x
  <2> DEFINE S == {b} \cup {z \in C : \E y \in C : IsLink(m[y]) /\ m[y] = z}
  <2>1. Closed(m, S)
    <3> SUFFICES ASSUME NEW z \in S, IsLink(m[z])
                 PROVE  m[z] \in S
      BY DEF Closed
    <3>1. z \in C
      BY <1>2
    <3>2. m[z] \in C
      BY <3>1, <1>3 DEF Closed
    <3> QED
      BY <3>1, <3>2
  <2>2. x \in S
    BY <1>4, <2>1
  <2> QED
    BY <1>5, <2>2
<1> QED
  BY <1>2, <1>3, <1>4, <1>5

\* Chains from two different blocks that no link leads to do not meet.
LEMMA ChainsApart ==
    ASSUME NEW m, Sound(m), NEW g \in Blocks, NEW h \in Blocks,
           g # h, Unlinked(m, g), Unlinked(m, h)
    PROVE  Chain(m, g) \cap Chain(m, h) = {}
<1> DEFINE G == Chain(m, g)
           H == Chain(m, h)
<1>0. IsMap(m)
  BY DEF Sound
<1>1. /\ g \in G /\ G \subseteq Blocks /\ Closed(m, G)
      /\ \A S : g \in S /\ Closed(m, S) => G \subseteq S
  BY <1>0, ChainFacts
<1>2. /\ H \subseteq Blocks
      /\ \A x \in H : x # h => \E y \in H : IsLink(m[y]) /\ m[y] = x
  BY <1>0, ChainFacts
<1>3. g \notin H
  BY <1>2 DEF Unlinked
<1>4. Closed(m, G \ H)
  <2> SUFFICES ASSUME NEW x \in G, x \notin H, IsLink(m[x]), m[x] \in H
               PROVE  FALSE
    BY <1>1 DEF Closed
  <2>1. m[x] # h
    BY <1>1 DEF Unlinked
  <2>2. PICK y \in H : IsLink(m[y]) /\ m[y] = m[x]
    BY <1>2, <2>1
  <2> QED
    BY <2>2, <1>1, <1>2 DEF Sound
<1>5. g \in G \ H
  BY <1>1, <1>3
<1>6. G \subseteq G \ H
  BY <1>1, <1>4, <1>5
<1> QED
  BY <1>6

\* Every block of a chain that starts in use is in use.
LEMMA ChainInUse ==
    ASSUME NEW m, Sound(m), NEW h \in Blocks, InUse(m[h])
    PROVE  \A x \in Chain(m, h) : InUse(m[x])
<1> DEFINE S == {x \in Blocks : InUse(m[x])}
<1>1. Closed(m, S)
  BY WordFacts DEF Closed, Sound
<1>2. Chain(m, h) \subseteq S
  BY <1>1, ChainFacts DEF Sound
<1> QED
  BY <1>2

\* A chain from a block no link leads to has a last block.
LEMMA LastExists ==
    ASSUME NEW m, Sound(m), NEW h \in Blocks, Unlinked(m, h)
    PROVE  LastOf(m, h) \in Chain(m, h) /\ ~IsLink(m[LastOf(m, h)])
<1> DEFINE C == Chain(m, h)
           T == C \ {h}
           f == [x \in C |-> m[x]]
<1>1. h \in C /\ C \subseteq Blocks /\ Closed(m, C)
  BY ChainFacts DEF Sound
<1>2. SUFFICES ASSUME \A x \in C : IsLink(m[x]) PROVE FALSE
  BY DEF LastOf
<1>3. IsFiniteSet(C)
  BY <1>1, WordFacts, FS_Subset
<1>4. IsFiniteSet(T) /\ Cardinality(T) = Cardinality(C) - 1
  BY <1>1, <1>3, FS_RemoveElement
<1>5. Cardinality(T) < Cardinality(C)
  BY <1>3, <1>4, FS_CardinalityType
<1>6. f \in [C -> T]
  BY <1>1, <1>2 DEF Closed, Unlinked
<1>7. \E x, y \in C : x # y /\ f[x] = f[y]
  <2> HIDE DEF C, T, f
  <2> QED
    BY <1>3, <1>4, <1>5, <1>6, FS_PigeonHole
<1> QED
  BY <1>1, <1>2, <1>7 DEF Sound

\* No block of such a chain lies on the chain of the block it links to.
LEMMA NoCycle ==
    ASSUME NEW m, Sound(m), NEW h \in Blocks, Unlinked(m, h),
           NEW x \in Chain(m, h), IsLink(m[x])
    PROVE  x \notin Chain(m, m[x])
<1> DEFINE C == Chain(m, h)
           Z == Chain(m, m[x])
<1>0. IsMap(m) /\ m[x] \in Blocks /\ x \in Blocks
  BY ChainFacts, WordFacts DEF Sound
<1>1. /\ h \in C /\ C \subseteq Blocks /\ Closed(m, C)
      /\ \A S : h \in S /\ Closed(m, S) => C \subseteq S
  BY <1>0, ChainFacts
<1>2. /\ m[x] \in Z /\ Z \subseteq Blocks
      /\ \A y \in Z : y # m[x] => \E z \in Z : IsLink(m[z]) /\ m[z] = y
  BY <1>0, ChainFacts
<1> SUFFICES ASSUME x \in Z PROVE FALSE
  OBVIOUS
<1>3. \A y \in Z : \E z \in Z : IsLink(m[z]) /\ m[z] = y
  BY <1>2
<1>4. h \notin Z
  BY <1>2, <1>3 DEF Unlinked
<1>5. Closed(m, C \ Z)
  <2> SUFFICES ASSUME NEW y \in C, y \notin Z, IsLink(m[y]), m[y] \in Z
               PROVE  FALSE
    BY <1>1 DEF Closed
  <2>1. PICK z \in Z : IsLink(m[z]) /\ m[z] = m[y]
    BY <1>3
  <2> QED
    BY <2>1, <1>1, <1>2 DEF Sound
<1>6. C \subseteq C \ Z
  BY <1>1, <1>4, <1>5
<1> QED
  BY <1>6

\* The chain of a block is the block and the chain of the block it links to.
LEMMA ChainStep ==
    ASSUME NEW m, IsMap(m), NEW x \in Blocks
    PROVE  /\ IsLink(m[x]) => Chain(m, x) = {x} \cup Chain(m, m[x])
           /\ ~IsLink(m[x]) => Chain(m, x) = {x}
<1> DEFINE X == Chain(m, x)
<1>1. /\ x \in X /\ X \subseteq Blocks /\ Closed(m, X)
      /\ \A S : x \in S /\ Closed(m, S) => X \subseteq S
  BY ChainFacts
<1>2. CASE IsLink(m[x])
  <2> DEFINE Y == Chain(m, m[x])
  <2>1. m[x] \in Blocks
    BY <1>2, WordFacts
  <2>2. /\ m[x] \in Y /\ Y \subseteq Blocks /\ Closed(m, Y)
        /\ \A S : m[x] \in S /\ Closed(m, S) => Y \subseteq S
    BY <2>1, ChainFacts
  <2>3. Closed(m, {x} \cup Y)
    BY <2>2 DEF Closed
  <2>4. X \subseteq {x} \cup Y
    BY <1>1, <2>3
  <2>5. m[x] \in X
    BY <1>1, <1>2 DEF Closed
  <2>6. Y \subseteq X
    BY <1>1, <2>2, <2>5
  <2> QED
    BY <1>1, <1>2, <2>4, <2>6
<1>3. CASE ~IsLink(m[x])
  <2>1. Closed(m, {x})
    BY <1>3 DEF Closed
  <2>2. X \subseteq {x}
    BY <1>1, <2>1
  <2> QED
    BY <1>1, <1>3, <2>2
<1> QED
  BY <1>2, <1>3

\* Positions on a chain from a block no link leads to: the block is first, and
\* a link raises the position by one.
LEMMA PositionStep ==
    ASSUME NEW m, Sound(m), NEW h \in Blocks, Unlinked(m, h)
    PROVE  /\ IsFiniteSet(Chain(m, h)) /\ Cardinality(Chain(m, h)) \in Nat \ {0}
           /\ Position(m, h, h) = 1
           /\ \A x \in Chain(m, h) : Position(m, h, x) \in Int
           /\ \A x \in Chain(m, h) : IsLink(m[x]) =>
                 m[x] \in Chain(m, h) /\ Position(m, h, m[x]) = Position(m, h, x) + 1
           /\ \A x \in Chain(m, h) : ~IsLink(m[x]) =>
                 Position(m, h, x) = Cardinality(Chain(m, h))
<1> DEFINE C == Chain(m, h)
<1>0. IsMap(m)
  BY DEF Sound
<1>1. h \in C /\ C \subseteq Blocks /\ Closed(m, C)
  BY <1>0, ChainFacts
<1>2. \A x \in Blocks : IsFiniteSet(Chain(m, x)) /\ Cardinality(Chain(m, x)) \in Nat
  BY <1>0, ChainFacts, WordFacts, FS_Subset, FS_CardinalityType
<1>3. Cardinality(C) # 0
  BY <1>1, <1>2, FS_EmptySet
<1>4. ASSUME NEW x \in C, IsLink(m[x])
      PROVE  m[x] \in C /\ Cardinality(Chain(m, x)) = Cardinality(Chain(m, m[x])) + 1
  <2>1. m[x] \in C /\ m[x] \in Blocks /\ x \in Blocks
    BY <1>1, <1>4 DEF Closed
  <2>2. Chain(m, x) = Chain(m, m[x]) \cup {x} /\ x \notin Chain(m, m[x])
    BY <1>0, <1>4, <2>1, ChainStep, NoCycle
  <2>3. IsFiniteSet(Chain(m, m[x]))
    BY <1>2, <2>1
  <2> QED
    BY <2>1, <2>2, <2>3, FS_AddElement
<1>5. ASSUME NEW x \in C, ~IsLink(m[x])
      PROVE  Cardinality(Chain(m, x)) = 1
  <2>1. Chain(m, x) = {x}
    BY <1>0, <1>1, <1>5, ChainStep
  <2> QED
    BY <2>1, FS_Singleton
<1> QED
  BY <1>1, <1>2, <1>3, <1>4, <1>5 DEF Position

\* A chain of n blocks has a k-th block for every k in 1..n, so that Nth is
\* what indexing the list of get_block_chain gives.
LEMMA NthExists ==
    ASSUME NEW m, Sound(m), NEW h \in Blocks, Unlinked(m, h),
           NEW k \in 1..Cardinality(Chain(m, h))
    PROVE  Nth(m, h, k) \in Chain(m, h) /\ Position(m, h, Nth(m, h, k)) = k
<1> DEFINE C == Chain(m, h)
           Missing == {j \in 1..Cardinality(C) : \A x \in C : Position(m, h, x) # j}
<1>1. /\ Cardinality(C) \in Nat \ {0} /\ h \in C /\ Position(m, h, h) = 1
      /\ \A x \in C : Position(m, h, x) \in Int
      /\ \A x \in C : IsLink(m[x]) =>
            m[x] \in C /\ Position(m, h, m[x]) = Position(m, h, x) + 1
      /\ \A x \in C : ~IsLink(m[x]) => Position(m, h, x) = Cardinality(C)
  BY PositionStep, ChainFacts DEF Sound
<1>2. Missing = {}
  <2> SUFFICES ASSUME Missing # {} PROVE FALSE
    OBVIOUS
  <2> DEFINE j == Least(Missing)
  <2>1. j \in Missing /\ \A i \in Missing : j <= i
    <3>1. Missing \subseteq Nat
      BY <1>1
    <3> HIDE DEF Missing
    <3> QED
      BY <3>1, LeastFact
  <2> HIDE DEF j
  <2>2. j \in 1..Cardinality(C) /\ j # 1
    BY <1>1, <2>1
  <2>3. j - 1 \in 1..Cardinality(C) /\ j - 1 \notin Missing
    BY <1>1, <2>1, <2>2
  <2>4. PICK x \in C : Position(m, h, x) = j - 1
    BY <2>3
  <2>5. IsLink(m[x])
    BY <1>1, <2>2, <2>4
  <2>6. m[x] \in C /\ Position(m, h, m[x]) = j
    BY <1>1, <2>2, <2>4, <2>5
  <2> QED
    BY <2>1, <2>6
<1>3. \E x \in C : Position(m, h, x) = k
  BY <1>2
<1> QED
  BY <1>3 DEF Nth

-----------------------------------------------------------------------------
(* Operators that change the map. *)

\* A map in which the blocks of F are given back and those of E end a chain.
Prune(m, E, F) ==
    [x \in Blocks |-> IF x \in E THEN End ELSE IF x \in F THEN Free ELSE m[x]]

\* It is sound when every link into F comes from F or E.
LEMMA PruneSound ==
    ASSUME NEW m, Sound(m), NEW F \in SUBSET Blocks, NEW E \in SUBSET Blocks,
           \A x \in Blocks : IsLink(m[x]) /\ m[x] \in F \ E => x \in F \cup E
    PROVE  /\ Sound(Prune(m, E, F))
           /\ \A h : Unlinked(m, h) => Unlinked(Prune(m, E, F), h)
<1> DEFINE p == Prune(m, E, F)
<1>0. p = [x \in Blocks |-> IF x \in E THEN End ELSE IF x \in F THEN Free ELSE m[x]]
  BY DEF Prune
<1> HIDE DEF p
<1>1. \A x \in Blocks : IsLink(p[x]) => x \notin E /\ x \notin F /\ p[x] = m[x]
  BY <1>0, WordFacts
<1>2. IsMap(p)
  BY <1>0 DEF IsMap, Sound, Words
<1>3. ASSUME NEW x \in Blocks, IsLink(p[x]) PROVE InUse(p[p[x]])
  <2>1. p[x] = m[x] /\ IsLink(m[x]) /\ m[x] \in Blocks /\ InUse(m[m[x]])
    BY <1>1, <1>3, WordFacts DEF Sound
  <2>2. m[x] \notin F \/ m[x] \in E
    BY <1>1, <1>3, <2>1
  <2> QED
    BY <1>0, <2>1, <2>2, WordFacts
<1>4. \A x, y \in Blocks : IsLink(p[x]) /\ p[x] = p[y] => x = y
  BY <1>1 DEF Sound
<1> QED
  BY <1>1, <1>2, <1>3, <1>4 DEF Sound, Unlinked, p

\* The only link into the chain of b from outside leads to b.
LEMMA ChainEntered ==
    ASSUME NEW m, Sound(m), NEW b \in Blocks,
           NEW x \in Blocks, IsLink(m[x]), m[x] \in Chain(m, b), m[x] # b
    PROVE  x \in Chain(m, b)
<1>1. /\ Chain(m, b) \subseteq Blocks
      /\ \E y \in Chain(m, b) : IsLink(m[y]) /\ m[y] = m[x]
  BY ChainFacts DEF Sound
<1> QED
  BY <1>1 DEF Sound

\* free_block_chain on a whole chain keeps the map sound, and leaves alone
\* every other block no link leads to.
LEMMA FreeChainSound ==
    ASSUME NEW m, Sound(m), NEW b \in Blocks, Unlinked(m, b)
    PROVE  /\ Sound(FreeChain(m, b))
           /\ \A h : Unlinked(m, h) => Unlinked(FreeChain(m, b), h)
           /\ \A h \in Blocks : Unlinked(m, h) /\ h # b => FreeChain(m, b)[h] = m[h]
<1> DEFINE F == Chain(m, b)
<1>1. /\ F \subseteq Blocks
      /\ \A x \in F : x # b => \E y \in F : IsLink(m[y]) /\ m[y] = x
  BY ChainFacts DEF Sound
<1>2. \A x \in Blocks : IsLink(m[x]) /\ m[x] \in F => x \in F
  BY ChainEntered DEF Unlinked
<1>3. FreeChain(m, b) =
        [x \in Blocks |-> IF x \in F THEN Free ELSE m[x]]
  BY DEF FreeChain
<1>4. /\ Sound(FreeChain(m, b))
      /\ \A h : Unlinked(m, h) => Unlinked(FreeChain(m, b), h)
  <2>1. FreeChain(m, b) = Prune(m, {}, F)
    BY DEF FreeChain, Prune
  <2> HIDE DEF F
  <2> QED
    BY <1>1, <1>2, <2>1, PruneSound
<1>5. \A h \in Blocks : Unlinked(m, h) /\ h # b => h \notin F
  BY <1>1 DEF Unlinked
<1> QED
  BY <1>3, <1>4, <1>5

\* Cutting a chain behind kth keeps the map sound and leaves alone every block
\* no link leads to.
LEMMA CutSound ==
    ASSUME NEW m, Sound(m), NEW kth \in Blocks, IsLink(m[kth])
    PROVE  /\ Sound(Cut(m, kth, m[kth]))
           /\ \A h : Unlinked(m, h) => Unlinked(Cut(m, kth, m[kth]), h)
           /\ \A h \in Blocks : Unlinked(m, h) =>
                 Cut(m, kth, m[kth])[h] = IF h = kth THEN End ELSE m[h]
<1> DEFINE tail == m[kth]
           F == Chain(m, tail)
<1>0. tail \in Blocks
  BY WordFacts
<1>1. /\ F \subseteq Blocks
      /\ \A x \in F : x # tail => \E y \in F : IsLink(m[y]) /\ m[y] = x
  BY <1>0, ChainFacts DEF Sound
<1>2. \A x \in Blocks : IsLink(m[x]) /\ m[x] \in F => x \in F \/ x = kth
  BY <1>0, ChainEntered DEF Sound
<1>3. Cut(m, kth, tail) =
        [x \in Blocks |-> IF x = kth THEN End ELSE IF x \in F THEN Free ELSE m[x]]
  BY DEF Cut
<1>4. /\ Sound(Cut(m, kth, tail))
      /\ \A h : Unlinked(m, h) => Unlinked(Cut(m, kth, tail), h)
  <2> DEFINE E == {kth}
  <2>1. \A x \in Blocks : IsLink(m[x]) /\ m[x] \in F \ E => x \in F \cup E
    BY <1>2
  <2>2. Cut(m, kth, tail) = Prune(m, E, F)
    BY DEF Cut, Prune
  <2>3. E \in SUBSET Blocks
    OBVIOUS
  <2> HIDE DEF F, tail, E
  <2> QED
    BY <1>1, <2>1, <2>2, <2>3, PruneSound
<1>5. \A h \in Blocks : Unlinked(m, h) => h \notin F
  BY <1>1 DEF Unlinked
<1> QED
  BY <1>3, <1>4, <1>5

\* The words that link fresh blocks: each leads to the next higher one, the
\* highest ends the chain.
LEMMA LinkedFacts ==
    ASSUME NEW S \in SUBSET (Blocks \ {0})
    PROVE  /\ \A x \in S : \/ Linked(S)[x] = End
                           \/ Linked(S)[x] \in S /\ Linked(S)[x] > x
           /\ \A x, y \in S : Linked(S)[x] \in S /\ Linked(S)[x] = Linked(S)[y] => x = y
           /\ S # {} => \A x \in S : Linked(S)[x] # Least(S)
<1> DEFINE above(x) == {y \in S : y > x}
<1>0. S \subseteq Nat /\ \A x \in S : x # End
  BY WordFacts, SizeAssumption DEF Blocks, End, Reserved
<1>1. ASSUME NEW x \in S, above(x) # {}
      PROVE  /\ Linked(S)[x] = Least(above(x))
             /\ Least(above(x)) \in above(x)
             /\ \A y \in above(x) : Least(above(x)) <= y
  <2>1. above(x) \subseteq Nat
    BY <1>0
  <2>2. Linked(S)[x] = Least(above(x))
    BY <1>1 DEF Linked
  <2> HIDE DEF above
  <2> QED
    BY <1>1, <2>1, <2>2, LeastFact
<1>2. ASSUME NEW x \in S, above(x) = {}
      PROVE  Linked(S)[x] = End
  BY <1>2 DEF Linked
<1>3. \A x \in S : Linked(S)[x] = End \/ (Linked(S)[x] \in S /\ Linked(S)[x] > x)
  BY <1>1, <1>2
<1>4. ASSUME NEW x \in S, NEW y \in S, x < y, Linked(S)[x] \in S
      PROVE  Linked(S)[x] # Linked(S)[y]
  <2>1. y \in above(x)
    BY <1>4
  <2>2. Linked(S)[x] \in Nat /\ Linked(S)[x] <= y
    BY <1>0, <1>1, <2>1
  <2> QED
    BY <1>0, <1>3, <1>4, <2>2
<1>5. \A x, y \in S : Linked(S)[x] \in S /\ Linked(S)[x] = Linked(S)[y] => x = y
  <2> SUFFICES ASSUME NEW x \in S, NEW y \in S, Linked(S)[x] \in S,
                      Linked(S)[x] = Linked(S)[y], x # y
               PROVE  FALSE
    OBVIOUS
  <2>1. x < y \/ y < x
    BY <1>0
  <2> QED
    BY <1>4, <2>1
<1>6. ASSUME S # {}, NEW x \in S
      PROVE  Linked(S)[x] # Least(S)
  <2>1. Least(S) \in S /\ Least(S) <= x
    BY <1>0, <1>6, LeastFact
  <2>2. CASE Linked(S)[x] = End
    BY <1>0, <2>1, <2>2
  <2>3. CASE Linked(S)[x] \in S /\ Linked(S)[x] > x
    <3>1. x \in Nat /\ Least(S) \in Nat
      BY <1>0, <2>1
    <3> QED
      BY <2>1, <2>3, <3>1
  <2> QED
    BY <1>3, <2>2, <2>3
<1> QED
  BY <1>3, <1>5, <1>6

\* Linking fresh blocks behind the last block of a chain keeps the map sound,
\* puts them in use and leads no link to any other block.
LEMMA ExtendSound ==
    ASSUME NEW m, Sound(m), NEW S \in SUBSET (Blocks \ {0}), \A x \in S : m[x] = Free,
           NEW last \in Blocks,
           last \in S \/ (~IsLink(m[last]) /\ InUse(m[last]))
    PROVE  /\ Sound(Extend(m, last, S))
           /\ \A h : Unlinked(m, h) /\ h \notin S => Unlinked(Extend(m, last, S), h)
           /\ \A x \in S : InUse(Extend(m, last, S)[x])
           /\ \A x \in Blocks : InUse(m[x]) => InUse(Extend(m, last, S)[x])
           /\ \A x \in Blocks \ S : x # last => Extend(m, last, S)[x] = m[x]
           /\ last \in S /\ last = Least(S) => Unlinked(Extend(m, last, S), last)
<1> DEFINE e == Extend(m, last, S)
           l == Linked(S)
<1>1. e = [x \in Blocks |-> IF x \in S THEN l[x]
                            ELSE IF x = last /\ S # {} THEN Least(S)
                            ELSE m[x]]
  BY DEF Extend
<1>2. /\ \A x \in S : l[x] = End \/ l[x] \in S
      /\ \A x, y \in S : l[x] \in S /\ l[x] = l[y] => x = y
      /\ S # {} => \A x \in S : l[x] # Least(S)
  BY LinkedFacts
<1>3. S # {} => Least(S) \in S
  BY LeastFact, WordFacts
<1>4. \A x \in S : IsLink(x) /\ x \in Blocks
  BY DEF IsLink
<1> HIDE DEF l
<1>5. \A x \in S : InUse(l[x]) /\ (IsLink(l[x]) => l[x] \in S)
  BY <1>2, <1>4, WordFacts DEF InUse
<1>6. \A x \in Blocks : IsLink(m[x]) => m[x] \notin S /\ m[x] \in Blocks
  BY WordFacts DEF Sound
<1>7. ASSUME NEW x \in Blocks
      PROVE  \/ x \in S /\ e[x] = l[x]
             \/ x \notin S /\ x = last /\ S # {} /\ e[x] = Least(S) /\ Least(S) \in S
             \/ x \notin S /\ e[x] = m[x]
  BY <1>1, <1>3
<1> HIDE DEF e
<1>8. \A x \in S : InUse(e[x])
  BY <1>1, <1>5
<1>9. \A x \in Blocks : InUse(m[x]) => InUse(e[x])
  BY <1>4, <1>5, <1>7 DEF InUse
<1>10. IsMap(e)
  <2>1. \A x \in S : l[x] \in Words
    BY <1>2, <1>4 DEF Words
  <2>2. \A x \in S : x \in Words
    BY <1>4 DEF Words
  <2>3. \A x \in Blocks : m[x] \in Words
    BY DEF Sound, IsMap
  <2>4. \A x \in Blocks : e[x] \in Words
    BY <1>7, <2>1, <2>2, <2>3
  <2> QED
    BY <1>1, <2>4 DEF IsMap
<1>11. ASSUME NEW x \in Blocks, IsLink(e[x]) PROVE InUse(e[e[x]])
  <2>1. CASE e[x] \in S
    BY <2>1, <1>8
  <2>2. CASE e[x] \notin S
    <3>1. e[x] = m[x] /\ IsLink(m[x]) /\ m[x] \in Blocks
      BY <1>5, <1>6, <1>7, <1>11, <2>2
    <3>2. InUse(m[m[x]])
      BY <3>1 DEF Sound
    <3> QED
      BY <3>1, <3>2, <1>9
  <2> QED
    BY <2>1, <2>2
<1>12. ASSUME NEW x \in Blocks, NEW y \in Blocks, IsLink(e[x]), e[x] = e[y]
       PROVE  x = y
  <2>1. CASE e[x] \in S
    <3>1. \A z \in Blocks : z \notin S /\ e[z] = m[z] => e[z] # e[x]
      BY <1>6, <1>12, <2>1
    <3> QED
      BY <1>2, <1>7, <1>12, <2>1, <3>1
  <2>2. CASE e[x] \notin S
    <3>1. e[x] = m[x] /\ e[y] = m[y]
      BY <1>5, <1>7, <1>12, <2>2
    <3> QED
      BY <3>1, <1>12 DEF Sound
  <2> QED
    BY <2>1, <2>2
<1>13. \A h : Unlinked(m, h) /\ h \notin S => Unlinked(e, h)
  BY <1>5, <1>7 DEF Unlinked
<1>14. last \in S /\ last = Least(S) => Unlinked(e, last)
  BY <1>2, <1>6, <1>7 DEF Unlinked
<1>15. \A x \in Blocks \ S : x # last => e[x] = m[x]
  BY <1>7
<1> QED
  BY <1>8, <1>9, <1>10, <1>11, <1>12, <1>13, <1>14, <1>15 DEF Sound, e

\* The blocks the allocator hands out are free and usable.
LEMMA LowestFree ==
    ASSUME NEW m, NEW lo, NEW k
    PROVE  /\ Lowest(FreeFrom(m, lo), k) \in SUBSET (Blocks \ {0})
           /\ \A x \in Lowest(FreeFrom(m, lo), k) : m[x] = Free
<1>1. Lowest(FreeFrom(m, lo), k) \subseteq FreeFrom(m, lo)
  BY DEF Lowest
<1>2. ~(0 >= FirstUsable)
  BY SizeAssumption
<1> QED
  BY <1>1, <1>2 DEF FreeFrom

\* set_chain_data on the chain of b, whether it finds all the blocks it needs
\* or not, keeps the map sound; it neither frees nor leads a link to a block
\* that starts another chain.
LEMMA ResizeSound ==
    ASSUME NEW m, Sound(m), NEW b \in Blocks, Unlinked(m, b), InUse(m[b]),
           NEW k \in Nat \ {0}, NEW lo
    PROVE  /\ Sound(Resize(m, b, k, lo))
           /\ \A h \in Blocks : Unlinked(m, h) /\ m[h] # Free =>
                 /\ Unlinked(Resize(m, b, k, lo), h)
                 /\ Resize(m, b, k, lo)[h] # Free
                 /\ InUse(m[h]) => InUse(Resize(m, b, k, lo)[h])
<1> DEFINE C == Chain(m, b)
<1>1. /\ C \subseteq Blocks /\ IsFiniteSet(C) /\ Cardinality(C) \in Nat
      /\ \A x \in C : InUse(m[x])
      /\ \A x \in C : x # b => \E y \in C : IsLink(m[y]) /\ m[y] = x
  BY ChainFacts, ChainInUse, PositionStep DEF Sound
<1>2. CASE Cardinality(C) <= k
  <2> DEFINE S == Growth(m, b, k, lo)
             last == LastOf(m, b)
  <2>1. S \in SUBSET (Blocks \ {0}) /\ \A x \in S : m[x] = Free
    <3>1. CASE Cardinality(C) < k
      BY <3>1, LowestFree DEF Growth
    <3>2. CASE ~(Cardinality(C) < k)
      BY <3>2 DEF Growth
    <3> QED
      BY <3>1, <3>2
  <2>2. last \in Blocks /\ ~IsLink(m[last]) /\ InUse(m[last])
    BY <1>1, LastExists
  <2>3. Resize(m, b, k, lo) = Extend(m, last, S)
    BY <1>2 DEF Resize
  <2> HIDE DEF S, last
  <2>4. /\ Sound(Extend(m, last, S))
        /\ \A h : Unlinked(m, h) /\ h \notin S => Unlinked(Extend(m, last, S), h)
        /\ \A x \in Blocks : InUse(m[x]) => InUse(Extend(m, last, S)[x])
        /\ \A x \in Blocks \ S : x # last => Extend(m, last, S)[x] = m[x]
    BY <2>1, <2>2, ExtendSound
  <2>5. ASSUME NEW h \in Blocks, m[h] # Free
        PROVE  Extend(m, last, S)[h] # Free
    <3>1. h \notin S
      BY <2>1, <2>5
    <3>2. CASE h = last
      BY <2>2, <2>4, <3>2, WordFacts
    <3> QED
      BY <2>4, <2>5, <3>1, <3>2
  <2> QED
    BY <2>1, <2>3, <2>4, <2>5
<1>3. CASE ~(Cardinality(C) <= k)
  <2> DEFINE tail == Nth(m, b, k + 1)
             kth  == CHOOSE x \in C : m[x] = tail
  <2>1. k + 1 \in 1..Cardinality(C)
    BY <1>1, <1>3
  <2>2. tail \in C /\ Position(m, b, tail) = k + 1
    BY <2>1, NthExists
  <2>3. tail # b
    BY <2>2, PositionStep
  <2>4. kth \in C /\ IsLink(m[kth]) /\ m[kth] = tail
    BY <1>1, <2>2, <2>3
  <2>5. Resize(m, b, k, lo) = Cut(m, kth, m[kth])
    BY <1>3, <2>4 DEF Resize
  <2> HIDE DEF kth
  <2>6. kth \in Blocks
    BY <1>1, <2>4
  <2>7. /\ Sound(Cut(m, kth, m[kth]))
        /\ \A h : Unlinked(m, h) => Unlinked(Cut(m, kth, m[kth]), h)
        /\ \A h \in Blocks : Unlinked(m, h) =>
              Cut(m, kth, m[kth])[h] = IF h = kth THEN End ELSE m[h]
    BY <2>4, <2>6, CutSound
  <2> QED
    BY <2>5, <2>7, WordFacts
<1> QED
  BY <1>2, <1>3

-----------------------------------------------------------------------------
(* What the operators do to one chain: chains the operator does not touch  *)
(* stay block for block, a chain that grows keeps its blocks at their      *)
(* places and gets the new ones behind them, a chain that is cut keeps     *)
(* exactly as many blocks as were asked for, and the allocator gives every *)
(* block it is asked for or all it has.                                    *)

\* A map that agrees with m on the chain of h has the same chain there, block
\* for block and place for place.
LEMMA ChainSame ==
    ASSUME NEW m, IsMap(m), NEW n, IsMap(n), NEW h \in Blocks,
           \A x \in Chain(m, h) : n[x] = m[x]
    PROVE  /\ Chain(n, h) = Chain(m, h)
           /\ \A x \in Chain(m, h) : Chain(n, x) = Chain(m, x)
           /\ \A x \in Chain(m, h) : Position(n, h, x) = Position(m, h, x)
<1>1. ASSUME NEW x \in Blocks, \A y \in Chain(m, x) : n[y] = m[y]
      PROVE  Chain(n, x) = Chain(m, x)
  <2> DEFINE C == Chain(m, x)
             D == Chain(n, x)
  <2>1. /\ x \in C /\ Closed(m, C)
        /\ \A S : x \in S /\ Closed(m, S) => C \subseteq S
    BY ChainFacts
  <2>2. /\ x \in D /\ Closed(n, D)
        /\ \A S : x \in S /\ Closed(n, S) => D \subseteq S
    BY ChainFacts
  <2>3. Closed(n, C)
    BY <1>1, <2>1 DEF Closed
  <2>4. D \subseteq C
    BY <2>1, <2>2, <2>3
  <2>5. Closed(m, D)
    BY <1>1, <2>2, <2>4 DEF Closed
  <2> QED
    BY <2>1, <2>2, <2>4, <2>5
<1>2. Chain(n, h) = Chain(m, h)
  BY <1>1
<1>3. ASSUME NEW x \in Chain(m, h)
      PROVE  Chain(n, x) = Chain(m, x)
  <2>1. x \in Blocks /\ Closed(m, Chain(m, h))
    BY <1>3, ChainFacts
  <2>2. Chain(m, x) \subseteq Chain(m, h)
    BY <1>3, <2>1, ChainFacts
  <2> QED
    BY <1>1, <2>1, <2>2
<1> QED
  BY <1>2, <1>3 DEF Position

\* The chain of a block of a chain is a part of it.
LEMMA ChainInside ==
    ASSUME NEW m, IsMap(m), NEW h \in Blocks, NEW x \in Chain(m, h)
    PROVE  Chain(m, x) \subseteq Chain(m, h)
<1>1. x \in Blocks /\ Closed(m, Chain(m, h))
  BY ChainFacts
<1> QED
  BY <1>1, ChainFacts

\* From every block of a chain the walk comes to the chain's last block.
LEMMA LastReached ==
    ASSUME NEW m, Sound(m), NEW h \in Blocks, Unlinked(m, h), NEW x \in Chain(m, h)
    PROVE  LastOf(m, h) \in Chain(m, x)
<1> DEFINE C == Chain(m, h)
           last == LastOf(m, h)
           T == {y \in C : last \in Chain(m, y)}
<1>1. IsMap(m)
  BY DEF Sound
<1>2. /\ h \in C /\ C \subseteq Blocks /\ Closed(m, C)
      /\ \A S : h \in S /\ Closed(m, S) => C \subseteq S
  BY <1>1, ChainFacts
<1>3. last \in C /\ ~IsLink(m[last])
  BY LastExists
<1> HIDE DEF last
<1>4. ASSUME NEW y \in T, IsLink(m[y]) PROVE m[y] \in T
  <2>1. Chain(m, y) = {y} \cup Chain(m, m[y])
    BY <1>1, <1>2, <1>4, ChainStep
  <2>2. y # last
    BY <1>3, <1>4
  <2>3. m[y] \in C
    BY <1>2, <1>4 DEF Closed
  <2> QED
    BY <1>4, <2>1, <2>2, <2>3
<1>5. Closed(m, T)
  BY <1>4 DEF Closed
<1>6. C \subseteq T
  BY <1>2, <1>3, <1>5
<1> QED
  BY <1>6 DEF last

\* A chain has one last block.
LEMMA LastUnique ==
    ASSUME NEW m, Sound(m), NEW h \in Blocks, Unlinked(m, h),
           NEW x \in Chain(m, h), ~IsLink(m[x])
    PROVE  x = LastOf(m, h)
<1>1. x \in Blocks
  BY ChainFacts DEF Sound
<1>2. Chain(m, x) = {x}
  BY <1>1, ChainStep DEF Sound
<1> QED
  BY <1>2, LastReached

-----------------------------------------------------------------------------
(* Growing. *)

\* A set that holds the lowest fresh block and follows their links holds them
\* all.
LEMMA LinkedReach ==
    ASSUME NEW S \in SUBSET (Blocks \ {0}), NEW Z, S # {}, Least(S) \in Z,
           \A x \in S \cap Z : Linked(S)[x] \in S => Linked(S)[x] \in Z
    PROVE  S \subseteq Z
<1>0. S \subseteq Nat /\ IsFiniteSet(S)
  BY WordFacts, FS_Subset
<1> SUFFICES ASSUME S \ Z # {} PROVE FALSE
  OBVIOUS
<1> DEFINE t == Least(S \ Z)
           B == {x \in S : x < t}
           a == Least(S)
           T == B \ {a}
           f == [x \in B |-> Linked(S)[x]]
<1>1. t \in S /\ t \notin Z /\ t \in Nat /\ \A x \in S : x < t => x \in Z
  <2>1. S \ Z \subseteq Nat
    BY <1>0
  <2>2. t \in S \ Z /\ \A y \in S \ Z : t <= y
    BY <2>1, LeastFact
  <2>3. t \in S /\ t \notin Z /\ \A y \in S : y \notin Z => t <= y
    BY <2>2
  <2> HIDE DEF t
  <2>4. t \in Nat /\ \A y \in S : y \in Nat
    BY <1>0, <2>3
  <2> QED
    BY <2>3, <2>4
<1>2. a \in S /\ \A y \in S : a <= y
  BY <1>0, LeastFact
<1> HIDE DEF t, a
<1>3. a \in B
  <2>1. a \in Z
    BY DEF a
  <2>2. a \in Nat /\ a <= t /\ a # t
    BY <1>0, <1>1, <1>2, <2>1
  <2> QED
    BY <1>1, <1>2, <2>2
<1>4. ASSUME NEW x \in B PROVE Linked(S)[x] \in T
  <2> DEFINE above == {y \in S : y > x}
  <2>1. t \in above /\ above \subseteq Nat /\ x \in Nat
    BY <1>0, <1>1, <1>4
  <2>2. Least(above) \in above /\ Least(above) <= t
    BY <2>1, LeastFact
  <2>3. Linked(S)[x] = Least(above)
    BY <1>4, <2>1 DEF Linked
  <2>4. Linked(S)[x] \in S /\ Linked(S)[x] <= t /\ Linked(S)[x] \in Nat
    BY <2>1, <2>2, <2>3
  <2>5. Linked(S)[x] \in Z
    BY <1>1, <1>4, <2>4
  <2>6. Linked(S)[x] # t /\ t \in Nat
    BY <1>1, <2>5
  <2>7. Linked(S)[x] # a
    BY <1>4, LinkedFacts DEF a
  <2>8. Linked(S)[x] < t
    BY <2>4, <2>6
  <2> QED
    BY <2>4, <2>7, <2>8
<1>5. IsFiniteSet(B) /\ IsFiniteSet(T) /\ Cardinality(T) < Cardinality(B)
  <2>1. IsFiniteSet(B)
    BY <1>0, FS_Subset
  <2>2. Cardinality(B) \in Nat
    BY <2>1, FS_CardinalityType
  <2>3. IsFiniteSet(T) /\ Cardinality(T) = Cardinality(B) - 1
    BY <1>3, <2>1, FS_RemoveElement
  <2> QED
    BY <2>1, <2>2, <2>3
<1>6. f \in [B -> T]
  BY <1>4
<1>7. \E x, y \in B : x # y /\ f[x] = f[y]
  <2> HIDE DEF B, T, f
  <2> QED
    BY <1>5, <1>6, FS_PigeonHole
<1>8. PICK x \in B, y \in B : x # y /\ Linked(S)[x] = Linked(S)[y]
  BY <1>7
<1>9. Linked(S)[x] \in S /\ x \in S /\ y \in S
  BY <1>4
<1> QED
  BY <1>8, <1>9, LinkedFacts

\* The words of a map after Extend.
LEMMA ExtendWords ==
    ASSUME NEW m, Sound(m), NEW S \in SUBSET (Blocks \ {0}), \A x \in S : m[x] = Free,
           NEW last \in Blocks,
           last \in S \/ (~IsLink(m[last]) /\ InUse(m[last]))
    PROVE  LET n == Extend(m, last, S) IN
           /\ Sound(n)
           /\ \A x \in S : n[x] = Linked(S)[x] /\ (IsLink(n[x]) => n[x] \in S)
           /\ last \notin S /\ S # {} => n[last] = Least(S) /\ IsLink(n[last])
           /\ \A x \in Blocks : x \notin S /\ (x # last \/ S = {}) => n[x] = m[x]
           /\ S # {} => Least(S) \in S
<1> DEFINE n == Extend(m, last, S)
<1>1. Sound(n)
  BY ExtendSound
<1>2. n = [x \in Blocks |-> IF x \in S THEN Linked(S)[x]
                            ELSE IF x = last /\ S # {} THEN Least(S)
                            ELSE m[x]]
  BY DEF Extend
<1>3. \A x \in S : Linked(S)[x] = End \/ Linked(S)[x] \in S
  BY LinkedFacts
<1>4. S # {} => Least(S) \in S
  BY LeastFact, WordFacts
<1>5. \A x \in S : x \in Blocks /\ IsLink(x)
  BY DEF IsLink
<1> HIDE DEF n
<1>6. \A x \in S : n[x] = Linked(S)[x]
  BY <1>2, <1>5
<1>7. \A x \in S : IsLink(n[x]) => n[x] \in S
  BY <1>3, <1>6, WordFacts
<1>8. last \notin S /\ S # {} => n[last] = Least(S)
  BY <1>2
<1>9. \A x \in Blocks : x \notin S /\ (x # last \/ S = {}) => n[x] = m[x]
  BY <1>2
<1> QED
  BY <1>1, <1>4, <1>5, <1>6, <1>7, <1>8, <1>9 DEF n

\* A chain that grows gets all the new blocks, behind the ones it has.
LEMMA ExtendChain ==
    ASSUME NEW m, Sound(m), NEW h \in Blocks, Unlinked(m, h), InUse(m[h]),
           NEW S \in SUBSET (Blocks \ {0}), \A x \in S : m[x] = Free
    PROVE  LET n == Extend(m, LastOf(m, h), S) IN
           /\ \A x \in Chain(m, h) : Chain(n, x) = Chain(m, x) \cup S
           /\ \A x \in S : Chain(n, x) \subseteq S
<1> DEFINE last == LastOf(m, h)
           n == Extend(m, last, S)
           C == Chain(m, h)
<1>0. IsMap(m)
  BY DEF Sound
<1>1. last \in C /\ ~IsLink(m[last])
  BY LastExists
<1>2. C \subseteq Blocks /\ \A x \in C : InUse(m[x])
  BY <1>0, ChainFacts, ChainInUse
<1>3. \A x \in C : x \notin S
  BY <1>2, WordFacts
<1>4. last \in Blocks /\ InUse(m[last]) /\ last \notin S
  BY <1>1, <1>2, <1>3
<1> HIDE DEF last
<1>5. /\ Sound(n)
      /\ \A x \in S : n[x] = Linked(S)[x] /\ (IsLink(n[x]) => n[x] \in S)
      /\ S # {} => n[last] = Least(S) /\ IsLink(n[last])
      /\ \A x \in Blocks : x \notin S /\ (x # last \/ S = {}) => n[x] = m[x]
      /\ S # {} => Least(S) \in S
  BY <1>1, <1>4, ExtendWords
<1>6. IsMap(n)
  BY <1>5 DEF Sound
<1> HIDE DEF n
<1>7. ASSUME NEW x \in C PROVE Chain(n, x) = Chain(m, x) \cup S
  <2> DEFINE X == Chain(m, x)
             Z == Chain(n, x)
  <2>1. /\ x \in X /\ Closed(m, X) /\ X \subseteq C
        /\ \A Q : x \in Q /\ Closed(m, Q) => X \subseteq Q
    BY <1>0, <1>2, ChainFacts, ChainInside
  <2>2. /\ x \in Z /\ Closed(n, Z)
        /\ \A Q : x \in Q /\ Closed(n, Q) => Z \subseteq Q
    BY <1>2, <1>6, ChainFacts
  <2>3. last \in X
    BY LastReached DEF last
  <2> HIDE DEF X, Z
  <2>4. Z \subseteq X \cup S
    <3>1. ASSUME NEW y \in X \cup S, IsLink(n[y]) PROVE n[y] \in X \cup S
      <4>1. CASE y \in S
        BY <1>5, <3>1, <4>1
      <4>2. CASE y \notin S /\ y = last /\ S # {}
        BY <1>5, <4>2
      <4>3. CASE y \notin S /\ (y # last \/ S = {})
        <5>1. n[y] = m[y] /\ y \in X
          BY <1>2, <1>5, <2>1, <3>1, <4>3
        <5> QED
          BY <2>1, <3>1, <5>1 DEF Closed
      <4> QED
        BY <4>1, <4>2, <4>3
    <3>2. Closed(n, X \cup S)
      BY <3>1 DEF Closed
    <3> QED
      BY <2>1, <2>2, <3>2
  <2>5. X \subseteq Z
    <3>1. ASSUME NEW y \in X, y \in Z, IsLink(m[y]) PROVE m[y] \in X /\ m[y] \in Z
      <4>1. y # last /\ y \notin S /\ y \in Blocks
        BY <1>1, <1>2, <1>3, <2>1, <3>1
      <4>2. n[y] = m[y]
        BY <1>5, <4>1
      <4> QED
        BY <2>1, <2>2, <3>1, <4>2 DEF Closed
    <3>2. Closed(m, X \cap Z)
      BY <3>1 DEF Closed
    <3> QED
      BY <2>1, <2>2, <3>2
  <2>6. S \subseteq Z
    <3>1. CASE S = {}
      BY <3>1
    <3>2. CASE S # {}
      <4>1. Least(S) \in Z
        BY <1>5, <2>2, <2>3, <2>5, <3>2 DEF Closed
      <4>2. \A y \in S \cap Z : Linked(S)[y] \in S => Linked(S)[y] \in Z
        <5>1. \A y \in S : IsLink(y)
          BY DEF IsLink
        <5> QED
          BY <1>5, <2>2, <5>1 DEF Closed
      <4> QED
        BY <3>2, <4>1, <4>2, LinkedReach
    <3> QED
      BY <3>1, <3>2
  <2> QED
    BY <2>4, <2>5, <2>6 DEF X, Z
<1>8. ASSUME NEW x \in S PROVE Chain(n, x) \subseteq S
  <2>1. Closed(n, S)
    BY <1>5 DEF Closed
  <2> QED
    BY <1>6, <2>1, ChainFacts
<1> QED
  BY <1>7, <1>8 DEF n, last

\* Every block of a chain that grows keeps its place; the new ones come after.
LEMMA ExtendPlaces ==
    ASSUME NEW m, Sound(m), NEW h \in Blocks, Unlinked(m, h), InUse(m[h]),
           NEW S \in SUBSET (Blocks \ {0}), \A x \in S : m[x] = Free
    PROVE  LET n == Extend(m, LastOf(m, h), S) IN
           /\ Chain(n, h) = Chain(m, h) \cup S
           /\ Cardinality(Chain(n, h)) = Cardinality(Chain(m, h)) + Cardinality(S)
           /\ \A x \in Chain(m, h) : Position(n, h, x) = Position(m, h, x)
           /\ \A x \in S : Position(n, h, x) \in Int
                           /\ Position(n, h, x) > Cardinality(Chain(m, h))
<1> DEFINE n == Extend(m, LastOf(m, h), S)
           C == Chain(m, h)
<1>0. IsMap(m)
  BY DEF Sound
<1>1. /\ \A x \in C : Chain(n, x) = Chain(m, x) \cup S
      /\ \A x \in S : Chain(n, x) \subseteq S
  BY ExtendChain
<1>2. h \in C /\ C \subseteq Blocks /\ C \cap S = {}
  <2>1. h \in C /\ C \subseteq Blocks
    BY <1>0, ChainFacts
  <2>2. \A x \in C : InUse(m[x])
    BY ChainInUse
  <2> QED
    BY <2>1, <2>2, WordFacts
<1>3. IsFiniteSet(S) /\ Cardinality(S) \in Nat
  BY WordFacts, FS_Subset, FS_CardinalityType
<1> HIDE DEF n
<1>4. ASSUME NEW x \in C
      PROVE  /\ IsFiniteSet(Chain(m, x)) /\ Cardinality(Chain(m, x)) \in Nat
             /\ Cardinality(Chain(n, x)) = Cardinality(Chain(m, x)) + Cardinality(S)
  <2>1. Chain(m, x) \subseteq C
    BY <1>0, ChainInside
  <2>2. IsFiniteSet(Chain(m, x)) /\ Cardinality(Chain(m, x)) \in Nat
    BY <1>2, <2>1, WordFacts, FS_Subset, FS_CardinalityType
  <2>3. Chain(m, x) \cap S = {} /\ Cardinality({}) = 0
    BY <1>2, <2>1, FS_EmptySet
  <2>4. Cardinality(Chain(m, x) \cup S)
           = Cardinality(Chain(m, x)) + Cardinality(S) - Cardinality(Chain(m, x) \cap S)
    BY <1>3, <2>2, FS_Union
  <2>5. Cardinality(Chain(m, x) \cap S) = 0
    BY <2>3
  <2>6. Cardinality(Chain(m, x) \cup S) = Cardinality(Chain(m, x)) + Cardinality(S)
    BY <1>3, <2>2, <2>4, <2>5
  <2> QED
    BY <1>1, <2>2, <2>6
<1>5. \A x \in C : Position(n, h, x) = Position(m, h, x)
  <2> SUFFICES ASSUME NEW x \in C PROVE Position(n, h, x) = Position(m, h, x)
    OBVIOUS
  <2>1. /\ Cardinality(Chain(m, x)) \in Nat /\ Cardinality(C) \in Nat
        /\ Cardinality(Chain(n, x)) = Cardinality(Chain(m, x)) + Cardinality(S)
        /\ Cardinality(Chain(n, h)) = Cardinality(C) + Cardinality(S)
    BY <1>2, <1>4
  <2> QED
    BY <1>3, <2>1 DEF Position
<1>6. ASSUME NEW x \in S
      PROVE  Position(n, h, x) \in Int /\ Position(n, h, x) > Cardinality(C)
  <2>1. Chain(n, x) \in SUBSET S
    BY <1>1
  <2>2. Cardinality(Chain(n, x)) \in Nat /\ Cardinality(Chain(n, x)) <= Cardinality(S)
    BY <1>3, <2>1, FS_Subset, FS_CardinalityType
  <2>3. Cardinality(C) \in Nat /\ Cardinality(Chain(n, h)) = Cardinality(C) + Cardinality(S)
    BY <1>2, <1>4
  <2> QED
    BY <1>3, <2>2, <2>3 DEF Position
<1> QED
  BY <1>1, <1>2, <1>4, <1>5, <1>6 DEF n

\* A chain made of fresh blocks alone is exactly those blocks.
LEMMA FreshChain ==
    ASSUME NEW m, Sound(m), NEW S \in SUBSET (Blocks \ {0}), \A x \in S : m[x] = Free,
           S # {}
    PROVE  Chain(Extend(m, Least(S), S), Least(S)) = S
<1> DEFINE a == Least(S)
           n == Extend(m, a, S)
           Z == Chain(n, a)
<1>1. a \in S /\ a \in Blocks
  BY LeastFact, WordFacts
<1> HIDE DEF a
<1>2. Sound(n) /\ \A x \in S : n[x] = Linked(S)[x] /\ (IsLink(n[x]) => n[x] \in S)
  BY <1>1, ExtendWords
<1> HIDE DEF n
<1>3. /\ a \in Z /\ Closed(n, Z)
      /\ \A Q : a \in Q /\ Closed(n, Q) => Z \subseteq Q
  BY <1>1, <1>2, ChainFacts DEF Sound
<1>4. Z \subseteq S
  <2>1. Closed(n, S)
    BY <1>2 DEF Closed
  <2> QED
    BY <1>1, <1>3, <2>1
<1> HIDE DEF Z
<1>5. \A y \in S \cap Z : Linked(S)[y] \in S => Linked(S)[y] \in Z
  <2>1. \A y \in S : IsLink(y)
    BY DEF IsLink
  <2> QED
    BY <1>2, <1>3, <2>1 DEF Closed
<1>6. S \subseteq Z
  BY <1>3, <1>5, LinkedReach DEF a
<1> QED
  BY <1>4, <1>6 DEF Z, n, a

-----------------------------------------------------------------------------
(* Cutting. *)

\* A chain cut behind kth keeps exactly the blocks the walk from the next one
\* does not come to.
LEMMA CutChain ==
    ASSUME NEW m, Sound(m), NEW h \in Blocks, Unlinked(m, h),
           NEW kth \in Chain(m, h), IsLink(m[kth])
    PROVE  LET n == Cut(m, kth, m[kth])
               F == Chain(m, m[kth])
           IN  /\ Chain(n, h) = Chain(m, h) \ F
               /\ F \subseteq Chain(m, h)
               /\ Cardinality(Chain(n, h)) = Position(m, h, m[kth]) - 1
               /\ \A x \in Blocks : x # kth /\ x \notin F => n[x] = m[x]
               /\ \A x \in F : n[x] = Free
               /\ n[kth] = End
<1> DEFINE tail == m[kth]
           F == Chain(m, tail)
           C == Chain(m, h)
           n == Cut(m, kth, tail)
           Z == Chain(n, h)
<1>0. IsMap(m) /\ kth \in Blocks /\ tail \in Blocks
  BY ChainFacts, WordFacts DEF Sound
<1>1. /\ h \in C /\ C \subseteq Blocks /\ Closed(m, C)
      /\ \A Q : h \in Q /\ Closed(m, Q) => C \subseteq Q
  BY <1>0, ChainFacts
<1>2. tail \in C /\ F \subseteq C /\ tail \in F /\ Closed(m, F)
  <2>1. tail \in C
    BY <1>1 DEF Closed
  <2> QED
    BY <1>0, <2>1, ChainInside, ChainFacts
<1>3. kth \notin F
  BY NoCycle
<1>4. h \notin F
  <2>1. h # tail
    BY <1>0 DEF Unlinked
  <2>2. h # tail /\ h \in F => \E y \in F : IsLink(m[y]) /\ m[y] = h
    BY <1>0, ChainFacts
  <2>3. \A y \in F : y \in Blocks
    BY <1>1, <1>2
  <2> QED
    BY <2>1, <2>2, <2>3 DEF Unlinked
<1>5. n = [x \in Blocks |-> IF x = kth THEN End ELSE IF x \in F THEN Free ELSE m[x]]
  BY DEF Cut
<1>6. Sound(n)
  BY <1>0, CutSound
<1>7. ASSUME NEW x \in C, x \notin F, x # kth, IsLink(m[x])
      PROVE  m[x] \in C /\ m[x] \notin F
  <2>1. x \in Blocks /\ m[x] \in C
    BY <1>1, <1>7 DEF Closed
  <2>2. m[x] # tail
    BY <1>0, <1>7, <2>1 DEF Sound
  <2>3. m[x] \in F => x \in F
    BY <1>0, <1>7, <2>1, <2>2, ChainEntered
  <2> QED
    BY <1>7, <2>1, <2>3
<1>8. /\ \A x \in Blocks : x # kth /\ x \notin F => n[x] = m[x]
      /\ \A x \in F : n[x] = Free
      /\ n[kth] = End
  BY <1>0, <1>1, <1>2, <1>3, <1>5
<1> HIDE DEF n, F
<1>9. Z \subseteq C \ F
  <2>1. ASSUME NEW x \in C \ F, IsLink(n[x]) PROVE n[x] \in C \ F
    <3>1. x \in Blocks /\ x # kth
      BY <1>1, <1>8, <2>1, WordFacts
    <3>2. n[x] = m[x]
      BY <1>8, <2>1, <3>1
    <3> QED
      BY <1>7, <2>1, <3>1, <3>2
  <2>2. Closed(n, C \ F)
    BY <2>1 DEF Closed
  <2> QED
    BY <1>1, <1>4, <1>6, <2>2, ChainFacts DEF Sound
<1>10. C \ F \subseteq Z
  <2>1. h \in Z /\ Closed(n, Z)
    BY <1>6, ChainFacts DEF Sound
  <2>2. ASSUME NEW x \in Z \cup F, IsLink(m[x]) PROVE m[x] \in Z \cup F
    <3>1. CASE x \in F
      BY <1>2, <2>2, <3>1 DEF Closed
    <3>2. CASE x = kth
      BY <1>2, <3>2
    <3>3. CASE x \notin F /\ x # kth
      <4>1. x \in Z /\ x \in Blocks
        BY <1>1, <1>9, <2>2, <3>3
      <4>2. n[x] = m[x]
        BY <1>8, <3>3, <4>1
      <4> QED
        BY <2>1, <2>2, <4>1, <4>2 DEF Closed
    <3> QED
      BY <3>1, <3>2, <3>3
  <2>3. Closed(m, Z \cup F)
    BY <2>2 DEF Closed
  <2> QED
    BY <1>1, <2>1, <2>3
<1>11. Cardinality(C \ F) = Position(m, h, tail) - 1
  <2>1. IsFiniteSet(C) /\ Cardinality(C) \in Nat
    BY PositionStep
  <2>2. IsFiniteSet(F) /\ Cardinality(F) \in Nat
    BY <1>2, <2>1, FS_Subset, FS_CardinalityType
  <2>3. C \cap F = F
    BY <1>2
  <2>4. Cardinality(C \ F) = Cardinality(C) - Cardinality(F)
    BY <2>1, <2>3, FS_Difference
  <2>5. Position(m, h, tail) = Cardinality(C) - Cardinality(F) + 1
    BY DEF Position, F
  <2> HIDE DEF C
  <2> QED
    BY <2>1, <2>2, <2>4, <2>5
<1> QED
  BY <1>2, <1>8, <1>9, <1>10, <1>11 DEF n, F

-----------------------------------------------------------------------------
(* Allocating and resizing. *)

\* The allocator hands out as many blocks as it is asked for, or all it has.
LEMMA LowestCount ==
    ASSUME NEW S \in SUBSET Blocks, NEW k \in Nat,
           Cardinality(Lowest(S, k)) < k
    PROVE  Lowest(S, k) = S
<1> DEFINE L == Lowest(S, k)
           below(x) == {y \in S : y < x}
<1>0. S \subseteq Nat /\ IsFiniteSet(S)
  BY WordFacts, FS_Subset
<1>1. L = {x \in S : Cardinality(below(x)) < k}
  BY DEF Lowest
<1> SUFFICES ASSUME S \ L # {} PROVE FALSE
  BY <1>1
<1> DEFINE t == Least(S \ L)
<1>2. t \in S /\ t \notin L /\ \A y \in S \ L : t <= y
  <2>1. S \ L \subseteq Nat
    BY <1>0
  <2> QED
    BY <2>1, LeastFact
<1> HIDE DEF t
<1>3. below(t) \subseteq L
  <2>1. \A y \in S : y \in Nat
    BY <1>0
  <2>2. t \in Nat
    BY <1>2, <2>1
  <2> SUFFICES ASSUME NEW y \in S, y < t, y \notin L PROVE FALSE
    OBVIOUS
  <2>3. t <= y /\ y \in Nat
    BY <1>2, <2>1
  <2> QED
    BY <2>2, <2>3
<1>4. ~(Cardinality(below(t)) < k)
  BY <1>1, <1>2
<1>5. IsFiniteSet(L) /\ Cardinality(L) \in Nat
  BY <1>0, <1>1, FS_Subset, FS_CardinalityType
<1>6. Cardinality(below(t)) <= Cardinality(L) /\ Cardinality(below(t)) \in Nat
  <2> HIDE DEF L, below
  <2> QED
    BY <1>3, <1>5, FS_Subset, FS_CardinalityType
<1> HIDE DEF below
<1> QED
  BY <1>4, <1>5, <1>6

\* What set_chain_data does to the chain of b that it brings to k blocks.
ResizeOK(m, b, k, lo) ==
    LET r == Resize(m, b, k, lo)
        C == Chain(m, b)
    IN  \* it keeps the words of all other chains and of the protected blocks,
        /\ \A x \in Blocks : x \notin C /\ m[x] # Free => r[x] = m[x]
        \* no block comes into use or stays in it off the chain,
        /\ \A x \in Blocks : InUse(r[x]) =>
              x \in Chain(r, b) \/ (x \notin C /\ r[x] = m[x])
        \* it has k blocks when it succeeds,
        /\ CanResize(m, b, k, lo) => Cardinality(Chain(r, b)) >= k
        \* and when it fails no block is free, none of its blocks has moved
        \* and the new ones come after them.
        /\ ~CanResize(m, b, k, lo) =>
              /\ FreeFrom(r, lo) = {}
              /\ Cardinality(C) < k
              /\ Cardinality(Chain(r, b)) >= Cardinality(C)
              /\ \A x \in C : Position(r, b, x) = Position(m, b, x)
              /\ \A x \in Chain(r, b) : x \in C \/ Position(r, b, x) > Cardinality(C)

LEMMA ResizeFacts ==
    ASSUME NEW m, Sound(m), NEW b \in Blocks, Unlinked(m, b), InUse(m[b]),
           NEW k \in Nat \ {0}, NEW lo
    PROVE  ResizeOK(m, b, k, lo)
<1> DEFINE C == Chain(m, b)
           r == Resize(m, b, k, lo)
           G == Growth(m, b, k, lo)
<1>1. /\ IsMap(m) /\ C \subseteq Blocks /\ IsFiniteSet(C) /\ Cardinality(C) \in Nat \ {0}
      /\ \A x \in C : InUse(m[x])
  BY ChainFacts, ChainInUse, PositionStep DEF Sound
<1>2. G \in SUBSET (Blocks \ {0}) /\ \A x \in G : m[x] = Free
  <2>1. CASE Cardinality(C) < k
    BY <2>1, LowestFree DEF Growth
  <2>2. CASE ~(Cardinality(C) < k)
    BY <2>2 DEF Growth
  <2> QED
    BY <2>1, <2>2
<1>3. IsFiniteSet(G) /\ Cardinality(G) \in Nat
  BY <1>2, WordFacts, FS_Subset, FS_CardinalityType
<1>4. CanResize(m, b, k, lo) <=> k <= Cardinality(C) + Cardinality(G)
  BY DEF CanResize
<1>5. CASE Cardinality(C) <= k
  <2> DEFINE last == LastOf(m, b)
  <2>1. r = Extend(m, last, G)
    BY <1>5 DEF Resize
  <2>2. last \in C /\ ~IsLink(m[last]) /\ last \in Blocks /\ InUse(m[last])
    BY <1>1, LastExists
  <2> HIDE DEF G
  <2>3. /\ Sound(r)
        /\ \A x \in G : InUse(r[x])
        /\ \A x \in Blocks : InUse(m[x]) => InUse(r[x])
        /\ \A x \in Blocks \ G : x # last => r[x] = m[x]
    BY <1>2, <2>1, <2>2, ExtendSound
  <2>4. /\ Chain(r, b) = C \cup G
        /\ Cardinality(Chain(r, b)) = Cardinality(C) + Cardinality(G)
        /\ \A x \in C : Position(r, b, x) = Position(m, b, x)
        /\ \A x \in G : Position(r, b, x) > Cardinality(C)
    BY <1>2, <2>1, ExtendPlaces
  <2> HIDE DEF last, r
  <2>5. \A x \in Blocks : x \notin C /\ m[x] # Free => r[x] = m[x]
    BY <1>2, <2>2, <2>3
  <2>6. \A x \in Blocks : InUse(r[x]) => x \in Chain(r, b) \/ (x \notin C /\ r[x] = m[x])
    BY <2>2, <2>3, <2>4
  <2>7. Cardinality(Chain(r, b)) \in Nat /\ Cardinality(Chain(r, b)) >= Cardinality(C)
    BY <1>1, <1>3, <2>4
  <2>8. ASSUME ~(k <= Cardinality(C) + Cardinality(G))
        PROVE  FreeFrom(r, lo) = {} /\ Cardinality(C) < k
    <3>1. Cardinality(C) < k
      BY <1>1, <1>3, <2>8
    <3>2. G = Lowest(FreeFrom(m, lo), k - Cardinality(C))
      BY <3>1 DEF Growth, G
    <3>3. k - Cardinality(C) \in Nat /\ Cardinality(G) < k - Cardinality(C)
      BY <1>1, <1>3, <2>8, <3>1
    <3>4. G = FreeFrom(m, lo)
      <4>1. FreeFrom(m, lo) \in SUBSET Blocks
        BY DEF FreeFrom
      <4> DEFINE j == k - Cardinality(C)
      <4>2. j \in Nat /\ Cardinality(Lowest(FreeFrom(m, lo), j)) < j
        BY <3>2, <3>3
      <4> HIDE DEF j
      <4>3. Lowest(FreeFrom(m, lo), j) = FreeFrom(m, lo)
        BY <4>1, <4>2, LowestCount
      <4> QED
        BY <3>2, <4>3 DEF j
    <3>5. \A x \in Blocks : r[x] = Free => m[x] = Free /\ x \notin G
      BY <2>2, <2>3, WordFacts
    <3>6. FreeFrom(r, lo) \subseteq FreeFrom(m, lo) \ G
      BY <3>5 DEF FreeFrom
    <3> QED
      BY <3>1, <3>4, <3>6
  <2>9. k <= Cardinality(C) + Cardinality(G) => Cardinality(Chain(r, b)) >= k
    BY <1>1, <1>3, <2>4
  <2> HIDE DEF C
  <2> QED
    BY <1>4, <2>4, <2>5, <2>6, <2>7, <2>8, <2>9 DEF ResizeOK, C, r
<1>6. CASE ~(Cardinality(C) <= k)
  <2> DEFINE tail == Nth(m, b, k + 1)
             kth  == CHOOSE x \in C : m[x] = tail
             F    == Chain(m, tail)
  <2>1. k + 1 \in 1..Cardinality(C)
    BY <1>1, <1>6
  <2>2. tail \in C /\ Position(m, b, tail) = k + 1
    BY <2>1, NthExists
  <2>3. tail # b
    BY <2>2, PositionStep
  <2>4. kth \in C /\ IsLink(m[kth]) /\ m[kth] = tail
    <3>1. \E y \in C : IsLink(m[y]) /\ m[y] = tail
      BY <1>1, <2>2, <2>3, ChainFacts
    <3> QED
      BY <3>1
  <2>5. r = Cut(m, kth, m[kth])
    BY <1>6, <2>4 DEF Resize
  <2> HIDE DEF kth
  <2>6. /\ Chain(r, b) = C \ F /\ F \subseteq C
        /\ Cardinality(Chain(r, b)) = Position(m, b, tail) - 1
        /\ \A x \in Blocks : x # kth /\ x \notin F => r[x] = m[x]
        /\ \A x \in F : r[x] = Free
    BY <2>4, <2>5, CutChain
  <2> HIDE DEF r, F, tail
  <2>7. \A x \in Blocks : x \notin C /\ m[x] # Free => r[x] = m[x]
    BY <2>4, <2>6
  <2>8. \A x \in Blocks : InUse(r[x]) => x \in Chain(r, b) \/ (x \notin C /\ r[x] = m[x])
    BY <2>4, <2>6, WordFacts
  <2>9. Cardinality(Chain(r, b)) >= k
    <3>1. Cardinality(Chain(r, b)) = (k + 1) - 1
      BY <2>2, <2>6
    <3> QED
      BY <3>1
  <2>10. k <= Cardinality(C) + Cardinality(G)
    BY <1>1, <1>3, <1>6
  <2> HIDE DEF C, G
  <2> QED
    BY <1>4, <2>7, <2>8, <2>9, <2>10 DEF ResizeOK, C, r
<1> QED
  BY <1>5, <1>6
=============================================================================
