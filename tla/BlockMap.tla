------------------------------ MODULE BlockMap ------------------------------
(***************************************************************************)
(* The FlashFS block map (FileSystemRoot.block_map): one 16-bit word per   *)
(* logical block, which is either a link to the next block of a chain or   *)
(* one of three sentinels.  The operators below are the pure part of       *)
(* get_block_chain, free_block_chain, allocate_new_block, set_chain_data   *)
(* and create_defaults: each takes a map and returns a map or a set of     *)
(* blocks.                                                                 *)
(*                                                                         *)
(* The loops of the source are given in closed form.  The walk of          *)
(* get_block_chain visits the least set of blocks that holds the start and *)
(* is closed under links; a chain that grows one block at a time takes the *)
(* lowest free blocks in increasing order; a chain that is cut gives back  *)
(* everything behind the cut.                                              *)
(***************************************************************************)
EXTENDS Naturals, FiniteSets

CONSTANTS
    N,              \* blocks of the image (block_map.len())
    FirstUsable,    \* lowest block the allocator may hand out (4 in the source)
    ReserveStart,   \* first block of the bad-block reserve (layout.reserve_start)
    ConfigBlocks    \* configuration blocks kept below the reserve (4 in the source)

Free     == 8190    \* 0x1FFE
End      == 8191    \* 0x1FFF
Reserved == 8187    \* 0x1FFB

\* Raw NAND layouts have at most 4096 blocks: no block number is a sentinel.
ASSUME SizeAssumption ==
    /\ N \in Nat /\ N <= Reserved
    /\ FirstUsable \in Nat \ {0} /\ FirstUsable <= N
    /\ ReserveStart \in 0..N
    /\ ConfigBlocks \in Nat

Blocks == 0..(N-1)
Words  == Blocks \cup {Free, End, Reserved}

\* The walk goes on at a word that names a block other than block 0.
IsLink(w) == w \in Blocks \ {0}

\* A word of a block that belongs to some chain.
InUse(w) == w = End \/ IsLink(w)

-----------------------------------------------------------------------------
(* Chains. *)

Targets(m) == {m[x] : x \in {y \in Blocks : IsLink(m[y])}}

Closed(m, S) == \A x \in S : IsLink(m[x]) => m[x] \in S

\* The blocks get_block_chain visits from b: the least set with b in it that
\* is closed under links (everything in it but b is the target of a link).
Chain(m, b) ==
    LET closed == {T \in SUBSET Targets(m) : Closed(m, T \cup {b})}
    IN  {b} \cup {x \in Targets(m) : \A T \in closed : x \in T}

\* The 1-based place of x in the list get_block_chain returns for b.
Position(m, b, x) == Cardinality(Chain(m, b)) - Cardinality(Chain(m, x)) + 1

Nth(m, b, k) == CHOOSE x \in Chain(m, b) : Position(m, b, x) = k

FreeChain(m, b) == [x \in Blocks |-> IF x \in Chain(m, b) THEN Free ELSE m[x]]

-----------------------------------------------------------------------------
(* Allocation. *)

\* Slips of the allocator a mutant run puts in its place: it takes the end of
\* a chain, or a protected block, for a free block.
FreeFromTakesEnds(m, lo) ==
    {x \in Blocks : x >= FirstUsable /\ x >= lo /\ m[x] \in {Free, End}}
FreeFromTakesReserved(m, lo) ==
    {x \in Blocks : x >= FirstUsable /\ x >= lo /\ m[x] \in {Free, Reserved}}

FreeFrom(m, lo) == {x \in Blocks : x >= FirstUsable /\ x >= lo /\ m[x] = Free}

\* What up to k successive calls of allocate_new_block(.., 1, lo) hand out.
Lowest(S, k) == {x \in S : Cardinality({y \in S : y < x}) < k}

Least(S) == CHOOSE x \in S : \A y \in S : x <= y

\* A slip: chains end in 0xFFFF.
LinkedTo65535(S) ==
    [x \in S |-> LET above == {y \in S : y > x}
                 IN  IF above = {} THEN 65535 ELSE Least(above)]

\* The words that link the blocks of S in increasing order.
Linked(S) ==
    [x \in S |-> LET above == {y \in S : y > x}
                 IN  IF above = {} THEN End ELSE Least(above)]

\* m with the fresh blocks of S linked behind block last.
Extend(m, last, S) ==
    [x \in Blocks |-> IF x \in S THEN Linked(S)[x]
                      ELSE IF x = last /\ S # {} THEN Least(S)
                      ELSE m[x]]

\* Slips: the last kept block still links to the first freed one; only the
\* first block behind the cut is freed.
CutKeepsLink(m, kth, tail) ==
    [x \in Blocks |-> IF x \in Chain(m, tail) THEN Free ELSE m[x]]
CutFreesOne(m, kth, tail) ==
    [x \in Blocks |-> IF x = kth THEN End ELSE IF x = tail THEN Free ELSE m[x]]

\* m with the chain of b cut so that kth is its last block and all behind
\* tail, the block after kth, is free.
Cut(m, kth, tail) ==
    LET freed == Chain(m, tail)
    IN  [x \in Blocks |-> IF x = kth THEN End
                          ELSE IF x \in freed THEN Free
                          ELSE m[x]]

LastOf(m, b) == CHOOSE x \in Chain(m, b) : ~IsLink(m[x])

\* The blocks set_chain_data allocates to bring the chain of b to k blocks:
\* fewer than are missing when the image is full.
Growth(m, b, k, lo) ==
    IF Cardinality(Chain(m, b)) < k
    THEN Lowest(FreeFrom(m, lo), k - Cardinality(Chain(m, b)))
    ELSE {}

\* The block map set_chain_data leaves.
Resize(m, b, k, lo) ==
    IF Cardinality(Chain(m, b)) <= k
    THEN Extend(m, LastOf(m, b), Growth(m, b, k, lo))
    ELSE LET tail == Nth(m, b, k + 1)
             kth  == CHOOSE x \in Chain(m, b) : m[x] = tail
         IN  Cut(m, kth, tail)

\* set_chain_data succeeds when every missing block could be allocated.
CanResize(m, b, k, lo) ==
    k <= Cardinality(Chain(m, b)) + Cardinality(Growth(m, b, k, lo))

-----------------------------------------------------------------------------
(* Fresh maps. *)

\* create_defaults: everything below the root, the reserve and the
\* configuration blocks are reserved; the root is a chain of one block.
Defaults(root) ==
    LET config == IF ReserveStart > ConfigBlocks THEN ReserveStart - ConfigBlocks ELSE 0
    IN  [x \in Blocks |->
            IF x \in config..(config + ConfigBlocks) THEN Reserved
            ELSE IF x = root THEN End
            ELSE IF x < FirstUsable \/ x < root \/ x >= ReserveStart THEN Reserved
            ELSE Free]

\* The map allocate_new_block starts from when there is none yet.
Unformatted == [x \in Blocks |-> IF x < FirstUsable THEN Reserved ELSE Free]
=============================================================================
