------------------------------ MODULE LzxTrees ------------------------------
(***************************************************************************)
(* The Huffman trees of an LZX block: path lengths from frequencies, and   *)
(* the pretree ops that send a tree as the difference from the tree of the *)
(* block before it.  Code values follow from the path lengths, so that a   *)
(* tree is its path lengths here.                                          *)
(***************************************************************************)
EXTENDS Integers, Sequences, SequencesExt, FiniteSetsExt, FiniteSets, TLC

CONSTANT MaxCodeLen     \* longest code of a tree

ASSUME CodeLenAssumption == MaxCodeLen \in 1 .. 16

\* The sequence with its elements evaluated once.
Evaluated(s) == s \o <<>>

\* FoldLeft of the community modules, in as many steps as there are elements.
Folded(op(_, _), start, s) ==
    LET acc[k \in 0 .. Len(s)] == IF k = 0 THEN start ELSE op(acc[k - 1], s[k])
    IN  acc[Len(s)]

Used(freqs) == {i \in DOMAIN freqs : freqs[i] > 0}

Total(s) == Folded(LAMBDA sum, x : sum + x, 0, s)

\* A tree is complete when no bit pattern is without a symbol; LZX has no tree of
\* one symbol.
IsComplete(lengths) ==
    \/ Used(lengths) = {}
    \/ /\ \A i \in DOMAIN lengths : lengths[i] \in 0 .. MaxCodeLen
       /\ Total([i \in DOMAIN lengths |-> IF lengths[i] > 0 THEN 2^(MaxCodeLen - lengths[i]) ELSE 0])
            = 2^MaxCodeLen

-----------------------------------------------------------------------------
(* huffman.rs *)

\* The symbols of a tree, the lightest first, equals in symbol order.
Lighter(freqs, i, j) == freqs[i] < freqs[j] \/ (freqs[i] = freqs[j] /\ i < j)

ByWeight(freqs) ==
    LET used == Used(freqs)
        lighter == [i \in used |-> Cardinality({j \in used : Lighter(freqs, j, i)})]
    IN  [k \in 1 .. Cardinality(used) |-> CHOOSE i \in used : lighter[i] = k - 1]

\* A subtree is the depth of every symbol in it.
Leaf(freqs, i) == [weight |-> freqs[i], depth |-> [j \in {i} |-> 0]]

Joined(a, b) ==
    [weight |-> a.weight + b.weight,
     depth  |-> [i \in DOMAIN a.depth \cup DOMAIN b.depth |->
                    1 + IF i \in DOMAIN a.depth THEN a.depth[i] ELSE b.depth[i]]]

\* pop_smallest: of two sorted queues, leaves first when equal.
PopsLeaf(queues) ==
    /\ queues.leaves # <<>>
    /\ queues.merges = <<>> \/ Head(queues.leaves).weight <= Head(queues.merges).weight

Smallest(queues) == IF PopsLeaf(queues) THEN Head(queues.leaves) ELSE Head(queues.merges)

Popped(queues) == IF PopsLeaf(queues) THEN [queues EXCEPT !.leaves = Tail(@)]
                                      ELSE [queues EXCEPT !.merges = Tail(@)]

Merge(queues) ==
    LET rest == Popped(queues)
    IN  [Popped(rest) EXCEPT !.merges = Append(@, Joined(Smallest(queues), Smallest(rest)))]

\* Huffman's depths, unlimited.
Depths(freqs) ==
    LET order  == ByWeight(freqs)
        leaves == [k \in DOMAIN order |-> Leaf(freqs, order[k])]
        last   == Folded(LAMBDA queues, k : Merge(queues), [leaves |-> leaves, merges |-> <<>>],
                           [k \in 1 .. Len(leaves) - 1 |-> k])
    IN  Smallest(last).depth

\* An item of package-merge: how often each symbol is in it.
Leaves(freqs) ==
    LET order == ByWeight(freqs)
        Item(i) == [weight |-> freqs[i], count |-> [j \in Used(freqs) |-> IF j = i THEN 1 ELSE 0]]
    IN  [k \in DOMAIN order |-> Item(order[k])]

Packages(items) ==
    [k \in 1 .. Len(items) \div 2 |->
        LET a == items[2 * k - 1]
            b == items[2 * k]
        IN  [weight |-> a.weight + b.weight, count |-> [j \in DOMAIN a.count |-> a.count[j] + b.count[j]]]]

\* Two sorted lists into one, packages first when equal.
MergeSorted(packages, leaves) ==
    LET Rank(k) == k + Cardinality({l \in DOMAIN leaves : leaves[l].weight < packages[k].weight})
        at == [k \in DOMAIN packages |-> Rank(k)]
    IN  Folded(LAMBDA acc, k : InsertAt(acc, at[k], packages[k]), leaves,
                 [k \in DOMAIN packages |-> k])

\* package_merge_lengths: how often a symbol is among the lightest 2n - 2 items.
package_merge_lengths(freqs) ==
    LET items == Folded(LAMBDA acc, k : MergeSorted(Packages(acc), Leaves(freqs)), Leaves(freqs),
                          [k \in 1 .. MaxCodeLen - 1 |-> k])
        take  == 2 * Cardinality(Used(freqs)) - 2
        taken == IF take < Len(items) THEN take ELSE Len(items)
    IN  [i \in DOMAIN freqs |->
            IF freqs[i] = 0 THEN 0 ELSE Total([k \in 1 .. taken |-> items[k].count[i]])]

\* A slip: lengths that are too long are cut off.
build_clipped_lengths(freqs) ==
    IF Used(freqs) = {} THEN freqs
    ELSE LET depths == Depths(freqs)
         IN  [i \in DOMAIN freqs |-> IF freqs[i] = 0 THEN 0
                                     ELSE IF depths[i] > MaxCodeLen THEN MaxCodeLen ELSE depths[i]]

\* Huffman's lengths unless one is too long.
build_path_lengths(freqs) ==
    IF Used(freqs) = {} THEN freqs
    ELSE LET depths == Depths(freqs)
         IN  IF \E i \in Used(freqs) : depths[i] > MaxCodeLen THEN package_merge_lengths(freqs)
             ELSE [i \in DOMAIN freqs |-> IF freqs[i] = 0 THEN 0 ELSE depths[i]]

-----------------------------------------------------------------------------
(* pretree.rs *)

\* modsub: what is sent for one path length.
Delta(old, new) == (17 + old - new) % 17

\* A delta, a run of zeros (17, 18), or a run of one value (19, with its delta).
Op(symbol, cover, delta) == [symbol |-> symbol, cover |-> cover, delta |-> delta]
Literal(old, new) == Op(Delta(old, new), 1, 0)

MinCover(symbol) == CASE symbol = 17 -> 4 [] symbol = 18 -> 20 [] OTHER -> 1

Literals(prev, new, from, count) ==
    [k \in 1 .. count |-> Literal(prev[from + k - 1], new[from + k - 1])]

\* A run of zeros: pieces of 51, then one of 20 or of 4 at least, then deltas.
ZeroOps(prev, new, from, run) ==
    LET rest == run % 51
    IN  [k \in 1 .. run \div 51 |-> Op(18, 51, 0)]
        \o CASE rest >= 20 -> <<Op(18, rest, 0)>>
             [] rest \in 4 .. 19 -> <<Op(17, rest, 0)>>
             [] OTHER -> Literals(prev, new, from + run - rest, rest)

\* cover_same_run: fives, fours and single deltas that make up a run.
cover_same_run(run) ==
    LET fives == CASE run < 5 -> 0
                   [] run \in 5 .. 11 -> IF run = 8 THEN 0 ELSE IF run < 10 THEN 1 ELSE 2
                   [] OTHER -> run % 4
        fours == CASE run \in {5, 6, 7, 10, 11} -> 0
                   [] OTHER -> (run - 5 * fives) \div 4
    IN  [fives |-> fives, fours |-> fours, literals |-> run - 5 * fives - 4 * fours]

SameOps(prev, new, from, run) ==
    LET plan   == cover_same_run(run)
        covers == [k \in 1 .. plan.fives + plan.fours |-> IF k <= plan.fives THEN 5 ELSE 4]
        At(k)  == from + IF k <= plan.fives THEN 5 * (k - 1)
                         ELSE 5 * plan.fives + 4 * (k - 1 - plan.fives)
    IN  [k \in DOMAIN covers |-> Op(19, covers[k], Delta(prev[At(k)], new[At(k)]))]
        \o Literals(prev, new, from + run - plan.literals, plan.literals)

\* How many lengths from i on are alike.
Run(new, i) ==
    CHOOSE run \in 1 .. Len(new) - i + 1 :
        /\ \A k \in 1 .. run : new[i + k - 1] = new[i]
        /\ i + run > Len(new) \/ new[i + run] # new[i]

\* plan_symbols, run by run.
PlanRun(prev, new, plan) ==
    LET i   == plan.next
        run == Run(new, i)
    IN  IF i > Len(new) THEN plan
        ELSE [next |-> i + run,
              ops  |-> plan.ops \o IF new[i] = 0 THEN ZeroOps(prev, new, i, run)
                                                 ELSE SameOps(prev, new, i, run)]

plan_symbols(prev, new) ==
    Folded(LAMBDA plan, length : PlanRun(prev, new, plan), [next |-> 1, ops |-> <<>>], new).ops

Symbols(ops) == {ops[k].symbol : k \in DOMAIN ops}

\* What the pretree has to have codes for.
PretreeSymbols(ops) == Symbols(ops) \cup {ops[k].delta : k \in {j \in DOMAIN ops : ops[j].symbol = 19}}

EndOf(ops, k) == Total([j \in 1 .. k |-> ops[j].cover])

\* A slip: the length taken off a run is not sent on its own.
ensure_shrunk(ops, prev) ==
    LET roomy == {k \in DOMAIN ops : ops[k].symbol \in {17, 18} /\ ops[k].cover > MinCover(ops[k].symbol)}
    IN  IF Cardinality(Symbols(ops)) # 1 \/ roomy = {} THEN ops
        ELSE LET k == CHOOSE j \in roomy : \A i \in roomy : i <= j
             IN  [ops EXCEPT ![k].cover = @ - 1]

\* ensure_multi_symbol: a pretree has two symbols at least.  (B) takes a run of zeros
\* apart, (C) makes one run of the first four deltas.
ensure_multi_symbol(ops, prev) ==
    LET roomy == {k \in DOMAIN ops : ops[k].symbol \in {17, 18} /\ ops[k].cover > MinCover(ops[k].symbol)}
        first == ops[1].symbol
    IN  IF Cardinality(Symbols(ops)) # 1 THEN ops
        ELSE IF roomy # {}
        THEN LET k == CHOOSE j \in roomy : \A i \in roomy : i <= j
             IN  InsertAt([ops EXCEPT ![k].cover = @ - 1], k + 1, Literal(prev[EndOf(ops, k)], 0))
        ELSE IF first \in {17, 18}
        THEN LET end == EndOf(ops, Len(ops))
             IN  Front(ops) \o [j \in 1 .. Last(ops).cover |-> Literal(prev[end - Last(ops).cover + j], 0)]
        ELSE IF first <= 16 /\ Len(ops) >= 4
        THEN <<Op(19, 4, first)>> \o SubSeq(ops, 5, Len(ops))
        ELSE ops

\* Case (C): all that is sent are equal deltas.  Four equal lengths would have been a
\* run already, so that the four it makes one run of are not equal.
MakesRun(ops) ==
    Cardinality(Symbols(ops)) = 1 /\ ops[1].symbol <= 16 /\ Len(ops) >= 4

\* The decoder's side.
Decoded(prev, ops) ==
    LET Values(op, at) ==
            [k \in 1 .. op.cover |->
                CASE op.symbol \in {17, 18} -> 0
                  [] op.symbol = 19 -> (17 + prev[at] - op.delta) % 17
                  [] OTHER -> (17 + prev[at] - op.symbol) % 17]
    IN  Folded(LAMBDA acc, op : acc \o Values(op, Len(acc) + 1), <<>>, ops)
=============================================================================
