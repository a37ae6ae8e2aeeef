-------------------------------- MODULE Lzx --------------------------------
(***************************************************************************)
(* The LZX encoder of the lzxc crate: chunks of bytes go in, one block per *)
(* chunk comes out, and what a chunk is encoded as depends on the chunks   *)
(* before it - the match finder's history, the three repeated offsets and  *)
(* the trees of the last verbatim block.  The decoder (lzxd) keeps the     *)
(* same state from the blocks alone; the stream is right as long as the    *)
(* two agree.                                                              *)
(*                                                                         *)
(* A chunk is encoded and, through EncoderWriter, written in one step; the *)
(* write may fail, and the next call then encodes the same bytes again.    *)
(* Bytes, windows and lengths are small, the tables and limits keep their  *)
(* form.  E8 preprocessing is off.                                         *)
(***************************************************************************)
EXTENDS LzxTrees

CONSTANTS
    Bytes,          \* a byte is one of 0 .. Bytes - 1
    PositionSlots,  \* of the window
    LengthSyms,     \* symbols of the length tree
    MaxMatch,       \* longest match
    MaxChainDepth,  \* candidates the match finder looks at
    ChunkMax,       \* bytes in a chunk
    Hash(_),        \* of four bytes
    Chunks,         \* what may be encoded next
    Strategies,     \* what may be asked for
    MaxChunks, MaxUpsets    \* bounds: blocks written; switches and failed writes

ASSUME LzxAssumption ==
    /\ Strategies \subseteq {"Uncompressed", "LiteralOnly", "Greedy"}
    /\ Bytes \in Nat /\ Bytes > 5             \* a section of zeros is one run with room
    /\ LengthSyms \in Nat /\ LengthSyms > 20
    /\ PositionSlots \in 4 .. 50             \* where the tables of the code end
    /\ MaxMatch \in Nat /\ MaxMatch > 9 /\ MaxMatch % 8 = 1 \* 257
    /\ MaxMatch - 9 < LengthSyms             \* 249
    /\ ChunkMax \in Nat
    /\ \A c \in Chunks : c \in Seq(0 .. Bytes - 1) /\ c # <<>> /\ Len(c) <= ChunkMax

VARIABLES
    strategy,       \* of the encoder
    r,              \* the repeated offsets
    main_prev,      \* the trees of the last verbatim block
    length_prev,
    history,        \* the match finder: the last bytes it was given,
    base,           \* the bytes before those,
    inserted,       \* and the positions in its hash chains
    slab,           \* EncoderWriter.buf: a chunk that could not be written
    decoder,        \* the decoder's offsets and trees, what it decoded, whether it gave up
    block,          \* history: the last block encoded
    fed,            \* history: the bytes that were handed over
    stale,          \* history: in what the encoder has lost step with the stream
    chunks, upsets  \* bounds

finder  == <<history, base, inserted>>
encoder == <<r, main_prev, length_prev, finder>>
bounds  == <<chunks, upsets>>
vars    == <<strategy, encoder, slab, decoder, block, fed, stale, bounds>>

-----------------------------------------------------------------------------
(* Offsets. *)

FooterBits == [s \in 0 .. PositionSlots - 1 |->
                IF s < 4 THEN 0 ELSE IF s >= 36 THEN 17 ELSE (s - 2) \div 2]

BasePosition[s \in 0 .. PositionSlots] ==
    IF s = 0 THEN 0 ELSE BasePosition[s - 1] + 2^FooterBits[s - 1]

MaxOffset == BasePosition[PositionSlots] - 3

\* By the bits of the offset, without a search through the table.
position_slot_for(offset) ==
    LET formatted == offset + 2
        l == CHOOSE k \in 1 .. 20 : 2^k <= formatted /\ formatted < 2^(k + 1)
    IN  IF formatted < 4 THEN formatted
        ELSE IF l < 18 THEN 2 * l + ((formatted \div 2^(l - 1)) % 2)
        ELSE 36 + (formatted - 262144) \div 131072

Initial == <<1, 1, 1>>

Swapped(q, i) == [q EXCEPT ![1] = q[i], ![i] = q[1]]

Pushed(q, offset) == <<offset, q[1], q[2]>>

-----------------------------------------------------------------------------
(* Tokens. *)

LiteralToken(byte) == [offset |-> 0, length |-> 1, byte |-> byte]
MatchToken(offset, length) == [offset |-> offset, length |-> length, byte |-> 0]
IsMatch(token) == token.offset > 0

AsLiterals(bytes) == [k \in DOMAIN bytes |-> LiteralToken(bytes[k])]

\* common_prefix_len: how far the bytes at q and at p agree.
common_prefix_len(bytes, q, p, limit) ==
    LET Agree[n \in 0 .. limit] ==
            IF n = limit \/ bytes[q + n] # bytes[p + n] THEN n ELSE Agree[n + 1]
    IN  Agree[0]

Word(bytes, p) == SubSeq(bytes, p, p + 3)

\* find_best_match: of the nearest candidates with the hash of the bytes at p the
\* longest, the nearest of these.  Positions count from the start of the stream.
find_best_match(bytes, p, chain) ==
    LET limit == IF MaxMatch < Len(bytes) - p + 1 THEN MaxMatch ELSE Len(bytes) - p + 1
        hash  == Hash(Word(bytes, p))
        all   == {q \in chain : /\ q > base
                                /\ base + p - q <= MaxOffset
                                /\ Hash(Word(bytes, q - base)) = hash}
        near  == {q \in all : Cardinality({s \in all : s > q}) < MaxChainDepth}
        found == {MatchToken(base + p - q, common_prefix_len(bytes, q - base, p, limit)) : q \in near}
    IN  IF found = {} THEN MatchToken(0, 0)
        ELSE CHOOSE b \in found : \A m \in found :
                m.length < b.length \/ (m.length = b.length /\ m.offset >= b.offset)

\* The next token of the greedy parse: only the start of a token goes into the chains,
\* and none of the last three bytes.
Parsed(bytes, parse) ==
    LET p      == parse.next
        hashed == p + 3 <= Len(bytes)
        best   == IF hashed THEN find_best_match(bytes, p, parse.chain) ELSE MatchToken(0, 0)
        token  == IF best.length >= 3 THEN best ELSE LiteralToken(bytes[p])
    IN  IF p > Len(bytes) THEN parse
        ELSE [next   |-> p + token.length,
              chain  |-> IF hashed THEN parse.chain \cup {base + p} ELSE parse.chain,
              tokens |-> Append(parse.tokens, token)]

\* What process makes of a chunk: its tokens and the new chains.
Processed(input) ==
    LET bytes == history \o input
    IN  Folded(LAMBDA parse, byte : Parsed(bytes, parse),
               [next |-> Len(history) + 1, chain |-> inserted, tokens |-> <<>>], input)

\* A slip: the history is cut as soon as it is longer than the offsets need.
TrimmedEarly(bytes) == IF Len(bytes) > MaxOffset THEN Len(bytes) - MaxOffset + 8 ELSE 0

\* trim_history: how much goes.
Trimmed(bytes) ==
    LET keep == MaxOffset + ChunkMax
    IN  IF Len(bytes) >= 2 * keep THEN Len(bytes) - keep ELSE 0

Feed(input, chain) ==
    LET bytes == history \o input
        drop  == Trimmed(bytes)
    IN  /\ history'  = SubSeq(bytes, drop + 1, Len(bytes))
        /\ base'     = base + drop
        /\ inserted' = {q \in chain : q > base + drop}

-----------------------------------------------------------------------------
(* Symbols. *)

\* encode_match, and a literal: the symbol, and the offsets after it.  The first of
\* the three that has the offset stands for it.
Encoded(token, q) ==
    LET known  == {i \in 1 .. 3 : q[i] = token.offset}
        i      == CHOOSE k \in known : \A j \in known : k <= j
        slot   == IF known # {} THEN i - 1 ELSE position_slot_for(token.offset)
        header == IF token.length >= 9 THEN 7 ELSE token.length - 2
    IN  IF ~IsMatch(token) THEN [symbol |-> [main |-> token.byte, long |-> -1, bits |-> 0], r |-> q]
        ELSE [symbol |-> [main |-> Bytes + 8 * slot + header,
                          long |-> IF token.length >= 9 THEN token.length - 9 ELSE -1,
                          bits |-> IF known # {} THEN 0
                                   ELSE token.offset + 2 - BasePosition[slot]],
              r |-> IF known # {} THEN Swapped(q, i) ELSE Pushed(q, token.offset)]

AllEncoded(tokens, q) ==
    Folded(LAMBDA acc, token : LET e == Encoded(token, acc.r)
                                 IN  [symbols |-> Append(acc.symbols, e.symbol), r |-> e.r],
             [symbols |-> <<>>, r |-> q], tokens)

Mains(symbols) == {symbols[k].main : k \in DOMAIN symbols}

\* main_tree_is_nondegenerate
main_tree_is_nondegenerate(tokens, q) == Cardinality(Mains(AllEncoded(tokens, q).symbols)) > 1

\* A slip: the remainder is a piece of its own, however short.
split_plainly(n) ==
    [k \in 1 .. (n + 7) \div 8 |-> IF 8 * k <= n THEN 8 ELSE n % 8]

\* split_length: pieces of 2 to 8; a remainder of 1 borrows from the piece before.
split_length(n) ==
    LET eights == [k \in 1 .. n \div 8 |-> 8]
    IN  CASE n % 8 = 0 -> eights
          [] n % 8 = 1 -> Front(eights) \o <<7, 2>>
          [] OTHER -> Append(eights, n % 8)

\* avoid_single_symbol_length_tree: when all long matches are of one length.
avoid_single_symbol_length_tree(tokens) ==
    LET longs == {tokens[k].length : k \in {j \in DOMAIN tokens : tokens[j].length >= 9}}
        Pieces(token) ==
            IF token.length < 9 THEN <<token>>
            ELSE LET parts == split_length(token.length)
                 IN  [k \in DOMAIN parts |-> MatchToken(token.offset, parts[k])]
    IN  IF Cardinality(longs) # 1 THEN tokens
        ELSE Folded(LAMBDA acc, token : acc \o Pieces(token), <<>>, tokens)

MainLen == Bytes + 8 * PositionSlots

NoTree(n) == [i \in 1 .. n |-> 0]

Frequencies(len, values) ==
    Folded(LAMBDA freqs, v : IF v < 0 THEN freqs ELSE [freqs EXCEPT ![v + 1] = @ + 1],
           NoTree(len), values)

\* The sections of the trees that are sent on their own.
Sections(main, length) ==
    <<SubSeq(main, 1, Bytes), SubSeq(main, Bytes + 1, MainLen), length>>

\* What a decoder with these trees makes of the ops.
Received(main, length, trees) ==
    LET old == Sections(main, length)
    IN  Evaluated([s \in 1 .. 3 |-> Decoded(old[s], trees[s])])

-----------------------------------------------------------------------------
(* Blocks. *)

\* emit_verbatim_block
Verbatim(tokens) ==
    LET encoded == AllEncoded(avoid_single_symbol_length_tree(tokens), r)
        mains   == Evaluated([k \in DOMAIN encoded.symbols |-> encoded.symbols[k].main])
        longs   == Evaluated([k \in DOMAIN encoded.symbols |-> encoded.symbols[k].long])
        freqs   == Evaluated(<<Frequencies(MainLen, mains), Frequencies(LengthSyms, longs)>>)
        lengths == Evaluated([t \in 1 .. 2 |-> Evaluated(build_path_lengths(freqs[t]))])
        main    == lengths[1]
        length  == lengths[2]
        old     == Sections(main_prev, length_prev)
        new     == Sections(main, length)
        planned == Evaluated([s \in 1 .. 3 |-> plan_symbols(old[s], new[s])])
    IN  [type |-> "verbatim", main |-> main, length |-> length, r |-> encoded.r,
         trees |-> Evaluated([s \in 1 .. 3 |-> ensure_multi_symbol(planned[s], old[s])]),
         runs |-> \E s \in 1 .. 3 : MakesRun(planned[s]),
         symbols |-> encoded.symbols]

\* emit_uncompressed_block: the offsets start anew, for the decoder.
Uncompressed(input) == [type |-> "uncompressed", bytes |-> input]

\* encode_chunk
encode_chunk(input) ==
    LET parse  == Processed(input)
        tokens == CASE strategy = "Greedy" -> parse.tokens
                    [] strategy = "LiteralOnly" -> AsLiterals(input)
                    [] OTHER -> <<>>
        new    == IF main_tree_is_nondegenerate(tokens, r) THEN Verbatim(tokens)
                                                           ELSE Uncompressed(input)
    IN  /\ block' = new
        /\ IF new.type = "verbatim"
           THEN r' = new.r /\ main_prev' = new.main /\ length_prev' = new.length
           ELSE UNCHANGED <<r, main_prev, length_prev>>
        /\ IF strategy = "Greedy" THEN Feed(input, parse.chain) ELSE UNCHANGED finder

\* In what a block leaves the encoder out of step.
Lapses(new) ==
    (IF new.type = "uncompressed" /\ r # Initial THEN {"offsets"} ELSE {})
    \cup (IF strategy # "Greedy" /\ history # <<>> THEN {"history"} ELSE {})
    \cup (IF new.type = "verbatim" /\ new.runs THEN {"trees"} ELSE {})

-----------------------------------------------------------------------------
(* The decoder. *)

\* One symbol: what is decoded so far, the offsets, whether it made sense.
Step(state, symbol) ==
    LET slot   == (symbol.main - Bytes) \div 8
        header == (symbol.main - Bytes) % 8
        length == IF header = 7 THEN 9 + symbol.long ELSE header + 2
        offset == IF slot < 3 THEN state.r[slot + 1] ELSE BasePosition[slot] + symbol.bits - 2
        q      == IF slot < 3 THEN Swapped(state.r, slot + 1) ELSE Pushed(state.r, offset)
        out    == state.out
    IN  IF state.lost THEN state
        ELSE IF symbol.main < Bytes THEN [state EXCEPT !.out = Append(@, symbol.main)]
        ELSE IF offset > Len(out) THEN [state EXCEPT !.lost = TRUE]
        ELSE [state EXCEPT !.r = q,
                           !.out = out \o [k \in 1 .. length |->
                                            out[Len(out) - offset + 1 + ((k - 1) % offset)]]]

\* A block; with other trees than the encoder's its symbols mean nothing.
AfterBlock(state, b) ==
    IF state.lost THEN state
    ELSE IF b.type = "uncompressed" THEN [state EXCEPT !.out = @ \o b.bytes, !.r = Initial]
    ELSE LET new   == Received(state.main, state.length, b.trees)
             ready == [state EXCEPT !.main = new[1] \o new[2], !.length = new[3]]
         IN  IF new # Sections(b.main, b.length) THEN [ready EXCEPT !.lost = TRUE]
             ELSE Folded(Step, ready, b.symbols)

-----------------------------------------------------------------------------
(* EncoderWriter. *)

\* What is encoded next: the buffer that could not be written first (write, finish or
\* drop, later).
Pending == IF slab = <<>> THEN Chunks ELSE {slab}

\* The sink takes the block.
Written(input) ==
    /\ decoder' = AfterBlock(decoder, block')
    /\ fed' = fed \o input
    /\ slab' = <<>>
    /\ stale' = stale \cup Lapses(block')
    /\ chunks' = chunks + 1
    /\ UNCHANGED <<strategy, upsets>>

\* The sink fails before it has taken a byte of the block: the buffer stays, the
\* encoder has gone on.
WriteFails(input) ==
    /\ upsets < MaxUpsets
    /\ upsets' = upsets + 1
    /\ slab' = input
    /\ stale' = stale \cup {"retry"}
    /\ UNCHANGED <<strategy, decoder, fed, chunks>>

emit_chunk ==
    /\ chunks < MaxChunks
    /\ \E input \in Pending :
        /\ encode_chunk(input)
        /\ Written(input) \/ WriteFails(input)

set_strategy ==
    /\ upsets < MaxUpsets
    /\ upsets' = upsets + 1
    /\ strategy' \in Strategies \ {strategy}
    /\ UNCHANGED <<encoder, slab, decoder, block, fed, stale, chunks>>

-----------------------------------------------------------------------------

Init ==
    /\ strategy \in Strategies
    /\ r = Initial
    /\ main_prev = NoTree(MainLen)
    /\ length_prev = NoTree(LengthSyms)
    /\ history = <<>>
    /\ base = 0
    /\ inserted = {}
    /\ slab = <<>>
    /\ decoder = [r |-> Initial, main |-> NoTree(MainLen), length |-> NoTree(LengthSyms),
                  out |-> <<>>, lost |-> FALSE]
    /\ block = Uncompressed(<<>>)
    /\ fed = <<>>
    /\ stale = {}
    /\ chunks = 0 /\ upsets = 0

Next == emit_chunk \/ set_strategy

Spec == Init /\ [][Next]_vars

-----------------------------------------------------------------------------
(* Properties. *)

\* Offsets are ones the window has, symbols ones the trees have, and the match finder
\* still has every byte an offset can reach ("so we never truncate an in-range
\* reference"), and no more than twice what it keeps.
TypeOK ==
    /\ strategy \in Strategies /\ slab \in Chunks \cup {<<>>}
    /\ \A i \in 1 .. 3 : r[i] \in 1 .. MaxOffset
    /\ Len(history) < 2 * (MaxOffset + ChunkMax)
    /\ base = 0 \/ Len(history) >= MaxOffset
    /\ inserted \subseteq base + 1 .. base + Len(history)
    /\ block.type = "verbatim" =>
        \A k \in DOMAIN block.symbols :
            LET symbol == block.symbols[k]
                slot   == (symbol.main - Bytes) \div 8
            IN  /\ symbol.main \in 0 .. MainLen - 1 /\ symbol.long \in -1 .. LengthSyms - 1
                /\ symbol.bits = 0 \/ symbol.bits \in 1 .. 2^FooterBits[slot] - 1

\* As long as encoder and stream are in step the decoder gets back the bytes that were
\* handed over: offsets, repeated offsets, lengths and trees of all the blocks, also after
\* the history was trimmed ("the concatenated output decodes as a single LZX stream").
RoundTrip == stale = {} => ~decoder.lost /\ decoder.out = fed

\* The trees of a block are ones a decoder can build - complete, of two symbols or
\* none, the pretree too - they have a code for each symbol that follows, and the ops give
\* the decoder the trees the encoder goes on with.
TreesComeBack ==
    /\ IsComplete(main_prev) /\ IsComplete(length_prev)
    /\ Cardinality(Used(main_prev)) # 1 /\ Cardinality(Used(length_prev)) # 1
    /\ block.type = "verbatim" =>
        /\ \A k \in DOMAIN block.symbols :
            /\ block.main[block.symbols[k].main + 1] > 0
            /\ block.symbols[k].long >= 0 => block.length[block.symbols[k].long + 1] > 0
        /\ \A s \in 1 .. 3 : Cardinality(PretreeSymbols(block.trees[s])) > 1
    /\ stale \cap {"trees", "retry"} = {} =>
        decoder.main = main_prev /\ decoder.length = length_prev

\* lib.rs: "Produces byte streams that round-trip through the [lzxd] decoder."  Not when
\* a chunk falls back to an uncompressed block, which sets the offsets in the stream and
\* leaves them in the encoder.
FallbackRoundTrips == stale \subseteq {"offsets"} => ~decoder.lost /\ decoder.out = fed

\* pretree.rs: ensure_multi_symbol works "while preserving the encoded path lengths".
\* Its run of the first four deltas has one length where they have several.
LengthsPreserved ==
    stale \subseteq {"trees"} => decoder.main = main_prev /\ decoder.length = length_prev
=============================================================================
