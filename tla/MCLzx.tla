------------------------------- MODULE MCLzx --------------------------------
(* TLC instances of Lzx: chunks that compress, that do not, and that are one *)
(* symbol, up to beyond the first trim of the history.                       *)
EXTENDS Lzx

MCHash(word) == (word[1] + word[2] + word[3] + word[4]) % 4

Repeated(pattern, n) == [k \in 1 .. n |-> pattern[((k - 1) % Len(pattern)) + 1]]

Threes == Repeated(<<0, 1, 2>>, 28)
\* Eight bytes whose code would be six bits deep, no four next to each other alike.
Skewed == Repeated(<<2>>, 12) \o Repeated(<<5>>, 7) \o Repeated(<<7>>, 3) \o <<6, 6, 0, 1, 3, 4>>

MCChunks == {Threes, Skewed, Repeated(<<7, 6, 5>>, 12), <<5>>}
=============================================================================
