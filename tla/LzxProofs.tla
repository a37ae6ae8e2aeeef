------------------------------ MODULE LzxProofs ------------------------------
(***************************************************************************)
(* Proofs about Lzx, for every window, alphabet, hash, chunk and strategy: *)
(* what the encoder keeps is in range (LzxTypes), and a decoder that reads *)
(* the stream gets back what was handed over (StreamDecodes).              *)
(*                                                                         *)
(* Everything the encoder makes is a walk from one position to another:    *)
(* pretree ops through a tree (Sends), tokens through the bytes (Copies).  *)
(* A sequence Leads from a to b when its elements fit end to end, and the  *)
(* lemmas show that each transformation keeps that: the plan of a tree and *)
(* its pretree of two symbols, the greedy parse, the cut of long matches.  *)
(* A decoder that follows a walk has the right front at every step.  Folds *)
(* are recursive functions: ClimbExists shows that such a function exists  *)
(* when its step stays in a set, from the well-foundedness of < on Nat.    *)
(***************************************************************************)
EXTENDS Lzx, FiniteSetTheorems, WellFoundedInduction, TLAPS

-----------------------------------------------------------------------------
(* Least numbers. *)

LEMMA LeastFact ==
    ASSUME NEW S, S \subseteq Nat, S # {}
    PROVE  \E x \in S : \A y \in S : x <= y
<1>1. PICK x \in S : \A y \in S : ~ (<<y, x>> \in OpToRel(<, Nat))
  BY NatLessThanWellFounded, WFMin
<1>2. ASSUME NEW y \in S, y < x PROVE FALSE
  <2>1. <<y, x>> \in OpToRel(<, Nat)
    BY <1>2 DEF OpToRel
  <2> QED
    BY <1>1, <2>1
<1>3. \A y \in S : x <= y
  BY <1>2
<1> QED
  BY <1>3

LEMMA GreatestFact ==
    ASSUME NEW S, NEW n \in Nat, S \subseteq 0..n, S # {}
    PROVE  \E x \in S : \A y \in S : y <= x
<1> DEFINE T == {m \in 0..n : n - m \in S}
<1>1. PICK i \in S : TRUE
  OBVIOUS
<1>2. n - i \in T
  <2>1. i \in 0..n /\ n - (n - i) = i
    OBVIOUS
  <2> QED
    BY <2>1
<1>3. PICK t \in T : \A u \in T : t <= u
  <2>1. T \subseteq Nat
    OBVIOUS
  <2> HIDE DEF T
  <2> QED
    BY <1>2, <2>1, LeastFact
<1>4. ASSUME NEW j \in S PROVE j <= n - t
  <2>1. j \in 0..n /\ n - (n - j) = j
    OBVIOUS
  <2>2. n - j \in T
    BY <2>1
  <2>3. t <= n - j /\ t \in 0..n
    BY <1>3, <2>2
  <2> QED
    BY <2>1, <2>3
<1>5. n - t \in S
  BY <1>3
<1> QED
  BY <1>4, <1>5

-----------------------------------------------------------------------------
(* Folds.  A recursive function exists when its step stays in a set. *)

\* S[k] has what the function may be after k steps.
Climbs(f, S, start, n, F) ==
    /\ f = [k \in 0..n |-> f[k]] /\ f[0] = start
    /\ \A k \in 0..n : f[k] \in S[k]
    /\ \A k \in 1..n : f[k] = F[<<k, f[k - 1]>>]

Follows(g, S, start, n, F) ==
    g[0] = start /\ \A k \in 1..n : g[k - 1] \in S[k - 1] => g[k] = F[<<k, g[k - 1]>>]

Ascends(S, n, F) == \A k \in 1..n : \A x \in S[k - 1] : F[<<k, x>>] \in S[k]

LEMMA ClimbExists ==
    ASSUME NEW n \in Nat, NEW S, NEW start \in S[0], NEW F, Ascends(S, n, F)
    PROVE  \E f : Climbs(f, S, start, n, F)
<1> DEFINE P(m) == \E f : Climbs(f, S, start, m, F)
           Bad  == {m \in 0..n : ~P(m)}
<1>1. ASSUME Bad # {} PROVE FALSE
  <2>1. PICK b \in Bad : \A y \in Bad : b <= y
    <3>1. Bad \subseteq Nat
      OBVIOUS
    <3> HIDE DEF Bad
    <3> QED
      BY <1>1, <3>1, LeastFact
  <2>2. P(0)
    <3> DEFINE f == [k \in 0..0 |-> start]
    <3>1. f = [k \in 0..0 |-> f[k]] /\ f[0] = start
      OBVIOUS
    <3>2. \A k \in 0..0 : f[k] \in S[k]
      OBVIOUS
    <3>3. \A k \in 1..0 : f[k] = F[<<k, f[k - 1]>>]
      OBVIOUS
    <3> HIDE DEF f
    <3>4. Climbs(f, S, start, 0, F)
      BY <3>1, <3>2, <3>3 DEF Climbs
    <3> QED
      BY <3>4
  <2>3. b \in 1..n /\ ~P(b)
    <3>1. b \in 0..n /\ ~P(b)
      BY <2>1
    <3>2. b # 0
      BY <3>1, <2>2
    <3> HIDE DEF P
    <3> QED
      BY <3>1, <3>2
  <2>4. P(b - 1)
    <3>1. b - 1 \in 0..n /\ ~(b <= b - 1)
      BY <2>3
    <3>2. b - 1 \notin Bad
      BY <2>1, <3>1
    <3> QED
      BY <3>1, <3>2
  <2>5. PICK f : Climbs(f, S, start, b - 1, F)
    BY <2>4
  <2> DEFINE g == [k \in 0..b |-> IF k < b THEN f[k] ELSE F[<<b, f[b - 1]>>]]
  <2>6. f[b - 1] \in S[b - 1] /\ F[<<b, f[b - 1]>>] \in S[b]
    <3>1. b - 1 \in 0..(b - 1)
      BY <2>3
    <3>2. f[b - 1] \in S[b - 1]
      BY <3>1, <2>5 DEF Climbs
    <3> QED
      BY <3>2, <2>3 DEF Ascends
  <2>7. \A k \in 0..b : g[k] = IF k < b THEN f[k] ELSE F[<<b, f[b - 1]>>]
    OBVIOUS
  <2>71. g = [k \in 0..b |-> g[k]]
    BY <2>7
  <2> HIDE DEF g
  <2>72. \A k \in 0..b : g[k] \in S[k]
    <3>1. \A k \in 0..b : k < b => k \in 0..(b - 1)
      BY <2>3
    <3>2. \A k \in 0..b : ~(k < b) => k = b
      BY <2>3
    <3>3. \A k \in 0..(b - 1) : f[k] \in S[k]
      BY <2>5 DEF Climbs
    <3> QED
      BY <2>6, <2>7, <3>1, <3>2, <3>3
  <2>8. g[0] = start
    <3>1. 0 \in 0..b /\ 0 < b
      BY <2>3
    <3>2. f[0] = start
      BY <2>5 DEF Climbs
    <3> QED
      BY <2>7, <3>1, <3>2
  <2>9. ASSUME NEW k \in 1..b PROVE g[k] = F[<<k, g[k - 1]>>]
    <3>1. k \in 0..b /\ k - 1 \in 0..b /\ k - 1 < b
      BY <2>3
    <3>2. g[k - 1] = f[k - 1]
      BY <2>7, <3>1
    <3>3. CASE k < b
      <4>1. k \in 1..(b - 1)
        BY <3>3, <2>3
      <4>2. g[k] = f[k]
        BY <2>7, <3>1, <3>3
      <4>3. f[k] = F[<<k, f[k - 1]>>]
        BY <4>1, <2>5 DEF Climbs
      <4> QED
        BY <4>2, <4>3, <3>2
    <3>4. CASE k = b
      <4>1. ~(k < b)
        BY <3>4, <2>3
      <4>2. g[k] = F[<<b, f[b - 1]>>]
        BY <4>1, <2>7, <3>1
      <4> QED
        BY <3>2, <3>4, <4>2
    <3> QED
      BY <3>3, <3>4, <2>3
  <2>10. Climbs(g, S, start, b, F)
    BY <2>71, <2>72, <2>8, <2>9 DEF Climbs
  <2> QED
    BY <2>3, <2>10
<1>2. n \in 0..n
  OBVIOUS
<1>3. P(n)
  BY <1>1, <1>2
<1> QED
  BY <1>3

\* What a function that follows the step from the start is.
LEMMA FollowsFact ==
    ASSUME NEW S, NEW start, NEW n \in Nat, NEW F, NEW f, NEW g,
           Climbs(f, S, start, n, F), Follows(g, S, start, n, F)
    PROVE  g[n] = f[n] /\ \A k \in 0..n : g[k] = f[k]
<1> DEFINE Bad == {k \in 0..n : g[k] # f[k]}
<1>1. ASSUME Bad # {} PROVE FALSE
  <2>1. PICK b \in Bad : \A y \in Bad : b <= y
    <3>1. Bad \subseteq Nat
      OBVIOUS
    <3> HIDE DEF Bad
    <3> QED
      BY <1>1, <3>1, LeastFact
  <2>2. b \in 1..n /\ g[b] # f[b]
    BY DEF Climbs, Follows
  <2>3. b - 1 \in 0..n /\ ~(b <= b - 1)
    BY <2>2
  <2>4. g[b - 1] = f[b - 1] /\ f[b - 1] \in S[b - 1]
    BY <2>1, <2>3 DEF Climbs
  <2>5. f[b] = F[<<b, f[b - 1]>>] /\ g[b] = F[<<b, g[b - 1]>>]
    BY <2>2, <2>4 DEF Climbs, Follows
  <2> QED
    BY <2>2, <2>4, <2>5
<1> QED
  BY <1>1

LEMMA FoldFact ==
    ASSUME NEW S, NEW n \in Nat, NEW start \in S[0], NEW F, Ascends(S, n, F), NEW acc,
           \A f : Climbs(f, S, start, n, F) => Follows(acc, S, start, n, F)
    PROVE  acc[n] \in S[n]
<1>1. PICK f : Climbs(f, S, start, n, F)
  BY ClimbExists
<1>2. acc[n] = f[n]
  BY <1>1, FollowsFact
<1>3. n \in 0..n
  OBVIOUS
<1> QED
  BY <1>1, <1>2, <1>3 DEF Climbs

LEMMA ClimbIs ==
    ASSUME NEW S, NEW n \in Nat, NEW start, NEW F, NEW f, Climbs(f, S, start, n, F)
    PROVE  /\ f = [k \in 0..n |-> f[k]] /\ f[0] = start
           /\ \A k \in 1..n : f[k - 1] \in S[k - 1] /\ f[k] = F[<<k, f[k - 1]>>]
           /\ \A k \in 0..n : k = 0 \/ k \in 1..n
<1>1. \A k \in 1..n : k - 1 \in 0..n
  OBVIOUS
<1>2. \A k \in 0..n : k = 0 \/ k \in 1..n
  OBVIOUS
<1> QED
  BY <1>1, <1>2 DEF Climbs

\* A function from 1..c is a sequence.
LEMMA SeqOfFun ==
    ASSUME NEW X, NEW c \in Nat, NEW s \in [1..c -> X]
    PROVE  s \in Seq(X) /\ Len(s) = c
  OBVIOUS

-----------------------------------------------------------------------------
(* Sums. *)

LEMMA TotalFact ==
    ASSUME NEW s \in Seq(Nat)
    PROVE  \E f \in [0..Len(s) -> Nat] :
            /\ f[0] = 0 /\ \A k \in 1..Len(s) : f[k] = f[k - 1] + s[k]
            /\ Total(s) = f[Len(s)]
            /\ \A g : (g[0] = 0 /\ \A k \in 1..Len(s) : g[k] = g[k - 1] + s[k])
                        => g[Len(s)] = Total(s)
<1> DEFINE n == Len(s)
           S == [k \in 0..n |-> Nat]
           F == [t \in (1..n) \X Nat |-> t[2] + s[t[1]]]
           R(g) == [k \in 0..n |-> IF k = 0 THEN 0 ELSE g[k - 1] + s[k]]
           acc == CHOOSE g : g = R(g)
<1>1. n \in Nat /\ \A k \in 1..n : s[k] \in Nat
  OBVIOUS
<1>2. /\ \A k \in 0..n : S[k] = Nat
      /\ \A k \in 1..n, x \in Nat : F[<<k, x>>] = x + s[k]
  BY <1>1
<1>3. Total(s) = acc[n]
  BY DEF Total, Folded
<1>11. n \in Nat
  BY <1>1
<1> HIDE DEF S, F, acc, n
<1>21. \A k \in 1..n : k - 1 \in 0..n /\ k \in 0..n
  BY <1>1
<1>4. PICK f : Climbs(f, S, 0, n, F)
  <2>1. 0 \in S[0]
    BY <1>1, <1>2
  <2>2. Ascends(S, n, F)
    <3>1. ASSUME NEW k \in 1..n, NEW x \in S[k - 1] PROVE F[<<k, x>>] \in S[k]
      <4>1. S[k - 1] = Nat /\ S[k] = Nat
        BY <1>2, <1>21
      <4>2. x \in Nat /\ s[k] \in Nat
        BY <1>1, <4>1
      <4>3. F[<<k, x>>] = x + s[k] /\ x + s[k] \in Nat
        BY <1>2, <4>2
      <4> QED
        BY <4>1, <4>3
    <3> QED
      BY <3>1 DEF Ascends
  <2> QED
    BY <1>11, <2>1, <2>2, ClimbExists
<1>5. f \in [0..n -> Nat] /\ f[0] = 0 /\ \A k \in 1..n : f[k] = f[k - 1] + s[k]
  <2>1. /\ f = [k \in 0..n |-> f[k]] /\ f[0] = 0
        /\ \A k \in 0..n : f[k] \in Nat
        /\ \A k \in 1..n : f[k] = F[<<k, f[k - 1]>>]
    BY <1>2, <1>4 DEF Climbs
  <2>2. ASSUME NEW k \in 1..n PROVE f[k] = f[k - 1] + s[k]
    <3>1. f[k - 1] \in Nat
      BY <1>21, <2>1
    <3> QED
      BY <2>1, <3>1, <1>2
  <2>3. f \in [0..n -> Nat]
    BY <2>1
  <2> QED
    BY <2>1, <2>2, <2>3
<1>6. f = R(f)
  BY <1>5
<1>7. acc = R(acc)
  BY <1>6 DEF acc
<1>8. ASSUME NEW g, g[0] = 0, \A k \in 1..n : g[k] = g[k - 1] + s[k]
      PROVE g[n] = f[n]
  <2>1. Follows(g, S, 0, n, F)
    BY <1>8, <1>2, <1>21 DEF Follows
  <2> QED
    BY <1>11, <1>4, <2>1, FollowsFact
<1>9. acc[0] = 0 /\ \A k \in 1..n : acc[k] = acc[k - 1] + s[k]
  <2>1. acc[0] = R(acc)[0] /\ R(acc)[0] = 0
    BY <1>1, <1>7
  <2>2. ASSUME NEW k \in 1..n PROVE acc[k] = acc[k - 1] + s[k]
    <3>1. acc[k] = R(acc)[k] /\ R(acc)[k] = acc[k - 1] + s[k]
      BY <1>1, <1>7
    <3> QED
      BY <3>1
  <2> QED
    BY <2>1, <2>2
<1>10. acc[n] = f[n]
  BY <1>8, <1>9
<1>13. Total(s) = f[n]
  BY <1>3, <1>10
<1>12. \A g : (g[0] = 0 /\ \A k \in 1..n : g[k] = g[k - 1] + s[k]) => g[n] = Total(s)
  BY <1>8, <1>13
<1> QED
  BY <1>5, <1>13, <1>12 DEF n

LEMMA TotalIs ==
    ASSUME NEW s \in Seq(Nat), NEW g, g[0] = 0, \A k \in 1..Len(s) : g[k] = g[k - 1] + s[k]
    PROVE  Total(s) = g[Len(s)]
  BY TotalFact

LEMMA TotalNat ==
    ASSUME NEW s \in Seq(Nat)
    PROVE  Total(s) \in Nat
<1>1. PICK f \in [0..Len(s) -> Nat] : Total(s) = f[Len(s)]
  BY TotalFact
<1>2. Len(s) \in 0..Len(s)
  OBVIOUS
<1> QED
  BY <1>1, <1>2

LEMMA TotalConcat ==
    ASSUME NEW s \in Seq(Nat), NEW t \in Seq(Nat)
    PROVE  Total(s \o t) = Total(s) + Total(t)
<1>1. PICK f \in [0..Len(s) -> Nat] :
            /\ f[0] = 0 /\ \A k \in 1..Len(s) : f[k] = f[k - 1] + s[k]
            /\ Total(s) = f[Len(s)]
  BY TotalFact
<1>2. PICK h \in [0..Len(t) -> Nat] :
            /\ h[0] = 0 /\ \A k \in 1..Len(t) : h[k] = h[k - 1] + t[k]
            /\ Total(t) = h[Len(t)]
  BY TotalFact
<1> DEFINE m == Len(s)
           n == Len(t)
           u == s \o t
           g == [k \in 0..(m + n) |-> IF k <= m THEN f[k] ELSE f[m] + h[k - m]]
<1>3. /\ m \in Nat /\ n \in Nat /\ u \in Seq(Nat) /\ Len(u) = m + n
      /\ \A k \in 1..m : u[k] = s[k]
      /\ \A k \in (m + 1)..(m + n) : u[k] = t[k - m]
      /\ \A k \in 1..m : s[k] \in Nat
      /\ \A k \in 1..n : t[k] \in Nat
  OBVIOUS
<1>31. m \in 0..Len(s) /\ n \in 0..Len(t)
  BY <1>3
<1>32. f[m] \in Nat /\ h[n] \in Nat /\ \A k \in 0..n : h[k] \in Nat
  BY <1>31
<1> HIDE DEF m, n, u
<1>4. g[0] = 0
  BY <1>1, <1>3
<1>5. ASSUME NEW k \in 1..(m + n) PROVE g[k] = g[k - 1] + u[k]
  <2>0. k \in 0..(m + n) /\ k - 1 \in 0..(m + n)
    BY <1>3
  <2>1. CASE k <= m
    <3>1. k \in 1..m /\ k - 1 <= m
      BY <2>1, <1>3
    <3>2. g[k] = f[k] /\ g[k - 1] = f[k - 1]
      BY <2>0, <2>1, <3>1
    <3>3. f[k] = f[k - 1] + s[k] /\ u[k] = s[k]
      BY <3>1, <1>1, <1>3 DEF m
    <3> QED
      BY <3>2, <3>3
  <2>2. CASE k = m + 1
    <3>1. g[k] = f[m] + h[1] /\ g[k - 1] = f[m]
      BY <2>0, <2>2, <1>3
    <3>2. 1 \in 1..n /\ h[1] = h[1 - 1] + t[1] /\ h[1 - 1] = 0
      BY <2>2, <1>3, <1>2 DEF n
    <3>3. u[k] = t[1] /\ t[1] \in Nat
      BY <2>2, <3>2, <1>3
    <3>4. f[m] \in Nat
      BY <1>32
    <3> QED
      BY <3>1, <3>2, <3>3, <3>4
  <2>3. CASE k > m + 1
    <3>1. k - m \in 1..n /\ (k - m) - 1 = (k - 1) - m /\ ~(k <= m) /\ ~(k - 1 <= m)
      BY <2>3, <1>3
    <3>2. g[k] = f[m] + h[k - m] /\ g[k - 1] = f[m] + h[(k - 1) - m]
      BY <2>0, <3>1
    <3>3. h[k - m] = h[(k - m) - 1] + t[k - m]
      BY <3>1, <1>2 DEF n
    <3>4. u[k] = t[k - m] /\ t[k - m] \in Nat
      BY <2>3, <3>1, <1>3
    <3>5. f[m] \in Nat /\ h[(k - 1) - m] \in Nat
      <4>1. (k - 1) - m \in 0..n
        BY <3>1, <1>3
      <4> QED
        BY <4>1, <1>32
    <3> QED
      BY <3>1, <3>2, <3>3, <3>4, <3>5
  <2> QED
    BY <2>1, <2>2, <2>3, <1>3
<1>6. g[m + n] = f[m] + h[n]
  <2>1. CASE n = 0
    <3>1. g[m + n] = f[m] /\ f[m] \in Nat
      BY <2>1, <1>3, <1>32
    <3> QED
      BY <2>1, <3>1, <1>2
  <2>2. CASE n # 0
    BY <2>2, <1>3
  <2> QED
    BY <2>1, <2>2
<1> HIDE DEF g
<1>7. Total(u) = g[Len(u)]
  BY <1>3, <1>4, <1>5, TotalIs
<1> QED
  BY <1>1, <1>2, <1>3, <1>6, <1>7 DEF m, n, u

LEMMA TotalOne ==
    ASSUME NEW x \in Nat
    PROVE  Total(<<x>>) = x
<1> DEFINE g == [k \in 0..1 |-> IF k = 0 THEN 0 ELSE x]
<1>1. <<x>> \in Seq(Nat) /\ Len(<<x>>) = 1 /\ <<x>>[1] = x
  OBVIOUS
<1>2. g[0] = 0 /\ g[1] = x /\ \A k \in 1..1 : g[k] = g[k - 1] + <<x>>[k]
  OBVIOUS
<1> HIDE DEF g
<1>3. Total(<<x>>) = g[Len(<<x>>)]
  BY <1>1, <1>2, TotalIs
<1> QED
  BY <1>1, <1>2, <1>3

\* A part of the front adds up to no more.
LEMMA TotalFront ==
    ASSUME NEW s \in Seq(Nat), NEW m \in 0..Len(s)
    PROVE  Total([k \in 1..m |-> s[k]]) <= Total(s)
<1> DEFINE a == [k \in 1..m |-> s[k]]
           b == SubSeq(s, m + 1, Len(s))
<1>1. a \in Seq(Nat) /\ b \in Seq(Nat)
  <2>1. \A k \in 1..m : s[k] \in Nat
    OBVIOUS
  <2>2. a \in [1..m -> Nat]
    BY <2>1
  <2>3. m \in Nat
    OBVIOUS
  <2> QED
    BY <2>2, <2>3
<1>2. s = a \o b
  OBVIOUS
<1> HIDE DEF a, b
<1>3. Total(s) = Total(a) + Total(b)
  BY <1>1, <1>2, TotalConcat
<1>4. Total(a) \in Nat /\ Total(b) \in Nat
  BY <1>1, TotalNat
<1> QED
  BY <1>3, <1>4 DEF a

-----------------------------------------------------------------------------
(* Sequences of pieces that each lead from a place to the next. *)

\* Places at which the pieces of a sequence meet.  G has the pieces with where they
\* start and where they end.
Meets(at, G, a, s, b) ==
    /\ at \in [0..Len(s) -> Nat]
    /\ at[0] = a /\ at[Len(s)] = b
    /\ \A k \in 1..Len(s) : <<at[k - 1], s[k], at[k]>> \in G

Leads(G, a, s, b) == \E at : Meets(at, G, a, s, b)

LEMMA LeadsNone ==
    ASSUME NEW G, NEW a \in Nat
    PROVE  Leads(G, a, <<>>, a)
<1> DEFINE at == [k \in 0..0 |-> a]
<1>1. Len(<<>>) = 0 /\ at \in [0..0 -> Nat] /\ at[0] = a /\ \A k \in 1..0 : FALSE
  OBVIOUS
<1> HIDE DEF at
<1>2. Meets(at, G, a, <<>>, a)
  BY <1>1 DEF Meets
<1> QED
  BY <1>2 DEF Leads

LEMMA LeadsOne ==
    ASSUME NEW G, NEW a \in Nat, NEW x, NEW b \in Nat, <<a, x, b>> \in G
    PROVE  Leads(G, a, <<x>>, b)
<1> DEFINE at == [k \in 0..1 |-> IF k = 0 THEN a ELSE b]
<1>1. Len(<<x>>) = 1 /\ at \in [0..1 -> Nat] /\ at[0] = a /\ at[1] = b /\ <<x>>[1] = x
  OBVIOUS
<1>2. \A k \in 1..1 : <<at[k - 1], <<x>>[k], at[k]>> \in G
  <2>1. <<at[1 - 1], <<x>>[1], at[1]>> = <<a, x, b>>
    BY <1>1
  <2> QED
    BY <2>1
<1> HIDE DEF at
<1>3. Meets(at, G, a, <<x>>, b)
  BY <1>1, <1>2 DEF Meets
<1> QED
  BY <1>3 DEF Leads

LEMMA LeadsOn ==
    ASSUME NEW G, NEW X, NEW s \in Seq(X), NEW t \in Seq(X), NEW a, NEW b, NEW c,
           Leads(G, a, s, b), Leads(G, b, t, c)
    PROVE  Leads(G, a, s \o t, c)
<1> DEFINE m == Len(s)
           n == Len(t)
           u == s \o t
<1>1. PICK f : Meets(f, G, a, s, b)
  BY DEF Leads
<1>2. PICK h : Meets(h, G, b, t, c)
  BY DEF Leads
<1> DEFINE g == [k \in 0..(m + n) |-> IF k <= m THEN f[k] ELSE h[k - m]]
<1>3. /\ m \in Nat /\ n \in Nat /\ Len(u) = m + n
      /\ \A k \in 1..m : u[k] = s[k]
      /\ \A k \in 1..n : u[m + k] = t[k]
  OBVIOUS
<1>4. /\ f \in [0..m -> Nat] /\ f[0] = a /\ f[m] = b
      /\ \A k \in 1..m : <<f[k - 1], s[k], f[k]>> \in G
  BY <1>1 DEF Meets
<1>5. /\ h \in [0..n -> Nat] /\ h[0] = b /\ h[n] = c
      /\ \A k \in 1..n : <<h[k - 1], t[k], h[k]>> \in G
  BY <1>2 DEF Meets
<1> HIDE DEF m, n, u
<1>6. g \in [0..(m + n) -> Nat]
  <2>1. ASSUME NEW k \in 0..(m + n) PROVE (IF k <= m THEN f[k] ELSE h[k - m]) \in Nat
    <3>1. CASE k <= m
      <4>1. k \in 0..m
        BY <3>1, <1>3
      <4> QED
        BY <3>1, <4>1, <1>4
    <3>2. CASE ~(k <= m)
      <4>1. k - m \in 0..n
        BY <3>2, <1>3
      <4> QED
        BY <3>2, <4>1, <1>5
    <3> QED
      BY <3>1, <3>2
  <2> QED
    BY <2>1
<1>7. \A k \in 0..n : g[m + k] = h[k]
  <2> TAKE k \in 0..n
  <2>1. m + k \in 0..(m + n) /\ (m + k) - m = k
    BY <1>3
  <2>2. CASE k = 0
    <3>1. m + k = m
      BY <2>2, <1>3
    <3>2. g[m] = f[m]
      BY <1>3
    <3> QED
      BY <3>1, <3>2, <2>2, <1>4, <1>5
  <2>3. CASE k # 0
    <3>1. ~(m + k <= m)
      BY <2>3, <1>3
    <3> QED
      BY <3>1, <2>1
  <2> QED
    BY <2>2, <2>3
<1>8. \A k \in 0..m : g[k] = f[k]
  BY <1>3
<1>9. g[0] = a /\ g[m + n] = c
  <2>1. 0 \in 0..m /\ n \in 0..n
    BY <1>3
  <2> QED
    BY <2>1, <1>4, <1>5, <1>7, <1>8
<1> HIDE DEF g
<1>10. ASSUME NEW k \in 1..(m + n) PROVE <<g[k - 1], u[k], g[k]>> \in G
  <2>1. CASE k <= m
    <3>1. k \in 1..m /\ k \in 0..m /\ k - 1 \in 0..m
      BY <2>1, <1>3
    <3>2. g[k] = f[k] /\ g[k - 1] = f[k - 1] /\ u[k] = s[k]
      BY <3>1, <1>3, <1>8
    <3> QED
      BY <3>1, <3>2, <1>4
  <2>2. CASE ~(k <= m)
    <3> DEFINE j == k - m
    <3>1. j \in 1..n /\ j \in 0..n /\ j - 1 \in 0..n /\ m + j = k /\ m + (j - 1) = k - 1
      BY <2>2, <1>3
    <3> HIDE DEF j
    <3>2. g[m + j] = h[j] /\ g[m + (j - 1)] = h[j - 1] /\ u[m + j] = t[j]
      BY <3>1, <1>3, <1>7
    <3>3. <<h[j - 1], t[j], h[j]>> \in G
      BY <3>1, <1>5
    <3> QED
      BY <3>1, <3>2, <3>3
  <2> QED
    BY <2>1, <2>2
<1>11. Meets(g, G, a, u, c)
  BY <1>3, <1>6, <1>9, <1>10 DEF Meets
<1> QED
  BY <1>11 DEF Leads, u

LEMMA LeadsAppend ==
    ASSUME NEW G, NEW X, NEW s \in Seq(X), NEW x \in X, NEW a, NEW b \in Nat, NEW c \in Nat,
           Leads(G, a, s, b), <<b, x, c>> \in G
    PROVE  Leads(G, a, Append(s, x), c)
<1>1. Leads(G, b, <<x>>, c)
  BY LeadsOne
<1>2. <<x>> \in Seq(X) /\ Append(s, x) = s \o <<x>>
  OBVIOUS
<1> QED
  BY <1>1, <1>2, LeadsOn

-----------------------------------------------------------------------------
(* Huffman's trees. *)

LEMMA UsedFacts ==
    ASSUME NEW n \in Nat, NEW freqs \in [1..n -> Nat]
    PROVE  /\ Used(freqs) \subseteq 1..n /\ IsFiniteSet(Used(freqs))
           /\ Cardinality(Used(freqs)) \in Nat
           /\ \A i \in 1..n : i \notin Used(freqs) => freqs[i] = 0
<1>1. Used(freqs) \subseteq 1..n /\ \A i \in 1..n : i \notin Used(freqs) => freqs[i] = 0
  BY DEF Used
<1>2. IsFiniteSet(1..n)
  BY FS_Interval
<1>3. IsFiniteSet(Used(freqs))
  BY <1>1, <1>2, FS_Subset
<1> QED
  BY <1>1, <1>3, FS_CardinalityType

LEMMA LighterFacts ==
    ASSUME NEW n \in Nat, NEW freqs \in [1..n -> Nat]
    PROVE  /\ \A i \in 1..n : ~Lighter(freqs, i, i)
           /\ \A i, j \in 1..n : i = j \/ Lighter(freqs, i, j) \/ Lighter(freqs, j, i)
           /\ \A i, j, k \in 1..n : Lighter(freqs, i, j) /\ Lighter(freqs, j, k) => Lighter(freqs, i, k)
<1>1. \A i \in 1..n : freqs[i] \in Nat
  OBVIOUS
<1> QED
  BY <1>1 DEF Lighter

\* The symbols by weight are each of the symbols once.
LEMMA ByWeightFacts ==
    ASSUME NEW n \in Nat, NEW freqs \in [1..n -> Nat]
    PROVE  /\ ByWeight(freqs) \in [1..Cardinality(Used(freqs)) -> Used(freqs)]
           /\ \A i \in Used(freqs) : \E k \in 1..Cardinality(Used(freqs)) : ByWeight(freqs)[k] = i
           /\ \A j, k \in 1..Cardinality(Used(freqs)) :
                ByWeight(freqs)[j] = ByWeight(freqs)[k] => j = k
<1> DEFINE S == Used(freqs)
           c == Cardinality(S)
           below(x) == {y \in S : Lighter(freqs, y, x)}
           lighter == [x \in S |-> Cardinality(below(x))]
<1>1. S \subseteq 1..n /\ IsFiniteSet(S) /\ c \in Nat
  BY UsedFacts
<1>2. /\ \A x \in S : ~Lighter(freqs, x, x)
      /\ \A x, y \in S : x = y \/ Lighter(freqs, x, y) \/ Lighter(freqs, y, x)
      /\ \A x, y, z \in S : Lighter(freqs, x, y) /\ Lighter(freqs, y, z) => Lighter(freqs, x, z)
  BY <1>1, LighterFacts
<1>3. ByWeight(freqs) = [k \in 1..c |-> CHOOSE x \in S : lighter[x] = k - 1]
  BY DEF ByWeight
<1> HIDE DEF S
<1>4. ASSUME NEW x \in S
      PROVE  /\ IsFiniteSet(below(x)) /\ Cardinality(below(x)) \in Nat
             /\ Cardinality(below(x) \cup {x}) = Cardinality(below(x)) + 1
             /\ Cardinality(below(x)) + 1 <= c
  <2>1. IsFiniteSet(below(x)) /\ Cardinality(below(x)) \in Nat
    BY <1>1, FS_Subset, FS_CardinalityType
  <2>2. x \notin below(x) /\ below(x) \cup {x} \subseteq S
    BY <1>2
  <2> HIDE DEF below
  <2>3. /\ IsFiniteSet(below(x) \cup {x})
        /\ Cardinality(below(x) \cup {x}) = Cardinality(below(x)) + 1
    BY <2>1, <2>2, FS_AddElement
  <2>4. Cardinality(below(x) \cup {x}) <= c
    BY <1>1, <2>2, FS_Subset
  <2> QED
    BY <2>1, <2>3, <2>4
<1>5. \A x \in S : lighter[x] = Cardinality(below(x))
  OBVIOUS
<1>6. ASSUME NEW x \in S, NEW y \in S, Lighter(freqs, x, y) PROVE lighter[x] < lighter[y]
  <2>1. below(x) \cup {x} \subseteq below(y)
    BY <1>2, <1>6
  <2>2. IsFiniteSet(below(y)) /\ Cardinality(below(y)) \in Nat /\ Cardinality(below(x)) \in Nat
        /\ Cardinality(below(x) \cup {x}) = Cardinality(below(x)) + 1
    BY <1>4
  <2>3. lighter[x] = Cardinality(below(x)) /\ lighter[y] = Cardinality(below(y))
    BY <1>5
  <2> HIDE DEF below, lighter
  <2>4. Cardinality(below(x) \cup {x}) <= Cardinality(below(y))
    BY <2>1, <2>2, FS_Subset
  <2> QED
    BY <2>2, <2>3, <2>4
<1>7. ASSUME NEW x \in S PROVE lighter[x] + 1 \in 1..c /\ lighter[x] \in Nat
  <2>1. Cardinality(below(x)) \in Nat /\ Cardinality(below(x)) + 1 <= c
    BY <1>4
  <2>2. lighter[x] = Cardinality(below(x))
    BY <1>5
  <2> HIDE DEF below, lighter
  <2> QED
    BY <1>1, <2>1, <2>2
<1> HIDE DEF lighter
<1>8. ASSUME NEW x \in S, NEW y \in S, lighter[x] = lighter[y] PROVE x = y
  <2>1. lighter[x] \in Nat /\ lighter[y] \in Nat
    BY <1>7
  <2>2. ~Lighter(freqs, x, y) /\ ~Lighter(freqs, y, x)
    BY <1>6, <1>8, <2>1
  <2> QED
    BY <1>2, <2>2
<1> DEFINE f == [x \in S |-> lighter[x] + 1]
<1>9. f \in Injection(S, 1..c)
  <2>1. f \in [S -> 1..c]
    BY <1>7
  <2>2. \A x, y \in S : f[x] = f[y] => x = y
    <3> SUFFICES ASSUME NEW x \in S, NEW y \in S, f[x] = f[y] PROVE x = y
      OBVIOUS
    <3>1. lighter[x] \in Nat /\ lighter[y] \in Nat
      BY <1>7
    <3>2. lighter[x] + 1 = lighter[y] + 1
      OBVIOUS
    <3>3. lighter[x] = lighter[y]
      BY <3>1, <3>2
    <3> QED
      BY <1>8, <3>3
  <2> HIDE DEF f
  <2> QED
    BY <2>1, <2>2 DEF Injection, IsInjective
<1>10. IsFiniteSet(1..c) /\ Cardinality(1..c) = c
  BY <1>1, FS_Interval
<1>11. f \in Surjection(S, 1..c)
  <2> HIDE DEF f, c
  <2>1. Cardinality(S) = c
    BY DEF c
  <2> QED
    BY <1>1, <1>9, <1>10, <2>1, FS_Injection
<1>12. ASSUME NEW k \in 1..c PROVE \E x \in S : lighter[x] = k - 1
  <2>1. PICK x \in S : f[x] = k
    <3> HIDE DEF f
    <3> QED
      BY <1>11 DEF Surjection
  <2>2. lighter[x] + 1 = k /\ lighter[x] \in Nat
    BY <2>1, <1>7
  <2>3. lighter[x] = k - 1
    BY <2>2
  <2> QED
    BY <2>3
<1> HIDE DEF f, c
<1>13. ASSUME NEW k \in 1..c
       PROVE ByWeight(freqs)[k] \in S /\ lighter[ByWeight(freqs)[k]] = k - 1
  BY <1>3, <1>12
<1>14. ByWeight(freqs) \in [1..c -> S]
  BY <1>3, <1>13
<1>15. ASSUME NEW x \in S PROVE \E k \in 1..c : ByWeight(freqs)[k] = x
  <2>1. lighter[x] + 1 \in 1..c /\ lighter[x] \in Nat
    BY <1>7
  <2>2. PICK k \in 1..c : k = lighter[x] + 1
    BY <2>1
  <2>3. ByWeight(freqs)[k] \in S /\ lighter[ByWeight(freqs)[k]] = lighter[x]
    BY <2>1, <2>2, <1>13
  <2>4. ByWeight(freqs)[k] = x
    BY <2>3, <1>8
  <2> QED
    BY <2>4
<1>16. ASSUME NEW j \in 1..c, NEW k \in 1..c, ByWeight(freqs)[j] = ByWeight(freqs)[k] PROVE j = k
  <2>1. lighter[ByWeight(freqs)[j]] = j - 1 /\ lighter[ByWeight(freqs)[k]] = k - 1
    BY <1>13
  <2>2. j - 1 = k - 1
    BY <2>1, <1>16, Zenon
  <2>3. j \in Int /\ k \in Int
    OBVIOUS
  <2> QED
    BY <2>2, <2>3
<1>17. /\ ByWeight(freqs) \in [1..c -> S]
       /\ \A x \in S : \E k \in 1..c : ByWeight(freqs)[k] = x
       /\ \A j, k \in 1..c : ByWeight(freqs)[j] = ByWeight(freqs)[k] => j = k
  BY <1>14, <1>15, <1>16, Zenon
<1> QED
  BY <1>17, Zenon DEF S, c

Trees(U) == [weight : Nat, depth : UNION {[D -> Nat] : D \in SUBSET U}]

Queues(U) == [leaves : Seq(Trees(U)), merges : Seq(Trees(U))]

Size(q) == Len(q.leaves) + Len(q.merges)

\* A symbol is in one of the trees that wait.
Waits(q, i) ==
    \/ \E k \in 1..Len(q.leaves) : i \in DOMAIN q.leaves[k].depth
    \/ \E k \in 1..Len(q.merges) : i \in DOMAIN q.merges[k].depth

LEMMA TreeFacts ==
    ASSUME NEW U, NEW t \in Trees(U)
    PROVE  /\ t.weight \in Nat /\ DOMAIN t.depth \subseteq U
           /\ \A i \in DOMAIN t.depth : t.depth[i] \in Nat
<1>1. t.weight \in Nat /\ t.depth \in UNION {[D -> Nat] : D \in SUBSET U}
  BY DEF Trees
<1>2. PICK D \in SUBSET U : t.depth \in [D -> Nat]
  BY <1>1
<1> QED
  BY <1>1, <1>2

LEMMA JoinedFacts ==
    ASSUME NEW U, NEW a \in Trees(U), NEW b \in Trees(U)
    PROVE  /\ Joined(a, b) \in Trees(U)
           /\ DOMAIN Joined(a, b).depth = DOMAIN a.depth \cup DOMAIN b.depth
<1> DEFINE D == DOMAIN a.depth \cup DOMAIN b.depth
           d == [i \in D |-> 1 + IF i \in DOMAIN a.depth THEN a.depth[i] ELSE b.depth[i]]
           w == a.weight + b.weight
<1>1. /\ a.weight \in Nat /\ DOMAIN a.depth \subseteq U
      /\ \A i \in DOMAIN a.depth : a.depth[i] \in Nat
      /\ b.weight \in Nat /\ DOMAIN b.depth \subseteq U
      /\ \A i \in DOMAIN b.depth : b.depth[i] \in Nat
  BY TreeFacts
<1>2. D \in SUBSET U
  BY <1>1
<1>3. d \in [D -> Nat]
  <2>1. ASSUME NEW i \in D
        PROVE 1 + (IF i \in DOMAIN a.depth THEN a.depth[i] ELSE b.depth[i]) \in Nat
    <3>1. CASE i \in DOMAIN a.depth
      BY <3>1, <1>1
    <3>2. CASE i \notin DOMAIN a.depth
      BY <3>2, <1>1
    <3> QED
      BY <3>1, <3>2
  <2> QED
    BY <2>1
<1>4. w \in Nat
  BY <1>1
<1>5. Joined(a, b) = [weight |-> w, depth |-> d]
  BY DEF Joined
<1>6. DOMAIN d = D
  OBVIOUS
<1> HIDE DEF D, d, w
<1>7. d \in UNION {[E -> Nat] : E \in SUBSET U}
  BY <1>2, <1>3
<1>8. Joined(a, b) \in Trees(U)
  BY <1>4, <1>5, <1>7 DEF Trees
<1>9. Joined(a, b).depth = d
  BY <1>5
<1> QED
  BY <1>6, <1>8, <1>9 DEF D

LEMMA PoppedFacts ==
    ASSUME NEW U, NEW q \in Queues(U), Size(q) >= 1
    PROVE  /\ Smallest(q) \in Trees(U) /\ Popped(q) \in Queues(U)
           /\ Size(Popped(q)) = Size(q) - 1
           /\ \A i : Waits(q, i) => i \in DOMAIN Smallest(q).depth \/ Waits(Popped(q), i)
<1> DEFINE l == q.leaves
           m == q.merges
           X == Trees(U)
<1>1. l \in Seq(X) /\ m \in Seq(X) /\ q = [leaves |-> l, merges |-> m]
  BY DEF Queues
<1> HIDE DEF X
<1>2. CASE PopsLeaf(q)
  <2>1. l # <<>>
    BY <1>2 DEF PopsLeaf
  <2> DEFINE p == [leaves |-> Tail(l), merges |-> m]
  <2>2. Smallest(q) = Head(l) /\ Popped(q) = p
    BY <1>1, <1>2 DEF Smallest, Popped
  <2>3. /\ Head(l) = l[1] /\ Head(l) \in X /\ Tail(l) \in Seq(X) /\ Len(Tail(l)) = Len(l) - 1
        /\ \A k \in 1..Len(l) : k # 1 => k - 1 \in 1..Len(Tail(l)) /\ Tail(l)[k - 1] = l[k]
    BY <1>1, <2>1
  <2>4. p.leaves = Tail(l) /\ p.merges = m
    OBVIOUS
  <2>5. p \in Queues(U)
    BY <1>1, <2>3 DEF Queues, X
  <2>6. Size(p) = Size(q) - 1
    <3>1. Len(l) \in Nat /\ Len(m) \in Nat
      BY <1>1
    <3>2. Size(q) = Len(l) + Len(m) /\ Size(p) = Len(p.leaves) + Len(p.merges)
      BY DEF Size
    <3> HIDE DEF l, m, p
    <3> QED
      BY <2>3, <2>4, <3>1, <3>2
  <2>7. ASSUME NEW i, Waits(q, i) PROVE i \in DOMAIN Head(l).depth \/ Waits(p, i)
    <3>1. CASE \E k \in 1..Len(l) : i \in DOMAIN l[k].depth
      <4>1. PICK k \in 1..Len(l) : i \in DOMAIN l[k].depth
        BY <3>1
      <4>2. CASE k = 1
        BY <4>1, <4>2, <2>3
      <4>3. CASE k # 1
        <5>1. k - 1 \in 1..Len(Tail(l)) /\ Tail(l)[k - 1] = l[k]
          BY <4>3, <2>3
        <5> QED
          BY <4>1, <5>1, <2>4 DEF Waits
      <4> QED
        BY <4>2, <4>3
    <3>2. CASE \E k \in 1..Len(m) : i \in DOMAIN m[k].depth
      BY <3>2, <2>4 DEF Waits
    <3> QED
      BY <2>7, <3>1, <3>2 DEF Waits
  <2> HIDE DEF p, l, m
  <2> QED
    BY <2>2, <2>3, <2>5, <2>6, <2>7 DEF X
<1>3. CASE ~PopsLeaf(q)
  <2>1. m # <<>>
    <3>1. CASE l = <<>>
      BY <1>1, <3>1 DEF Size
    <3>2. CASE l # <<>>
      BY <1>3, <3>2 DEF PopsLeaf
    <3> QED
      BY <3>1, <3>2
  <2> DEFINE p == [leaves |-> l, merges |-> Tail(m)]
  <2>2. Smallest(q) = Head(m) /\ Popped(q) = p
    BY <1>1, <1>3 DEF Smallest, Popped
  <2>3. /\ Head(m) = m[1] /\ Head(m) \in X /\ Tail(m) \in Seq(X) /\ Len(Tail(m)) = Len(m) - 1
        /\ \A k \in 1..Len(m) : k # 1 => k - 1 \in 1..Len(Tail(m)) /\ Tail(m)[k - 1] = m[k]
    BY <1>1, <2>1
  <2>4. p.leaves = l /\ p.merges = Tail(m)
    OBVIOUS
  <2>5. p \in Queues(U)
    BY <1>1, <2>3 DEF Queues, X
  <2>6. Size(p) = Size(q) - 1
    <3>1. Len(l) \in Nat /\ Len(m) \in Nat
      BY <1>1
    <3>2. Size(q) = Len(l) + Len(m) /\ Size(p) = Len(p.leaves) + Len(p.merges)
      BY DEF Size
    <3> HIDE DEF l, m, p
    <3> QED
      BY <2>3, <2>4, <3>1, <3>2
  <2>7. ASSUME NEW i, Waits(q, i) PROVE i \in DOMAIN Head(m).depth \/ Waits(p, i)
    <3>1. CASE \E k \in 1..Len(m) : i \in DOMAIN m[k].depth
      <4>1. PICK k \in 1..Len(m) : i \in DOMAIN m[k].depth
        BY <3>1
      <4>2. CASE k = 1
        BY <4>1, <4>2, <2>3
      <4>3. CASE k # 1
        <5>1. k - 1 \in 1..Len(Tail(m)) /\ Tail(m)[k - 1] = m[k]
          BY <4>3, <2>3
        <5> QED
          BY <4>1, <5>1, <2>4 DEF Waits
      <4> QED
        BY <4>2, <4>3
    <3>2. CASE \E k \in 1..Len(l) : i \in DOMAIN l[k].depth
      BY <3>2, <2>4 DEF Waits
    <3> QED
      BY <2>7, <3>1, <3>2 DEF Waits
  <2> HIDE DEF p, l, m
  <2> QED
    BY <2>2, <2>3, <2>5, <2>6, <2>7 DEF X
<1> QED
  BY <1>2, <1>3

LEMMA MergeFacts ==
    ASSUME NEW U, NEW q \in Queues(U), Size(q) >= 2
    PROVE  /\ Merge(q) \in Queues(U) /\ Size(Merge(q)) = Size(q) - 1
           /\ \A i : Waits(q, i) => Waits(Merge(q), i)
<1> DEFINE p == Popped(q)
           a == Smallest(q)
           b == Smallest(p)
           o == Popped(p)
           X == Trees(U)
           j == Joined(a, b)
           new == Append(o.merges, j)
           z == [leaves |-> o.leaves, merges |-> new]
<1>0. Size(q) \in Nat
  <2>1. q.leaves \in Seq(X) /\ q.merges \in Seq(X)
    BY DEF Queues
  <2>2. PICK x \in Nat : x = Len(q.leaves)
    BY <2>1
  <2>3. PICK y \in Nat : y = Len(q.merges)
    BY <2>1
  <2>4. Size(q) = x + y
    BY <2>2, <2>3 DEF Size
  <2> QED
    BY <2>4
<1>1. /\ a \in X /\ p \in Queues(U) /\ Size(p) = Size(q) - 1
      /\ \A i : Waits(q, i) => i \in DOMAIN a.depth \/ Waits(p, i)
  BY <1>0, PoppedFacts
<1>2. Size(p) >= 1
  BY <1>0, <1>1
<1>3. /\ b \in X /\ o \in Queues(U) /\ Size(o) = Size(p) - 1
      /\ \A i : Waits(p, i) => i \in DOMAIN b.depth \/ Waits(o, i)
  BY <1>1, <1>2, PoppedFacts
<1>4. j \in X /\ DOMAIN j.depth = DOMAIN a.depth \cup DOMAIN b.depth
  BY <1>1, <1>3, JoinedFacts
<1>5. o.leaves \in Seq(X) /\ o.merges \in Seq(X) /\ o = [leaves |-> o.leaves, merges |-> o.merges]
  BY <1>3 DEF Queues
<1>6. Merge(q) = z
  <2>1. Merge(q) = [o EXCEPT !.merges = Append(@, j)]
    BY DEF Merge
  <2> HIDE DEF o, j
  <2> QED
    BY <1>5, <2>1
<1> HIDE DEF p, a, b, o, X, j
<1>7. /\ new \in Seq(X) /\ Len(new) = Len(o.merges) + 1 /\ new[Len(o.merges) + 1] = j
      /\ \A k \in 1..Len(o.merges) : new[k] = o.merges[k]
      /\ Len(o.merges) \in Nat /\ Len(o.leaves) \in Nat
  BY <1>4, <1>5
<1> HIDE DEF new
<1>8. z \in Queues(U)
  BY <1>5, <1>7 DEF Queues, X
<1>9. z.leaves = o.leaves /\ z.merges = new
  OBVIOUS
<1> HIDE DEF z
<1>10. Size(z) = Size(q) - 1
  <2>1. Size(z) = Len(o.leaves) + (Len(o.merges) + 1) /\ Size(o) = Len(o.leaves) + Len(o.merges)
    BY <1>7, <1>9 DEF Size
  <2>2. Size(o) = Size(q) - 1 - 1
    BY <1>1, <1>3, Zenon
  <2>3. PICK x \in Nat : x = Len(o.leaves)
    BY <1>7
  <2>4. PICK y \in Nat : y = Len(o.merges)
    BY <1>7
  <2>5. PICK s \in Nat : s = Size(q)
    BY <1>0
  <2>6. Size(z) = x + (y + 1)
    BY <2>1, <2>3, <2>4, Zenon
  <2>7. x + y = s - 1 - 1
    BY <2>1, <2>2, <2>3, <2>4, <2>5, Zenon
  <2>8. x + (y + 1) = s - 1
    BY <2>7
  <2> QED
    BY <2>5, <2>6, <2>8, Zenon
<1>11. ASSUME NEW i, Waits(q, i) PROVE Waits(z, i)
  <2>1. CASE Waits(o, i)
    <3>1. \A k \in 1..Len(o.merges) : k \in 1..Len(new) /\ new[k] = o.merges[k]
      BY <1>7
    <3> QED
      BY <2>1, <1>9, <3>1 DEF Waits
  <2>2. CASE i \in DOMAIN j.depth
    <3>1. Len(o.merges) + 1 \in 1..Len(new)
      BY <1>7
    <3> QED
      BY <2>2, <3>1, <1>7, <1>9 DEF Waits
  <2> QED
    BY <1>11, <1>1, <1>3, <1>4, <2>1, <2>2
<1> QED
  BY <1>6, <1>8, <1>10, <1>11

\* Huffman's depths are numbers, one for each symbol.
LEMMA DepthsFacts ==
    ASSUME NEW n \in Nat, NEW freqs \in [1..n -> Nat], Used(freqs) # {}
    PROVE  DOMAIN Depths(freqs) = Used(freqs) /\ \A i \in Used(freqs) : Depths(freqs)[i] \in Nat
<1> DEFINE U == Used(freqs)
           c == Cardinality(U)
           m == c - 1
           X == Trees(U)
           order == ByWeight(freqs)
           leaves == [k \in DOMAIN order |-> Leaf(freqs, order[k])]
           start == [leaves |-> leaves, merges |-> <<>>]
           steps == [k \in 1..Len(leaves) - 1 |-> k]
           S == [k \in 0..m |-> {q \in Queues(U) : Size(q) = c - k /\ \A i \in U : Waits(q, i)}]
           F == [t \in (1..m) \X Queues(U) |-> Merge(t[2])]
           R(g) == [k \in 0..m |-> IF k = 0 THEN start ELSE Merge(g[k - 1])]
           acc == CHOOSE g : g = R(g)
<1>1. /\ U \subseteq 1..n /\ IsFiniteSet(U) /\ c \in Nat
      /\ order \in [1..c -> U] /\ \A i \in U : \E k \in 1..c : order[k] = i
  BY UsedFacts, ByWeightFacts
<1>2. c >= 1 /\ m \in Nat
  <2>1. c # 0
    BY <1>1, FS_EmptySet
  <2> HIDE DEF U
  <2> QED
    BY <1>1, <2>1
<1>3. \A i \in U : freqs[i] \in Nat
  BY <1>1
<1> HIDE DEF U, order
<1>4. ASSUME NEW i \in U PROVE Leaf(freqs, i) \in X /\ i \in DOMAIN Leaf(freqs, i).depth
  <2> DEFINE d == [j \in {i} |-> 0]
             w == freqs[i]
  <2>1. d \in [{i} -> Nat] /\ {i} \in SUBSET U /\ i \in DOMAIN d /\ w \in Nat
    BY <1>3
  <2>2. Leaf(freqs, i) = [weight |-> w, depth |-> d]
    BY DEF Leaf
  <2> HIDE DEF d, w
  <2>3. d \in UNION {[D -> Nat] : D \in SUBSET U}
    BY <2>1
  <2>4. [weight |-> w, depth |-> d] \in Trees(U)
    BY <2>1, <2>3 DEF Trees
  <2>5. [weight |-> w, depth |-> d].depth = d
    OBVIOUS
  <2> QED
    BY <2>1, <2>2, <2>4, <2>5, Zenon
<1>5. DOMAIN order = 1..c
  BY <1>1
<1>6. leaves \in [1..c -> X] /\ \A k \in 1..c : leaves[k] = Leaf(freqs, order[k])
  <2>1. \A k \in 1..c : order[k] \in U
    BY <1>1
  <2> HIDE DEF X, c
  <2> QED
    BY <1>4, <1>5, <2>1
<1> HIDE DEF leaves, X
<1>7. leaves \in Seq(X) /\ Len(leaves) = c
  <2>1. leaves \in [1..c -> X] /\ c \in Nat
    BY <1>1, <1>6
  <2> HIDE DEF c
  <2> QED
    BY <2>1, SeqOfFun
<1>8. steps = [k \in 1..m |-> k] /\ Len(steps) = m
  <2>1. steps = [k \in 1..m |-> k]
    BY <1>7
  <2>2. [k \in 1..m |-> k] \in [1..m -> Nat]
    OBVIOUS
  <2> HIDE DEF steps, m
  <2> QED
    BY <1>2, <2>1, <2>2
<1>9. /\ start \in Queues(U) /\ Size(start) = c /\ \A i \in U : Waits(start, i)
  <2>1. start.leaves = leaves /\ start.merges = <<>>
    OBVIOUS
  <2>2. <<>> \in Seq(X) /\ Len(<<>>) = 0
    OBVIOUS
  <2>3. start \in Queues(U)
    BY <1>7, <2>2 DEF Queues, X
  <2>4. Size(start) = c
    BY <1>1, <1>7, <2>1, <2>2 DEF Size
  <2>5. ASSUME NEW i \in U PROVE Waits(start, i)
    <3>1. PICK k \in 1..c : order[k] = i
      BY <1>1
    <3>2. leaves[k] = Leaf(freqs, i) /\ i \in DOMAIN Leaf(freqs, i).depth
      BY <1>4, <1>6, <3>1
    <3> HIDE DEF start
    <3> QED
      BY <1>7, <2>1, <3>2 DEF Waits
  <2> QED
    BY <2>3, <2>4, <2>5
<1> HIDE DEF start
<1>10. Depths(freqs) = Smallest(acc[m]).depth
  <2> DEFINE last == Folded(LAMBDA queues, k : Merge(queues), start, steps)
             Q(g) == [k \in 0..Len(steps) |-> IF k = 0 THEN start ELSE Merge(g[k - 1])]
  <2>1. Depths(freqs) = Smallest(last).depth
    BY DEF Depths, leaves, order, start
  <2> HIDE DEF steps
  <2>2. last = (CHOOSE g : g = Q(g))[Len(steps)]
    BY DEF Folded
  <2>3. last = acc[m]
    BY <2>2, <1>8
  <2> QED
    BY <2>1, <2>3
<1> HIDE DEF acc, steps, S, F, m, c
<1>11. \A k \in 0..m : S[k] = {q \in Queues(U) : Size(q) = c - k /\ \A i \in U : Waits(q, i)}
  BY DEF S
<1>12. \A k \in 1..m : \A q \in Queues(U) : F[<<k, q>>] = Merge(q)
  BY DEF F
<1>13. \A k \in 1..m : k \in 0..m /\ k - 1 \in 0..m /\ c - (k - 1) >= 2 /\ c - (k - 1) - 1 = c - k
  BY <1>1, <1>2 DEF m
<1>14. ASSUME NEW k \in 1..m, NEW q \in S[k - 1]
       PROVE q \in Queues(U) /\ Merge(q) \in S[k]
  <2>1. q \in Queues(U) /\ Size(q) = c - (k - 1) /\ \A i \in U : Waits(q, i)
    BY <1>11, <1>13
  <2>2. Size(q) >= 2
    BY <2>1, <1>13
  <2>3. Merge(q) \in Queues(U) /\ Size(Merge(q)) = Size(q) - 1 /\ \A i : Waits(q, i) => Waits(Merge(q), i)
    BY <2>1, <2>2, MergeFacts
  <2>4. Size(Merge(q)) = c - k
    BY <2>1, <2>3, <1>13
  <2> QED
    BY <2>1, <2>3, <2>4, <1>11, <1>13
<1>15. PICK f : Climbs(f, S, start, m, F)
  <2>1. start \in S[0]
    <3>1. 0 \in 0..m /\ c - 0 = c
      BY <1>1, <1>2
    <3> QED
      BY <3>1, <1>9, <1>11
  <2>2. Ascends(S, m, F)
    BY <1>12, <1>14 DEF Ascends
  <2> QED
    BY <1>2, <2>1, <2>2, ClimbExists
<1>16. f = R(f)
  <2>1. /\ f = [k \in 0..m |-> f[k]] /\ f[0] = start /\ \A k \in 0..m : f[k] \in S[k]
        /\ \A k \in 1..m : f[k] = F[<<k, f[k - 1]>>]
    BY <1>15 DEF Climbs
  <2>2. ASSUME NEW k \in 1..m PROVE f[k] = Merge(f[k - 1])
    BY <2>1, <1>12, <1>13, <1>14
  <2>3. \A k \in 0..m : f[k] = IF k = 0 THEN start ELSE Merge(f[k - 1])
    <3>1. \A k \in 0..m : k = 0 \/ k \in 1..m
      BY <1>2
    <3> QED
      BY <2>1, <2>2, <3>1
  <2>4. R(f) = [k \in 0..m |-> f[k]]
    BY <2>3
  <2> QED
    BY <2>1, <2>4
<1>17. acc = R(acc)
  BY <1>16 DEF acc
<1>18. Follows(acc, S, start, m, F)
  <2>1. acc[0] = start
    <3>1. acc[0] = R(acc)[0] /\ 0 \in 0..m
      BY <1>2, <1>17
    <3> QED
      BY <3>1
  <2>2. ASSUME NEW k \in 1..m, acc[k - 1] \in S[k - 1] PROVE acc[k] = F[<<k, acc[k - 1]>>]
    <3>1. acc[k] = R(acc)[k] /\ R(acc)[k] = Merge(acc[k - 1])
      BY <1>13, <1>17
    <3> QED
      BY <2>2, <3>1, <1>12, <1>14
  <2> QED
    BY <2>1, <2>2 DEF Follows
<1>19. acc[m] \in S[m]
  <2>1. acc[m] = f[m]
    <3>1. m \in Nat
      BY <1>2
    <3> QED
      BY <3>1, <1>15, <1>18, FollowsFact
  <2>2. f[m] \in S[m]
    <3>1. m \in 0..m
      BY <1>2
    <3> QED
      BY <3>1, <1>15 DEF Climbs
  <2> QED
    BY <2>1, <2>2
<1> DEFINE z == acc[m]
<1>20. z \in Queues(U) /\ Size(z) = 1 /\ \A i \in U : Waits(z, i)
  <2>1. m \in 0..m /\ c - m = 1
    BY <1>1, <1>2 DEF m
  <2> QED
    BY <1>11, <1>19, <2>1
<1> HIDE DEF z
<1>21. /\ Smallest(z) \in Trees(U) /\ Popped(z) \in Queues(U)
       /\ Size(Popped(z)) = Size(z) - 1
       /\ \A i : Waits(z, i) => i \in DOMAIN Smallest(z).depth \/ Waits(Popped(z), i)
  BY <1>20, PoppedFacts
<1>22. ASSUME NEW i PROVE ~Waits(Popped(z), i)
  <2> DEFINE o == Popped(z)
  <2>1. o.leaves \in Seq(Trees(U)) /\ o.merges \in Seq(Trees(U)) /\ Size(o) = 0
    <3>1. Size(o) = 0
      BY <1>20, <1>21
    <3>2. o.leaves \in Seq(Trees(U)) /\ o.merges \in Seq(Trees(U))
      BY <1>21 DEF Queues
    <3> QED
      BY <3>1, <3>2
  <2> HIDE DEF o
  <2>2. PICK x \in Nat : x = Len(o.leaves)
    BY <2>1
  <2>3. PICK y \in Nat : y = Len(o.merges)
    BY <2>1
  <2>4. x + y = 0
    BY <2>1, <2>2, <2>3, Zenon DEF Size
  <2>5. x = 0 /\ y = 0
    BY <2>4
  <2>6. Len(o.leaves) = 0 /\ Len(o.merges) = 0
    BY <2>2, <2>3, <2>5
  <2>7. ~Waits(o, i)
    BY <2>6 DEF Waits
  <2> QED
    BY <2>7 DEF o
<1>23. U \subseteq DOMAIN Smallest(z).depth
  BY <1>20, <1>21, <1>22
<1>24. DOMAIN Smallest(z).depth \subseteq U
       /\ \A i \in DOMAIN Smallest(z).depth : Smallest(z).depth[i] \in Nat
  BY <1>21, TreeFacts
<1> QED
  BY <1>10, <1>23, <1>24 DEF z, U

-----------------------------------------------------------------------------
(* Sequences. *)

LEMMA SeqSame ==
    ASSUME NEW X, NEW s \in Seq(X), NEW t \in Seq(X), Len(s) = Len(t),
           \A k \in 1..Len(s) : s[k] = t[k]
    PROVE  s = t
<1>1. s = [k \in 1..Len(s) |-> s[k]] /\ t = [k \in 1..Len(t) |-> t[k]]
  OBVIOUS
<1> QED
  BY <1>1

LEMMA ConcatFacts ==
    ASSUME NEW X, NEW s \in Seq(X), NEW t \in Seq(X)
    PROVE  /\ s \o t \in Seq(X) /\ Len(s \o t) = Len(s) + Len(t)
           /\ Len(s) \in Nat /\ Len(t) \in Nat
           /\ \A k \in 1..Len(s) : (s \o t)[k] = s[k]
           /\ \A k \in 1..Len(t) : (s \o t)[Len(s) + k] = t[k]
  OBVIOUS

LEMMA OneFacts ==
    ASSUME NEW X, NEW x \in X
    PROVE  <<x>> \in Seq(X) /\ Len(<<x>>) = 1 /\ <<x>>[1] = x
  OBVIOUS

LEMMA AppendFacts ==
    ASSUME NEW X, NEW s \in Seq(X), NEW x \in X
    PROVE  /\ Append(s, x) = s \o <<x>>
           /\ Append(s, x) \in Seq(X) /\ Len(Append(s, x)) = Len(s) + 1
           /\ \A k \in 1..Len(s) : Append(s, x)[k] = s[k]
           /\ Append(s, x)[Len(s) + 1] = x
  OBVIOUS

LEMMA Cut ==
    ASSUME NEW X, NEW s \in Seq(X), NEW p \in 1..(Len(s) + 1)
    PROVE  /\ SubSeq(s, 1, p - 1) \in Seq(X) /\ SubSeq(s, p, Len(s)) \in Seq(X)
           /\ Len(SubSeq(s, 1, p - 1)) = p - 1 /\ Len(SubSeq(s, p, Len(s))) = Len(s) - p + 1
           /\ SubSeq(s, 1, p - 1) \o SubSeq(s, p, Len(s)) = s
<1> DEFINE a == SubSeq(s, 1, p - 1)
           b == SubSeq(s, p, Len(s))
           c == a \o b
<1>0. PICK n \in Nat : n = Len(s)
  OBVIOUS
<1>1. a \in Seq(X)
  OBVIOUS
<1>2. b \in Seq(X)
  OBVIOUS
<1>3. Len(a) = p - 1 /\ \A k \in 1..(p - 1) : a[k] = s[k]
  OBVIOUS
<1>4. Len(b) = Len(s) - p + 1 /\ \A k \in 1..(Len(s) - p + 1) : b[k] = s[p + k - 1]
  OBVIOUS
<1> HIDE DEF a, b
<1>5. c \in Seq(X) /\ Len(c) = n
  <2>1. Len(a) = p - 1 /\ Len(b) = n - p + 1
    BY <1>0, <1>3, <1>4
  <2>2. c \in Seq(X) /\ Len(c) = Len(a) + Len(b)
    BY <1>1, <1>2
  <2> HIDE DEF c
  <2> QED
    BY <2>1, <2>2, <1>0
<1>6. ASSUME NEW k \in 1..n PROVE c[k] = s[k]
  <2>1. CASE k <= p - 1
    BY <2>1, <1>0, <1>1, <1>2, <1>3, <1>6
  <2>2. CASE k > p - 1
    <3>1. c[k] = b[k - (p - 1)]
      BY <2>2, <1>0, <1>1, <1>2, <1>3, <1>4, <1>6
    <3>2. k - (p - 1) \in 1..(Len(s) - p + 1) /\ p + (k - (p - 1)) - 1 = k
      BY <2>2, <1>0
    <3> QED
      BY <3>1, <3>2, <1>4
  <2>3. k <= p - 1 \/ k > p - 1
    OBVIOUS
  <2> QED
    BY <2>1, <2>2, <2>3, Zenon
<1> HIDE DEF c
<1>7. c = s
  BY <1>0, <1>5, <1>6, SeqSame
<1> QED
  BY <1>1, <1>2, <1>3, <1>4, <1>7 DEF a, b, c

-----------------------------------------------------------------------------
(* Package-merge. *)

Items(U) == [weight : Nat, count : [U -> Nat]]

\* How often a symbol is in the items.
Counts(items, i) == Total([k \in 1..Len(items) |-> items[k].count[i]])

LEMMA ItemFacts ==
    ASSUME NEW U, NEW items \in Seq(Items(U))
    PROVE  /\ \A k \in 1..Len(items) : items[k] \in Items(U) /\ items[k].weight \in Nat
                                        /\ \A i \in U : items[k].count[i] \in Nat
           /\ \A i \in U :
                /\ [k \in 1..Len(items) |-> items[k].count[i]] \in Seq(Nat)
                /\ Len([k \in 1..Len(items) |-> items[k].count[i]]) = Len(items)
                /\ Counts(items, i) \in Nat
<1>1. ASSUME NEW k \in 1..Len(items)
      PROVE /\ items[k] \in Items(U) /\ items[k].weight \in Nat
            /\ \A i \in U : items[k].count[i] \in Nat
  <2> DEFINE X == Items(U)
  <2>1. items[k] \in X
    <3>1. items \in Seq(X)
      OBVIOUS
    <3> HIDE DEF X
    <3> QED
      BY <3>1
  <2>2. items[k].weight \in Nat /\ items[k].count \in [U -> Nat]
    BY <2>1 DEF Items
  <2> QED
    BY <2>1, <2>2
<1>11. PICK n \in Nat : n = Len(items)
  <2> DEFINE X == Items(U)
  <2>1. items \in Seq(X)
    OBVIOUS
  <2> HIDE DEF X
  <2> QED
    BY <2>1
<1>2. ASSUME NEW i \in U
      PROVE /\ [k \in 1..Len(items) |-> items[k].count[i]] \in Seq(Nat)
            /\ Len([k \in 1..Len(items) |-> items[k].count[i]]) = Len(items)
  <2> DEFINE s == [k \in 1..Len(items) |-> items[k].count[i]]
  <2>2. s = [k \in 1..n |-> items[k].count[i]]
    BY <1>11
  <2>3. s \in [1..n -> Nat]
    BY <1>1, <1>11, <2>2
  <2> HIDE DEF s
  <2>4. s \in Seq(Nat) /\ Len(s) = n
    BY <2>3
  <2> QED
    BY <1>11, <2>4 DEF s
<1>3. \A i \in U : Counts(items, i) \in Nat
  BY <1>2, TotalNat DEF Counts
<1> QED
  BY <1>1, <1>2, <1>3

LEMMA CountsConcat ==
    ASSUME NEW U, NEW s \in Seq(Items(U)), NEW t \in Seq(Items(U)), NEW i \in U
    PROVE  s \o t \in Seq(Items(U)) /\ Counts(s \o t, i) = Counts(s, i) + Counts(t, i)
<1> DEFINE X == Items(U)
           a == [k \in 1..Len(s) |-> s[k].count[i]]
           b == [k \in 1..Len(t) |-> t[k].count[i]]
           u == s \o t
           c == [k \in 1..Len(u) |-> u[k].count[i]]
<1>0. s \in Seq(X) /\ t \in Seq(X)
  OBVIOUS
<1> HIDE DEF X
<1>1. u \in Seq(X) /\ Len(u) = Len(s) + Len(t) /\ Len(s) \in Nat /\ Len(t) \in Nat
  BY <1>0
<1>2. /\ a \in Seq(Nat) /\ b \in Seq(Nat) /\ Len(a) = Len(s) /\ Len(b) = Len(t)
      /\ c \in Seq(Nat) /\ Len(c) = Len(u)
  BY <1>1, ItemFacts DEF X
<1>3. c = a \o b
  <2>1. a \o b \in Seq(Nat) /\ Len(a \o b) = Len(s) + Len(t)
        /\ \A k \in 1..Len(a \o b) : (a \o b)[k] = IF k <= Len(s) THEN a[k] ELSE b[k - Len(s)]
    BY <1>2
  <2>2. \A k \in 1..Len(u) : u[k] = IF k <= Len(s) THEN s[k] ELSE t[k - Len(s)]
    BY <1>0
  <2>3. ASSUME NEW k \in 1..Len(u) PROVE c[k] = (a \o b)[k]
    <3>1. c[k] = u[k].count[i]
      OBVIOUS
    <3>2. CASE k <= Len(s)
      <4>1. k \in 1..Len(s)
        BY <1>1, <3>2
      <4>2. u[k] = s[k] /\ a[k] = s[k].count[i]
        BY <2>2, <3>2, <4>1
      <4>3. (a \o b)[k] = a[k]
        BY <1>1, <2>1, <3>2
      <4> QED
        BY <3>1, <4>2, <4>3
    <3>3. CASE ~(k <= Len(s))
      <4>1. k - Len(s) \in 1..Len(t)
        BY <1>1, <3>3
      <4>2. u[k] = t[k - Len(s)] /\ b[k - Len(s)] = t[k - Len(s)].count[i]
        BY <2>2, <3>3, <4>1
      <4>3. (a \o b)[k] = b[k - Len(s)]
        BY <1>1, <2>1, <3>3
      <4> QED
        BY <3>1, <4>2, <4>3
    <3> QED
      BY <3>2, <3>3
  <2>4. Len(c) = Len(a \o b) /\ \A k \in 1..Len(c) : c[k] = (a \o b)[k]
    BY <1>1, <1>2, <2>1, <2>3
  <2> DEFINE d == a \o b
  <2>5. c \in Seq(Nat) /\ d \in Seq(Nat) /\ Len(c) = Len(d) /\ \A k \in 1..Len(c) : c[k] = d[k]
    BY <1>2, <2>1, <2>4
  <2> HIDE DEF a, b, c, u, d
  <2>6. c = d
    BY <2>5, SeqSame
  <2> QED
    BY <2>6 DEF d
<1>4. Total(c) = Total(a) + Total(b)
  <2> HIDE DEF a, b, c
  <2> QED
    BY <1>2, <1>3, TotalConcat
<1> QED
  BY <1>1, <1>4 DEF Counts, X

LEMMA CountsOne ==
    ASSUME NEW U, NEW x \in Items(U), NEW i \in U
    PROVE  <<x>> \in Seq(Items(U)) /\ Counts(<<x>>, i) = x.count[i]
<1> DEFINE X == Items(U)
           y == x.count[i]
<1>1. <<x>> \in Seq(X) /\ Len(<<x>>) = 1 /\ <<x>>[1] = x
  <2> HIDE DEF X
  <2> QED
    BY DEF X
<1>2. y \in Nat
  BY DEF Items
<1>3. [k \in 1..Len(<<x>>) |-> <<x>>[k].count[i]] = <<y>>
  <2>1. <<y>> = [k \in 1..1 |-> y]
    OBVIOUS
  <2> QED
    BY <1>1, <2>1
<1>4. Total(<<y>>) = y
  BY <1>2, TotalOne
<1> QED
  BY <1>1, <1>3, <1>4 DEF Counts

LEMMA CountsInsert ==
    ASSUME NEW U, NEW s \in Seq(Items(U)), NEW x \in Items(U), NEW p \in 1..(Len(s) + 1)
    PROVE  /\ InsertAt(s, p, x) \in Seq(Items(U))
           /\ Len(InsertAt(s, p, x)) = Len(s) + 1
           /\ \A i \in U : Counts(InsertAt(s, p, x), i) = Counts(s, i) + x.count[i]
<1> DEFINE X == Items(U)
           a == SubSeq(s, 1, p - 1)
           b == SubSeq(s, p, Len(s))
           ax == a \o <<x>>
<1>0. s \in Seq(X) /\ x \in X
  OBVIOUS
<1> HIDE DEF X
<1>1. /\ a \in Seq(X) /\ b \in Seq(X) /\ s = a \o b /\ Len(a) = p - 1 /\ Len(b) = Len(s) - p + 1
      /\ InsertAt(s, p, x) = ax \o b /\ <<x>> \in Seq(X)
  <2>1. a \o b = s /\ a \in Seq(X) /\ b \in Seq(X) /\ Len(a) = p - 1 /\ Len(b) = Len(s) - p + 1
    BY <1>0, Cut
  <2>2. InsertAt(s, p, x) = ax \o b
    BY DEF InsertAt
  <2>3. <<x>> \in Seq(X)
    BY <1>0
  <2> QED
    BY <2>1, <2>2, <2>3
<1> HIDE DEF a, b
<1>2. ax \in Seq(X) /\ Len(ax) = p
  BY <1>1
<1> HIDE DEF ax
<1>3. InsertAt(s, p, x) \in Seq(X) /\ Len(InsertAt(s, p, x)) = Len(s) + 1
  <2>1. ax \o b \in Seq(X) /\ Len(ax \o b) = Len(ax) + Len(b)
    BY <1>1, <1>2
  <2>2. PICK m \in Nat : m = Len(s)
    BY <1>0
  <2>3. Len(ax \o b) = m + 1
    BY <1>1, <1>2, <2>1, <2>2
  <2> QED
    BY <1>1, <2>1, <2>2, <2>3
<1>4. ASSUME NEW i \in U PROVE Counts(ax \o b, i) = Counts(a \o b, i) + x.count[i]
  <2>1. Counts(ax \o b, i) = Counts(ax, i) + Counts(b, i)
    BY <1>1, <1>2, CountsConcat DEF X
  <2>2. Counts(a \o b, i) = Counts(a, i) + Counts(b, i)
    BY <1>1, CountsConcat DEF X
  <2>3. Counts(ax, i) = Counts(a, i) + Counts(<<x>>, i)
    <3>1. a \in Seq(Items(U)) /\ <<x>> \in Seq(Items(U))
      BY <1>1 DEF X
    <3> DEFINE y == <<x>>
    <3> HIDE DEF y
    <3>11. a \in Seq(Items(U)) /\ y \in Seq(Items(U))
      BY <3>1 DEF y
    <3>12. Counts(a \o y, i) = Counts(a, i) + Counts(y, i)
      BY <3>11, CountsConcat
    <3>2. Counts(a \o <<x>>, i) = Counts(a, i) + Counts(<<x>>, i)
      BY <3>12 DEF y
    <3> QED
      BY <3>2 DEF ax
  <2>4. Counts(<<x>>, i) = x.count[i] /\ x.count[i] \in Nat
    <3>1. x.count[i] \in Nat
      BY DEF Items
    <3> QED
      BY <3>1, CountsOne
  <2>5. Counts(a, i) \in Nat /\ Counts(b, i) \in Nat
    BY <1>1, ItemFacts DEF X
  <2> QED
    BY <2>1, <2>2, <2>3, <2>4, <2>5
<1> QED
  BY <1>1, <1>3, <1>4 DEF X

\* Every symbol is in one leaf.
LEMMA LeavesFacts ==
    ASSUME NEW n \in Nat, NEW freqs \in [1..n -> Nat]
    PROVE  /\ Leaves(freqs) \in Seq(Items(Used(freqs)))
           /\ Len(Leaves(freqs)) = Cardinality(Used(freqs))
           /\ \A i \in Used(freqs) : Counts(Leaves(freqs), i) = 1
<1> DEFINE U == Used(freqs)
           c == Cardinality(U)
           X == Items(U)
           order == ByWeight(freqs)
           Item(i) == [weight |-> freqs[i], count |-> [j \in U |-> IF j = i THEN 1 ELSE 0]]
           s == Leaves(freqs)
<1>1. /\ U \subseteq 1..n /\ c \in Nat
      /\ order \in [1..c -> U] /\ \A i \in U : \E k \in 1..c : order[k] = i
      /\ \A j, k \in 1..c : order[j] = order[k] => j = k
  BY UsedFacts, ByWeightFacts
<1>2. s = [k \in DOMAIN order |-> Item(order[k])]
  BY DEF Leaves
<1>3. \A i \in U : freqs[i] \in Nat
  BY <1>1
<1> HIDE DEF U, order, c, s
<1>4. ASSUME NEW i \in U
      PROVE  Item(i) \in X /\ \A j \in U : Item(i).count[j] = IF j = i THEN 1 ELSE 0
  <2> DEFINE d == [j \in U |-> IF j = i THEN 1 ELSE 0]
             w == freqs[i]
  <2>1. d \in [U -> Nat] /\ w \in Nat /\ \A j \in U : d[j] = IF j = i THEN 1 ELSE 0
    BY <1>3
  <2>2. Item(i) = [weight |-> w, count |-> d]
    OBVIOUS
  <2> HIDE DEF d, w, Item
  <2>3. [weight |-> w, count |-> d] \in X /\ [weight |-> w, count |-> d].count = d
    BY <2>1 DEF Items
  <2> QED
    BY <2>1, <2>2, <2>3
<1>5. DOMAIN order = 1..c /\ \A k \in 1..c : order[k] \in U
  BY <1>1
<1> HIDE DEF Item, X
<1>6. s \in [1..c -> X] /\ \A k \in 1..c : s[k] = Item(order[k])
  BY <1>2, <1>4, <1>5
<1>7. s \in Seq(X) /\ Len(s) = c
  BY <1>1, <1>6
<1>8. ASSUME NEW i \in U PROVE Counts(s, i) = 1
  <2> DEFINE t == [k \in 1..Len(s) |-> s[k].count[i]]
  <2>1. PICK k0 \in 1..c : order[k0] = i
    BY <1>1
  <2> DEFINE g == [k \in 0..c |-> IF k < k0 THEN 0 ELSE 1]
  <2>2. t \in Seq(Nat) /\ Len(t) = c
    <3>1. s \in Seq(Items(U))
      BY <1>7 DEF X
    <3>2. t \in Seq(Nat) /\ Len(t) = Len(s)
      BY <3>1, ItemFacts
    <3> QED
      BY <3>2, <1>7
  <2>3. \A k \in 1..c : t[k] = IF k = k0 THEN 1 ELSE 0
    <3> TAKE k \in 1..c
    <3>1. t[k] = s[k].count[i]
      BY <1>7
    <3>2. s[k].count[i] = IF i = order[k] THEN 1 ELSE 0
      BY <1>4, <1>5, <1>6
    <3>3. i = order[k] <=> k = k0
      BY <1>1, <2>1
    <3> QED
      BY <3>1, <3>2, <3>3
  <2> HIDE DEF t
  <2>4. g[0] = 0 /\ g[c] = 1 /\ \A k \in 1..c : g[k] = g[k - 1] + t[k]
    <3>1. k0 \in 1..c /\ c \in Nat
      BY <1>1
    <3>2. g[0] = 0 /\ g[c] = 1
      BY <3>1
    <3>3. ASSUME NEW k \in 1..c PROVE g[k] = g[k - 1] + t[k]
      <4>1. t[k] = IF k = k0 THEN 1 ELSE 0
        BY <2>3
      <4>2. g[k] = (IF k < k0 THEN 0 ELSE 1) /\ g[k - 1] = (IF k - 1 < k0 THEN 0 ELSE 1)
        BY <3>1
      <4> HIDE DEF g
      <4> QED
        BY <3>1, <4>1, <4>2
    <3> QED
      BY <3>2, <3>3
  <2> HIDE DEF g
  <2>5. Total(t) = g[Len(t)]
    BY <2>2, <2>4, TotalIs
  <2> QED
    BY <2>2, <2>4, <2>5 DEF Counts, t
<1> QED
  BY <1>7, <1>8 DEF U, c, s, X

\* In the packages is no symbol more often than in the items.
LEMMA PackagesFacts ==
    ASSUME NEW U, NEW items \in Seq(Items(U))
    PROVE  /\ Packages(items) \in Seq(Items(U))
           /\ \A i \in U : Counts(Packages(items), i) <= Counts(items, i)
<1> DEFINE X == Items(U)
           p == Packages(items)
<1>1. PICK n \in Nat : n = Len(items)
  <2>1. items \in Seq(X)
    OBVIOUS
  <2> HIDE DEF X
  <2> QED
    BY <2>1
<1>11. PICK d \in Nat : d = n \div 2 /\ (n = 2 * d \/ n = 2 * d + 1)
  BY <1>1
<1>2. \A k \in 1..n : /\ items[k] \in X /\ items[k].weight \in Nat
                      /\ DOMAIN items[k].count = U /\ \A i \in U : items[k].count[i] \in Nat
  <2>1. \A k \in 1..n : items[k] \in X
    BY <1>1, ItemFacts
  <2> QED
    BY <2>1 DEF Items
<1>3. \A k \in 1..d : 2 * k - 1 \in 1..n /\ 2 * k \in 1..n
  BY <1>11
<1> HIDE DEF X
<1>4. p = [k \in 1..d |->
            [weight |-> items[2 * k - 1].weight + items[2 * k].weight,
             count |-> [j \in U |-> items[2 * k - 1].count[j] + items[2 * k].count[j]]]]
  <2>1. p = [k \in 1..(n \div 2) |->
              [weight |-> items[2 * k - 1].weight + items[2 * k].weight,
               count |-> [j \in DOMAIN items[2 * k - 1].count |->
                            items[2 * k - 1].count[j] + items[2 * k].count[j]]]]
    BY <1>1 DEF Packages
  <2>2. \A k \in 1..d : DOMAIN items[2 * k - 1].count = U
    BY <1>2, <1>3
  <2> QED
    BY <1>11, <2>1, <2>2
<1>5. ASSUME NEW k \in 1..d
      PROVE  p[k] \in X /\ \A j \in U : p[k].count[j] = items[2 * k - 1].count[j] + items[2 * k].count[j]
  <2> DEFINE w == items[2 * k - 1].weight + items[2 * k].weight
             e == [j \in U |-> items[2 * k - 1].count[j] + items[2 * k].count[j]]
  <2>1. p[k] = [weight |-> w, count |-> e]
    BY <1>4
  <2>2. w \in Nat /\ e \in [U -> Nat]
    BY <1>2, <1>3
  <2>3. \A j \in U : e[j] = items[2 * k - 1].count[j] + items[2 * k].count[j]
    OBVIOUS
  <2> HIDE DEF w, e
  <2>4. [weight |-> w, count |-> e] \in X /\ [weight |-> w, count |-> e].count = e
    BY <2>2 DEF X, Items
  <2> QED
    BY <2>1, <2>3, <2>4
<1>6. p \in Seq(X) /\ Len(p) = d
  <2>1. p = [k \in 1..d |-> p[k]]
    BY <1>4
  <2> HIDE DEF p
  <2>2. p \in [1..d -> X]
    BY <1>5, <2>1
  <2> QED
    BY <2>2
<1> HIDE DEF p
<1>7. ASSUME NEW i \in U PROVE Counts(p, i) <= Counts(items, i)
  <2> DEFINE s == [k \in 1..Len(items) |-> items[k].count[i]]
             t == [k \in 1..Len(p) |-> p[k].count[i]]
  <2>1. s \in Seq(Nat) /\ Len(s) = n /\ t \in Seq(Nat) /\ Len(t) = d
    <3>1. s \in Seq(Nat) /\ Len(s) = n
      BY <1>1, ItemFacts
    <3>2. t \in Seq(Nat) /\ Len(t) = d
      BY <1>6, ItemFacts DEF X
    <3> QED
      BY <3>1, <3>2
  <2>2. \A k \in 1..n : s[k] = items[k].count[i] /\ s[k] \in Nat
    BY <1>1, <1>2
  <2>3. \A k \in 1..d : t[k] = s[2 * k - 1] + s[2 * k]
    <3> TAKE k \in 1..d
    <3>1. t[k] = p[k].count[i]
      BY <1>6
    <3>2. p[k].count[i] = items[2 * k - 1].count[i] + items[2 * k].count[i]
      BY <1>5
    <3> QED
      BY <3>1, <3>2, <2>2, <1>3
  <2>4. Counts(items, i) = Total(s) /\ Counts(p, i) = Total(t)
    BY DEF Counts
  <2> HIDE DEF s, t
  <2>5. PICK f \in [0..n -> Nat] : /\ f[0] = 0 /\ \A k \in 1..n : f[k] = f[k - 1] + s[k]
                                   /\ Total(s) = f[n]
    BY <2>1, TotalFact
  <2> DEFINE g == [k \in 0..d |-> f[2 * k]]
  <2>6. g[0] = 0 /\ g[d] = f[2 * d]
    BY <2>5, <1>11
  <2>7. ASSUME NEW k \in 1..d PROVE g[k] = g[k - 1] + t[k]
    <3>1. g[k] = f[2 * k] /\ g[k - 1] = f[2 * (k - 1)]
      BY <1>11
    <3>2. /\ 2 * k \in 1..n /\ 2 * k - 1 \in 1..n /\ (2 * k) - 1 = 2 * k - 1
          /\ (2 * k - 1) - 1 = 2 * (k - 1) /\ 2 * (k - 1) \in 0..n
      BY <1>3
    <3>3. f[2 * k] = f[2 * k - 1] + s[2 * k] /\ f[2 * k - 1] = f[2 * (k - 1)] + s[2 * k - 1]
      BY <2>5, <3>2
    <3>4. s[2 * k] \in Nat /\ s[2 * k - 1] \in Nat /\ f[2 * (k - 1)] \in Nat
      BY <2>2, <2>5, <3>2
    <3>5. t[k] = s[2 * k - 1] + s[2 * k]
      BY <2>3
    <3>6. PICK x \in Nat, y \in Nat, z \in Nat :
            x = f[2 * (k - 1)] /\ y = s[2 * k - 1] /\ z = s[2 * k]
      BY <3>4
    <3>7. f[2 * k] = (x + y) + z /\ t[k] = y + z
      BY <3>3, <3>5, <3>6
    <3>8. g[k] = (x + y) + z /\ g[k - 1] = x
      BY <3>1, <3>6, <3>7
    <3>9. (x + y) + z = x + (y + z)
      OBVIOUS
    <3> QED
      BY <3>7, <3>8, <3>9, Zenon
  <2> HIDE DEF g
  <2>8. Total(t) = g[d]
    BY <2>1, <2>6, <2>7, TotalIs
  <2>9. f[2 * d] <= f[n]
    <3>1. CASE n = 2 * d
      BY <3>1, <2>5
    <3>2. CASE n = 2 * d + 1
      <4>1. n \in 1..n /\ n - 1 = 2 * d /\ 2 * d \in 0..n
        BY <3>2, <1>11
      <4>2. f[n] = f[2 * d] + s[n] /\ s[n] \in Nat /\ f[2 * d] \in Nat
        BY <4>1, <2>2, <2>5
      <4> QED
        BY <4>2
    <3> QED
      BY <3>1, <3>2, <1>11
  <2> QED
    BY <2>4, <2>5, <2>6, <2>8, <2>9
<1> QED
  BY <1>6, <1>7 DEF p, X

\* The first k items, and one more.
LEMMA CountsNext ==
    ASSUME NEW U, NEW s \in Seq(Items(U)), NEW k \in 1..Len(s), NEW i \in U
    PROVE  /\ Counts(SubSeq(s, 1, k), i) = Counts(SubSeq(s, 1, k - 1), i) + s[k].count[i]
           /\ SubSeq(s, 1, k) \in Seq(Items(U)) /\ SubSeq(s, 1, k - 1) \in Seq(Items(U))
<1> DEFINE X == Items(U)
           a == SubSeq(s, 1, k - 1)
           b == SubSeq(s, 1, k)
           y == <<s[k]>>
<1>1. s \in Seq(X)
  OBVIOUS
<1>2. s[k] \in X
  BY ItemFacts
<1> HIDE DEF X
<1>3. PICK n \in Nat : n = Len(s)
  BY <1>1
<1>4. a \in Seq(X) /\ Len(a) = k - 1 /\ \A j \in 1..(k - 1) : a[j] = s[j]
  BY <1>1
<1>5. b \in Seq(X) /\ Len(b) = k /\ \A j \in 1..k : b[j] = s[j]
  BY <1>1
<1>6. y \in Seq(X) /\ Len(y) = 1 /\ y[1] = s[k]
  BY <1>2
<1> HIDE DEF a, b, y
<1> DEFINE c == a \o y
<1>7. c \in Seq(X) /\ Len(c) = k /\ c[k] = s[k] /\ \A j \in 1..(k - 1) : c[j] = s[j]
  <2>0. PICK l \in Nat : l = k - 1
    BY <1>3
  <2>1. c \in Seq(X) /\ Len(c) = l + 1 /\ c[l + 1] = y[1] /\ l + 1 = k
    <3>0. l + 1 = k
      BY <2>0, <1>3
    <3>1. Len(a) = l /\ l + 1 = k
      BY <2>0, <3>0, <1>4
    <3>2. c \in Seq(X) /\ Len(c) = Len(a) + 1 /\ c[Len(a) + 1] = y[1]
      <4>1. c \in Seq(X) /\ Len(c) = Len(a) + Len(y) /\ \A j \in 1..Len(y) : c[Len(a) + j] = y[j]
        <5>1. a \in Seq(X) /\ y \in Seq(X)
          BY <1>4, <1>6
        <5> QED
          BY <5>1, ConcatFacts
      <4>2. 1 \in 1..Len(y)
        BY <1>6
      <4> QED
        BY <4>1, <4>2, <1>6
    <3> QED
      BY <3>1, <3>2
  <2>2. \A j \in 1..(k - 1) : c[j] = a[j]
    BY <1>4, <1>6
  <2> QED
    BY <2>1, <2>2, <1>4, <1>6
<1> HIDE DEF c
<1>8. \A j \in 1..k : j = k \/ j \in 1..(k - 1)
  OBVIOUS
<1>9. b = c
  BY <1>5, <1>7, <1>8, SeqSame
<1>10. Counts(c, i) = Counts(a, i) + Counts(y, i)
  BY <1>4, <1>6, CountsConcat DEF X, c
<1>11. Counts(y, i) = s[k].count[i]
  BY <1>2, CountsOne DEF X, y
<1> QED
  BY <1>4, <1>5, <1>9, <1>10, <1>11 DEF a, b, X

\* Two lists into one: nothing is lost and nothing added.
LEMMA MergeSortedFacts ==
    ASSUME NEW U, NEW packages \in Seq(Items(U)), NEW leaves \in Seq(Items(U))
    PROVE  /\ MergeSorted(packages, leaves) \in Seq(Items(U))
           /\ \A i \in U : Counts(MergeSorted(packages, leaves), i)
                            = Counts(leaves, i) + Counts(packages, i)
<1> DEFINE X == Items(U)
           Rank(k) == k + Cardinality({l \in DOMAIN leaves : leaves[l].weight < packages[k].weight})
           at == [k \in DOMAIN packages |-> Rank(k)]
           steps == [k \in DOMAIN packages |-> k]
           front(k, i) == Counts(SubSeq(packages, 1, k), i)
<1>1. packages \in Seq(X) /\ leaves \in Seq(X)
  OBVIOUS
<1> HIDE DEF X
<1>2. PICK m \in Nat : m = Len(packages)
  BY <1>1
<1>3. PICK n \in Nat : n = Len(leaves)
  BY <1>1
<1>4. DOMAIN packages = 1..m /\ DOMAIN leaves = 1..n /\ \A k \in 1..m : packages[k] \in X
  BY <1>1, <1>2, <1>3
<1>5. ASSUME NEW k \in 1..m PROVE at[k] \in 1..(n + k)
  <2> DEFINE L == {l \in DOMAIN leaves : leaves[l].weight < packages[k].weight}
  <2>1. at[k] = k + Cardinality(L)
    BY <1>4
  <2>2. L \subseteq 1..n /\ IsFiniteSet(1..n) /\ Cardinality(1..n) = n
    BY <1>4, FS_Interval
  <2> HIDE DEF L
  <2>3. IsFiniteSet(L) /\ Cardinality(L) <= n
    BY <2>2, FS_Subset
  <2>4. PICK y \in Nat : y = Cardinality(L)
    BY <2>3, FS_CardinalityType
  <2> QED
    BY <2>1, <2>3, <2>4
<1>6. steps = [k \in 1..m |-> k] /\ Len(steps) = m /\ \A k \in 1..m : steps[k] = k
  <2>1. steps = [k \in 1..m |-> k]
    BY <1>4
  <2>2. [k \in 1..m |-> k] \in [1..m -> Nat]
    OBVIOUS
  <2>3. \A k \in 1..m : steps[k] = k
    BY <2>1
  <2> HIDE DEF steps
  <2> QED
    BY <2>1, <2>2, <2>3
<1> DEFINE S == [k \in 0..m |-> {s \in Seq(X) : Len(s) = n + k
                                    /\ \A i \in U : Counts(s, i) = Counts(leaves, i) + front(k, i)}]
           F == [t \in (1..m) \X Seq(X) |-> InsertAt(t[2], at[t[1]], packages[t[1]])]
           R(g) == [k \in 0..m |-> IF k = 0 THEN leaves
                                   ELSE InsertAt(g[k - 1], at[k], packages[k])]
           acc == CHOOSE g : g = R(g)
<1>7. MergeSorted(packages, leaves) = acc[m]
  <2> DEFINE Q(g) == [k \in 0..Len(steps) |-> IF k = 0 THEN leaves
                                   ELSE InsertAt(g[k - 1], at[steps[k]], packages[steps[k]])]
  <2>1. MergeSorted(packages, leaves) = (CHOOSE g : g = Q(g))[Len(steps)]
    BY DEF MergeSorted, Folded
  <2>2. \A g : Q(g) = R(g)
    <3> TAKE g
    <3>1. ASSUME NEW k \in 0..m
          PROVE (IF k = 0 THEN leaves ELSE InsertAt(g[k - 1], at[steps[k]], packages[steps[k]]))
                = (IF k = 0 THEN leaves ELSE InsertAt(g[k - 1], at[k], packages[k]))
      <4>1. k = 0 \/ k \in 1..m
        OBVIOUS
      <4> HIDE DEF steps, at
      <4> QED
        BY <4>1, <1>6
    <3> HIDE DEF steps, at
    <3> QED
      BY <3>1, <1>6
  <2> HIDE DEF Q, R
  <2> QED
    BY <2>1, <2>2, <1>6
<1> HIDE DEF at, steps
<1>8. \A k \in 0..m : S[k] = {s \in Seq(X) : Len(s) = n + k
                                  /\ \A i \in U : Counts(s, i) = Counts(leaves, i) + front(k, i)}
  OBVIOUS
<1>9. \A k \in 1..m : \A s \in Seq(X) : F[<<k, s>>] = InsertAt(s, at[k], packages[k])
  OBVIOUS
<1> HIDE DEF S, F, acc, front
<1>10. leaves \in S[0]
  <2>1. 0 \in 0..m /\ n + 0 = n
    BY <1>2
  <2>2. ASSUME NEW i \in U PROVE front(0, i) = 0 /\ Counts(leaves, i) \in Nat
    <3>1. SubSeq(packages, 1, 0) = <<>>
      BY <1>1
    <3>2. Counts(<<>>, i) = 0
      <4> DEFINE t == [k \in 1..Len(<<>>) |-> <<>>[k].count[i]]
                 g == [k \in 0..0 |-> 0]
      <4>1. t = <<>>
        OBVIOUS
      <4>2. g[0] = 0
        OBVIOUS
      <4>3. <<>> \in Seq(Nat) /\ Len(<<>>) = 0 /\ \A k \in 1..0 : FALSE
        OBVIOUS
      <4> HIDE DEF t, g
      <4>4. Total(<<>>) = g[Len(<<>>)]
        BY <4>2, <4>3, TotalIs
      <4> QED
        BY <4>1, <4>2, <4>3, <4>4 DEF Counts, t
    <3> QED
      BY <3>1, <3>2, ItemFacts DEF front
  <2>3. \A i \in U : Counts(leaves, i) = Counts(leaves, i) + front(0, i)
    BY <2>2
  <2> QED
    BY <2>1, <2>3, <1>1, <1>3, <1>8
<1>11. ASSUME NEW k \in 1..m, NEW s \in S[k - 1]
       PROVE  s \in Seq(X) /\ InsertAt(s, at[k], packages[k]) \in S[k]
  <2>1. k - 1 \in 0..m /\ k \in 0..m /\ n + (k - 1) + 1 = n + k
    BY <1>2, <1>3
  <2>2. /\ s \in Seq(X) /\ Len(s) = n + (k - 1)
        /\ \A i \in U : Counts(s, i) = Counts(leaves, i) + front(k - 1, i)
    <3>1. PICK j \in 0..m : j = k - 1
      BY <2>1
    <3>2. s \in S[j]
      BY <3>1
    <3>3. s \in {q \in Seq(X) : Len(q) = n + j
                    /\ \A i \in U : Counts(q, i) = Counts(leaves, i) + front(j, i)}
      BY <3>2, <1>8
    <3> QED
      BY <3>1, <3>3
  <2> DEFINE z == InsertAt(s, at[k], packages[k])
  <2>3. at[k] \in 1..(Len(s) + 1)
    BY <1>5, <2>1, <2>2
  <2>4. /\ z \in Seq(X) /\ Len(z) = Len(s) + 1
        /\ \A i \in U : Counts(z, i) = Counts(s, i) + packages[k].count[i]
    BY <1>4, <2>2, <2>3, CountsInsert DEF X
  <2> HIDE DEF z
  <2>5. ASSUME NEW i \in U PROVE Counts(z, i) = Counts(leaves, i) + front(k, i)
    <3>1. front(k, i) = front(k - 1, i) + packages[k].count[i]
      BY <1>2, CountsNext DEF front
    <3>2. Counts(leaves, i) \in Nat /\ front(k - 1, i) \in Nat /\ packages[k].count[i] \in Nat
      <4>1. SubSeq(packages, 1, k - 1) \in Seq(Items(U))
        BY <1>2, CountsNext
      <4>2. front(k - 1, i) \in Nat /\ Counts(leaves, i) \in Nat
        BY <4>1, ItemFacts DEF front
      <4>3. packages[k].count[i] \in Nat
        BY <1>2, ItemFacts
      <4> QED
        BY <4>2, <4>3
    <3>3. Counts(z, i) = Counts(s, i) + packages[k].count[i]
      BY <2>4
    <3>4. Counts(s, i) = Counts(leaves, i) + front(k - 1, i)
      BY <2>2
    <3> QED
      BY <3>1, <3>2, <3>3, <3>4
  <2>6. z \in S[k]
    BY <2>1, <2>2, <2>4, <2>5, <1>8
  <2> QED
    BY <2>2, <2>6 DEF z
<1>12. Ascends(S, m, F)
  BY <1>9, <1>11 DEF Ascends
<1>13. ASSUME NEW f, Climbs(f, S, leaves, m, F) PROVE Follows(acc, S, leaves, m, F)
  <2>1. /\ f = [k \in 0..m |-> f[k]] /\ f[0] = leaves
        /\ \A k \in 1..m : f[k - 1] \in S[k - 1] /\ f[k] = F[<<k, f[k - 1]>>]
        /\ \A k \in 0..m : k = 0 \/ k \in 1..m
    BY <1>13, ClimbIs
  <2>2. \A k \in 0..m : f[k] = IF k = 0 THEN leaves ELSE InsertAt(f[k - 1], at[k], packages[k])
    BY <2>1, <1>9, <1>11
  <2>3. R(f) = [k \in 0..m |-> f[k]]
    BY <2>2
  <2>4. acc = R(acc)
    BY <2>1, <2>3 DEF acc
  <2>5. acc[0] = leaves /\ \A k \in 1..m : acc[k] = InsertAt(acc[k - 1], at[k], packages[k])
    <3>1. 0 \in 0..m /\ \A k \in 1..m : k \in 0..m /\ k # 0
      BY <1>2
    <3> QED
      BY <2>4, <3>1
  <2> QED
    BY <2>5, <1>9, <1>11 DEF Follows
<1>14. acc[m] \in S[m] /\ m \in 0..m
  <2>1. m \in Nat
    OBVIOUS
  <2>2. acc[m] \in S[m]
    BY <2>1, <1>10, <1>12, <1>13, FoldFact
  <2> QED
    BY <2>1, <2>2
<1>15. SubSeq(packages, 1, m) = packages
  <2>1. SubSeq(packages, 1, m) \in Seq(X) /\ Len(SubSeq(packages, 1, m)) = m
        /\ \A k \in 1..m : SubSeq(packages, 1, m)[k] = packages[k]
    BY <1>1, <1>2
  <2> QED
    BY <2>1, <1>1, <1>2, SeqSame
<1>16. /\ acc[m] \in Seq(X)
       /\ \A i \in U : Counts(acc[m], i) = Counts(leaves, i) + Counts(packages, i)
  BY <1>8, <1>14, <1>15 DEF front
<1> QED
  BY <1>7, <1>16 DEF X

\* No symbol is in more items than the longest code has bits.
LEMMA PackageMergeFact ==
    ASSUME NEW n \in Nat, NEW freqs \in [1..n -> Nat], Used(freqs) # {}
    PROVE  package_merge_lengths(freqs) \in [1..n -> 0..MaxCodeLen]
<1> DEFINE U == Used(freqs)
           X == Items(U)
           leaves == Leaves(freqs)
           m == MaxCodeLen - 1
           steps == [k \in 1..MaxCodeLen - 1 |-> k]
           S == [k \in 0..m |-> {s \in Seq(X) : \A i \in U : Counts(s, i) <= k + 1}]
           F == [t \in (1..m) \X Seq(X) |-> MergeSorted(Packages(t[2]), leaves)]
           R(g) == [k \in 0..m |-> IF k = 0 THEN leaves ELSE MergeSorted(Packages(g[k - 1]), leaves)]
           acc == CHOOSE g : g = R(g)
           items == acc[m]
           take == 2 * Cardinality(U) - 2
           taken == IF take < Len(items) THEN take ELSE Len(items)
<1>1. m \in Nat /\ m + 1 = MaxCodeLen /\ MaxCodeLen \in Nat
  BY CodeLenAssumption
<1>2. steps = [k \in 1..m |-> k] /\ Len(steps) = m
  <2>1. [k \in 1..m |-> k] \in [1..m -> Nat]
    OBVIOUS
  <2> HIDE DEF m
  <2> QED
    BY <2>1, <1>1 DEF m
<1>3. leaves \in Seq(X) /\ \A i \in U : Counts(leaves, i) = 1
  BY LeavesFacts
<1>4. package_merge_lengths(freqs) =
        [i \in 1..n |-> IF freqs[i] = 0 THEN 0 ELSE Total([k \in 1..taken |-> items[k].count[i]])]
  <2> DEFINE Q(g) == [k \in 0..Len(steps) |-> IF k = 0 THEN leaves
                                              ELSE MergeSorted(Packages(g[k - 1]), leaves)]
             its == (CHOOSE g : g = Q(g))[Len(steps)]
             ts == IF take < Len(its) THEN take ELSE Len(its)
  <2>1. package_merge_lengths(freqs) =
          [i \in DOMAIN freqs |-> IF freqs[i] = 0 THEN 0 ELSE Total([k \in 1..ts |-> its[k].count[i]])]
    BY DEF package_merge_lengths, Folded
  <2>2. its = items
    BY <1>2
  <2> HIDE DEF its, items, take
  <2>3. ts = taken
    BY <2>2
  <2> QED
    BY <2>1, <2>2, <2>3
<1>5. U \subseteq 1..n /\ IsFiniteSet(U) /\ \A i \in 1..n : i \notin U => freqs[i] = 0
  BY UsedFacts
<1>6. take \in Nat
  <2>1. U # {} /\ IsFiniteSet(U)
    BY <1>5
  <2> HIDE DEF U
  <2>2. Cardinality(U) \in Nat /\ Cardinality(U) # 0
    BY <2>1, FS_CardinalityType, FS_EmptySet
  <2>3. PICK y \in Nat : y = Cardinality(U) /\ y # 0
    BY <2>2
  <2>4. 2 * y - 2 \in Nat
    BY <2>3
  <2> QED
    BY <2>3, <2>4
<1>7. \A k \in 0..m : S[k] = {s \in Seq(X) : \A i \in U : Counts(s, i) <= k + 1}
  OBVIOUS
<1>8. \A k \in 1..m : \A s \in Seq(X) : F[<<k, s>>] = MergeSorted(Packages(s), leaves)
  OBVIOUS
<1> HIDE DEF S, F, acc, X, U, leaves, m, steps, take
<1>9. leaves \in S[0]
  <2>1. 0 \in 0..m /\ 0 + 1 = 1 /\ 1 <= 1
    BY <1>1
  <2> QED
    BY <2>1, <1>3, <1>7
<1>10. ASSUME NEW k \in 1..m, NEW s \in S[k - 1]
       PROVE  s \in Seq(X) /\ MergeSorted(Packages(s), leaves) \in S[k]
  <2>1. PICK j \in 0..m : j = k - 1 /\ k \in 0..m /\ j + 1 = k
    BY <1>1
  <2>2. s \in Seq(X) /\ \A i \in U : Counts(s, i) <= k
    <3>1. s \in S[j]
      BY <2>1
    <3> QED
      BY <3>1, <2>1, <1>7
  <2> DEFINE p == Packages(s)
             z == MergeSorted(p, leaves)
  <2>3. p \in Seq(X) /\ \A i \in U : Counts(p, i) <= Counts(s, i)
    BY <2>2, PackagesFacts DEF X
  <2> HIDE DEF p
  <2>4. z \in Seq(X) /\ \A i \in U : Counts(z, i) = Counts(leaves, i) + Counts(p, i)
    BY <2>3, <1>3, MergeSortedFacts DEF X
  <2> HIDE DEF z
  <2>5. ASSUME NEW i \in U PROVE Counts(z, i) <= k + 1
    <3>1. Counts(p, i) \in Nat /\ Counts(s, i) \in Nat
      BY <2>2, <2>3, ItemFacts DEF X
    <3>2. Counts(z, i) = 1 + Counts(p, i) /\ Counts(p, i) <= Counts(s, i) /\ Counts(s, i) <= k
      BY <2>2, <2>3, <2>4, <1>3
    <3> QED
      BY <3>1, <3>2
  <2>6. z \in S[k]
    BY <2>1, <2>4, <2>5, <1>7
  <2> QED
    BY <2>2, <2>6 DEF z, p
<1>11. Ascends(S, m, F)
  BY <1>8, <1>10 DEF Ascends
<1>12. ASSUME NEW f, Climbs(f, S, leaves, m, F) PROVE Follows(acc, S, leaves, m, F)
  <2>1. /\ f = [k \in 0..m |-> f[k]] /\ f[0] = leaves
        /\ \A k \in 1..m : f[k - 1] \in S[k - 1] /\ f[k] = F[<<k, f[k - 1]>>]
        /\ \A k \in 0..m : k = 0 \/ k \in 1..m
    BY <1>1, <1>12, ClimbIs
  <2>2. \A k \in 0..m : f[k] = IF k = 0 THEN leaves ELSE MergeSorted(Packages(f[k - 1]), leaves)
    BY <2>1, <1>8, <1>10
  <2>3. R(f) = [k \in 0..m |-> f[k]]
    BY <2>2
  <2>4. acc = R(acc)
    BY <2>1, <2>3 DEF acc
  <2>5. acc[0] = leaves /\ \A k \in 1..m : acc[k] = MergeSorted(Packages(acc[k - 1]), leaves)
    <3>1. 0 \in 0..m /\ \A k \in 1..m : k \in 0..m /\ k # 0
      BY <1>1
    <3> QED
      BY <2>4, <3>1
  <2> QED
    BY <2>5, <1>8, <1>10 DEF Follows
<1>13. acc[m] \in S[m] /\ m \in 0..m
  <2>1. m \in Nat
    BY <1>1
  <2>2. acc[m] \in S[m]
    BY <2>1, <1>9, <1>11, <1>12, FoldFact
  <2> QED
    BY <2>1, <2>2
<1>14. items \in Seq(X) /\ \A i \in U : Counts(items, i) <= MaxCodeLen
  BY <1>1, <1>7, <1>13
<1> HIDE DEF items
<1>15. taken \in 0..Len(items)
  <2>1. Len(items) \in Nat
    BY <1>14
  <2> QED
    BY <2>1, <1>6
<1> HIDE DEF taken
<1>16. ASSUME NEW i \in 1..n
       PROVE  (IF freqs[i] = 0 THEN 0 ELSE Total([k \in 1..taken |-> items[k].count[i]]))
                \in 0..MaxCodeLen
  <2>1. CASE freqs[i] = 0
    BY <1>1, <2>1
  <2>2. CASE freqs[i] # 0
    <3>1. i \in U
      BY <1>5, <2>2
    <3> DEFINE s == [k \in 1..Len(items) |-> items[k].count[i]]
               t == [k \in 1..taken |-> items[k].count[i]]
    <3>2. s \in Seq(Nat) /\ Len(s) = Len(items)
      BY <3>1, <1>14, ItemFacts DEF X
    <3>3. t = [k \in 1..taken |-> s[k]] /\ t \in Seq(Nat)
      <4>1. \A k \in 1..taken : k \in 1..Len(items)
        BY <1>15
      <4>2. t = [k \in 1..taken |-> s[k]]
        BY <4>1
      <4>3. \A k \in 1..taken : s[k] \in Nat
        BY <3>2, <4>1
      <4>4. taken \in Nat
        BY <1>15
      <4> HIDE DEF t, s
      <4>5. t \in [1..taken -> Nat]
        BY <4>2, <4>3
      <4> QED
        BY <4>2, <4>4, <4>5
    <3>4. Total(s) <= MaxCodeLen
      BY <3>1, <1>14 DEF Counts
    <3> HIDE DEF s, t
    <3>5. Total(t) <= Total(s)
      BY <3>2, <3>3, <1>15, TotalFront
    <3>6. Total(t) \in Nat /\ Total(s) \in Nat
      BY <3>2, <3>3, TotalNat
    <3>7. Total(t) \in 0..MaxCodeLen
      BY <3>4, <3>5, <3>6, <1>1
    <3> QED
      BY <2>2, <3>7 DEF t
  <2> QED
    BY <2>1, <2>2
<1> QED
  BY <1>4, <1>16

\* The path lengths of a tree are what its codes may have.
LEMMA PathLengthsFact ==
    ASSUME NEW n \in Nat, NEW freqs \in [1..n -> Nat]
    PROVE  build_path_lengths(freqs) \in [1..n -> 0..MaxCodeLen]
<1> DEFINE U == Used(freqs)
           depths == Depths(freqs)
<1>1. MaxCodeLen \in Nat
  BY CodeLenAssumption
<1>2. U \subseteq 1..n /\ \A i \in 1..n : i \notin U => freqs[i] = 0
  BY UsedFacts
<1>3. CASE U = {}
  <2>1. build_path_lengths(freqs) = freqs
    BY <1>3 DEF build_path_lengths
  <2>2. \A i \in 1..n : freqs[i] = 0
    BY <1>2, <1>3
  <2> QED
    BY <1>1, <2>1, <2>2
<1>4. CASE U # {}
  <2>1. \A i \in U : depths[i] \in Nat
    BY <1>4, DepthsFacts
  <2>2. CASE \E i \in U : depths[i] > MaxCodeLen
    <3>1. build_path_lengths(freqs) = package_merge_lengths(freqs)
      BY <1>4, <2>2 DEF build_path_lengths
    <3> QED
      BY <1>4, <3>1, PackageMergeFact
  <2>3. CASE ~ \E i \in U : depths[i] > MaxCodeLen
    <3>1. build_path_lengths(freqs) = [i \in 1..n |-> IF freqs[i] = 0 THEN 0 ELSE depths[i]]
      BY <1>4, <2>3 DEF build_path_lengths
    <3> HIDE DEF U, depths
    <3>2. ASSUME NEW i \in 1..n PROVE (IF freqs[i] = 0 THEN 0 ELSE depths[i]) \in 0..MaxCodeLen
      BY <1>1, <1>2, <2>1, <2>3
    <3> QED
      BY <3>1, <3>2
  <2> QED
    BY <2>2, <2>3
<1> QED
  BY <1>3, <1>4

\* The pieces on either side of a place where two pieces meet.
LEMMA LeadsCut ==
    ASSUME NEW G, NEW X, NEW s \in Seq(X), NEW a, NEW b, NEW at, Meets(at, G, a, s, b),
           NEW k \in 0..Len(s)
    PROVE  /\ Leads(G, a, SubSeq(s, 1, k), at[k]) /\ Leads(G, at[k], SubSeq(s, k + 1, Len(s)), b)
           /\ SubSeq(s, 1, k) \in Seq(X) /\ SubSeq(s, k + 1, Len(s)) \in Seq(X)
           /\ at[k] \in Nat
<1> DEFINE u == SubSeq(s, 1, k)
           v == SubSeq(s, k + 1, Len(s))
<1>1. PICK n \in Nat : n = Len(s) /\ k \in 0..n
  OBVIOUS
<1>2. /\ at \in [0..n -> Nat] /\ at[0] = a /\ at[n] = b
      /\ \A j \in 1..n : <<at[j - 1], s[j], at[j]>> \in G
  BY <1>1 DEF Meets
<1>3. u \in Seq(X) /\ Len(u) = k /\ \A j \in 1..k : u[j] = s[j]
  BY <1>1
<1>4. v \in Seq(X) /\ Len(v) = n - k /\ \A j \in 1..(n - k) : v[j] = s[k + j]
  <2>1. v \in Seq(X) /\ Len(v) = n - k
    BY <1>1
  <2>2. \A j \in 1..(n - k) : v[j] = s[k + j]
    BY <1>1
  <2> QED
    BY <2>1, <2>2
<1> HIDE DEF u, v
<1>5. Leads(G, a, u, at[k])
  <2> DEFINE f == [j \in 0..k |-> at[j]]
  <2>1. \A j \in 0..k : f[j] = at[j] /\ j \in 0..n
    BY <1>1
  <2>2. f \in [0..k -> Nat]
    BY <2>1, <1>2
  <2>3. f[0] = a /\ f[k] = at[k]
    BY <2>1, <1>1, <1>2
  <2>4. ASSUME NEW j \in 1..k PROVE <<f[j - 1], u[j], f[j]>> \in G
    <3>1. j \in 1..n /\ j \in 0..k /\ j - 1 \in 0..k
      BY <1>1
    <3>2. f[j - 1] = at[j - 1] /\ f[j] = at[j] /\ u[j] = s[j]
      BY <2>1, <3>1, <1>3
    <3> QED
      BY <3>1, <3>2, <1>2
  <2> HIDE DEF f
  <2>5. Meets(f, G, a, u, at[k])
    BY <2>2, <2>3, <2>4, <1>3 DEF Meets
  <2> QED
    BY <2>5 DEF Leads
<1>6. Leads(G, at[k], v, b)
  <2> DEFINE f == [j \in 0..(n - k) |-> at[k + j]]
  <2>1. \A j \in 0..(n - k) : f[j] = at[k + j] /\ k + j \in 0..n
    BY <1>1
  <2>2. f \in [0..(n - k) -> Nat]
    BY <2>1, <1>2
  <2>3. f[0] = at[k] /\ f[n - k] = b
    <3>1. 0 \in 0..(n - k) /\ n - k \in 0..(n - k) /\ k + 0 = k /\ k + (n - k) = n
      BY <1>1
    <3> QED
      BY <2>1, <3>1, <1>2
  <2>4. ASSUME NEW j \in 1..(n - k) PROVE <<f[j - 1], v[j], f[j]>> \in G
    <3>1. /\ k + j \in 1..n /\ j \in 0..(n - k) /\ j - 1 \in 0..(n - k)
          /\ k + (j - 1) = (k + j) - 1
      BY <1>1
    <3>2. f[j - 1] = at[(k + j) - 1] /\ f[j] = at[k + j] /\ v[j] = s[k + j]
      BY <2>1, <3>1, <1>4
    <3> QED
      BY <3>1, <3>2, <1>2
  <2> HIDE DEF f
  <2>5. Meets(f, G, at[k], v, b)
    BY <2>2, <2>3, <2>4, <1>4 DEF Meets
  <2> QED
    BY <2>5 DEF Leads
<1>7. at[k] \in Nat
  BY <1>1, <1>2
<1> QED
  BY <1>3, <1>4, <1>5, <1>6, <1>7 DEF u, v

-----------------------------------------------------------------------------
(* The pretree ops: each sends the path lengths from where it starts. *)

Ops == [symbol : 0..19, cover : Nat \ {0}, delta : 0..16]

\* What an op says a length is.
Value(op, old) ==
    CASE op.symbol \in {17, 18} -> 0
      [] op.symbol = 19 -> (17 + old - op.delta) % 17
      [] OTHER -> (17 + old - op.symbol) % 17

Sends(old, new) ==
    {t \in Nat \X Ops \X Nat :
        /\ t[3] = t[1] + t[2].cover /\ t[3] <= Len(new)
        /\ \A k \in 1..t[2].cover : Value(t[2], old[t[1] + 1]) = new[t[1] + k]}

LEMMA SendsIs ==
    ASSUME NEW old, NEW new, NEW a, NEW op, NEW b
    PROVE  <<a, op, b>> \in Sends(old, new) <=>
            /\ a \in Nat /\ op \in Ops /\ b \in Nat
            /\ b = a + op.cover /\ b <= Len(new)
            /\ \A k \in 1..op.cover : Value(op, old[a + 1]) = new[a + k]
  BY DEF Sends

OpSends(old, new, a, op, b) ==
    /\ op \in Ops /\ b = a + op.cover /\ b <= Len(new)
    /\ \A j \in 1..op.cover : Value(op, old[a + 1]) = new[a + j]

LEMMA SendsParts ==
    ASSUME NEW old, NEW new, NEW a, NEW op, NEW b, <<a, op, b>> \in Sends(old, new)
    PROVE  OpSends(old, new, a, op, b)
  BY SendsIs DEF OpSends

LEMMA OpFacts ==
    ASSUME NEW s \in 0..19, NEW c \in Nat \ {0}, NEW d \in 0..16
    PROVE  /\ Op(s, c, d) \in Ops
           /\ Op(s, c, d).symbol = s /\ Op(s, c, d).cover = c /\ Op(s, c, d).delta = d
  BY DEF Op, Ops

LEMMA DeltaFacts ==
    ASSUME NEW o \in 0..16, NEW v \in 0..16
    PROVE  Delta(o, v) \in 0..16 /\ (17 + o - Delta(o, v)) % 17 = v
<1>1. CASE o >= v
  <2>1. (17 + o - v) % 17 = o - v
    BY <1>1
  <2>2. (17 + o - (o - v)) % 17 = v
    BY <1>1
  <2> QED
    BY <1>1, <2>1, <2>2 DEF Delta
<1>2. CASE o < v
  <2>1. (17 + o - v) % 17 = 17 + o - v
    BY <1>2
  <2>2. (17 + o - (17 + o - v)) % 17 = v
    BY <1>2
  <2> QED
    BY <1>2, <2>1, <2>2 DEF Delta
<1> QED
  BY <1>1, <1>2

\* An op in the place where its values are.
LEMMA ZeroSends ==
    ASSUME NEW old, NEW new, NEW a \in Nat, NEW s \in {17, 18}, NEW c \in Nat \ {0},
           a + c <= Len(new), \A k \in 1..c : new[a + k] = 0
    PROVE  <<a, Op(s, c, 0), a + c>> \in Sends(old, new)
<1> DEFINE op == Op(s, c, 0)
<1>1. op \in Ops /\ op.symbol = s /\ op.cover = c
  BY DEF Op, Ops
<1> HIDE DEF op
<1>2. Value(op, old[a + 1]) = 0
  BY <1>1 DEF Value
<1>3. a + c \in Nat
  OBVIOUS
<1>31. \A k \in 1..op.cover : Value(op, old[a + 1]) = new[a + k]
  BY <1>1, <1>2
<1>32. a + c = a + op.cover
  BY <1>1
<1>4. <<a, op, a + c>> \in Sends(old, new)
  BY <1>1, <1>3, <1>31, <1>32, SendsIs, Zenon
<1> QED
  BY <1>4 DEF op

LEMMA SameSends ==
    ASSUME NEW old, NEW new, NEW a \in Nat, NEW c \in Nat \ {0}, NEW v \in 0..16,
           old[a + 1] \in 0..16, a + c <= Len(new), \A k \in 1..c : new[a + k] = v
    PROVE  <<a, Op(19, c, Delta(old[a + 1], v)), a + c>> \in Sends(old, new)
<1> DEFINE d == Delta(old[a + 1], v)
           op == Op(19, c, d)
<1>1. d \in 0..16 /\ (17 + old[a + 1] - d) % 17 = v
  BY DeltaFacts
<1> HIDE DEF d
<1>2. op \in Ops /\ op.symbol = 19 /\ op.cover = c /\ op.delta = d
  BY <1>1 DEF Op, Ops
<1> HIDE DEF op
<1>3. Value(op, old[a + 1]) = v
  BY <1>1, <1>2 DEF Value
<1>4. a + c \in Nat
  OBVIOUS
<1>41. \A k \in 1..op.cover : Value(op, old[a + 1]) = new[a + k]
  BY <1>2, <1>3
<1>42. a + c = a + op.cover
  BY <1>2
<1>5. <<a, op, a + c>> \in Sends(old, new)
  BY <1>2, <1>4, <1>41, <1>42, SendsIs, Zenon
<1> QED
  BY <1>5 DEF op, d

LEMMA LiteralSends ==
    ASSUME NEW old, NEW new, NEW a \in Nat, NEW v \in 0..16,
           old[a + 1] \in 0..16, a + 1 <= Len(new), new[a + 1] = v
    PROVE  <<a, Literal(old[a + 1], v), a + 1>> \in Sends(old, new)
           /\ Literal(old[a + 1], v) \in Ops
<1> DEFINE d == Delta(old[a + 1], v)
           op == Op(d, 1, 0)
<1>1. d \in 0..16 /\ (17 + old[a + 1] - d) % 17 = v
  BY DeltaFacts
<1>11. Literal(old[a + 1], v) = op
  BY DEF Literal
<1> HIDE DEF d
<1>2. op \in Ops /\ op.symbol = d /\ op.cover = 1
  <2>1. d \in 0..19 /\ 1 \in Nat \ {0} /\ 0 \in 0..16
    BY <1>1
  <2> HIDE DEF op
  <2>2. /\ Op(d, 1, 0) \in Ops /\ Op(d, 1, 0).symbol = d /\ Op(d, 1, 0).cover = 1
    BY <2>1 DEF Op, Ops
  <2> QED
    BY <2>2 DEF op
<1> HIDE DEF op
<1>3. Value(op, old[a + 1]) = v
  <2>1. op.symbol \notin {17, 18} /\ op.symbol # 19
    BY <1>1, <1>2
  <2> QED
    BY <1>1, <1>2, <2>1 DEF Value
<1>4. a + 1 \in Nat /\ \A k \in 1..1 : k = 1
  OBVIOUS
<1>41. \A k \in 1..op.cover : Value(op, old[a + 1]) = new[a + k]
  BY <1>2, <1>3, <1>4
<1>42. a + 1 = a + op.cover /\ a + 1 \in Nat
  BY <1>2
<1>5. <<a, op, a + 1>> \in Sends(old, new)
  BY <1>2, <1>41, <1>42, SendsIs, Zenon
<1> QED
  BY <1>2, <1>5, <1>11

\* A sequence whose places are a function of the position.
LEMMA LeadsBy ==
    ASSUME NEW G, NEW X, NEW m \in Nat, NEW s, s = [k \in 1..m |-> s[k]], NEW at \in [0..m -> Nat],
           \A k \in 1..m : s[k] \in X /\ <<at[k - 1], s[k], at[k]>> \in G
    PROVE  s \in Seq(X) /\ Leads(G, at[0], s, at[m])
<1>1. s \in [1..m -> X]
  OBVIOUS
<1>2. s \in Seq(X) /\ Len(s) = m
  BY <1>1
<1>3. Meets(at, G, at[0], s, at[m])
  BY <1>2 DEF Meets
<1> QED
  BY <1>2, <1>3 DEF Leads

LEMMA LiteralsLead ==
    ASSUME NEW n \in Nat, NEW old \in [1..n -> 0..16], NEW new \in [1..n -> 0..16],
           NEW from \in Nat \ {0}, NEW count \in Nat, from + count <= n + 1
    PROVE  /\ Literals(old, new, from, count) \in Seq(Ops)
           /\ Leads(Sends(old, new), from - 1, Literals(old, new, from, count), from + count - 1)
<1> DEFINE s == Literals(old, new, from, count)
           at == [k \in 0..count |-> from + k - 1]
           G == Sends(old, new)
<1>0. Len(new) = n
  OBVIOUS
<1>1. s = [k \in 1..count |-> Literal(old[from + k - 1], new[from + k - 1])]
  BY DEF Literals
<1>2. at \in [0..count -> Nat] /\ at[0] = from - 1 /\ at[count] = from + count - 1
  OBVIOUS
<1>3. ASSUME NEW k \in 1..count PROVE s[k] \in Ops /\ <<at[k - 1], s[k], at[k]>> \in G
  <2>1. PICK a \in Nat : a = from + k - 2
    OBVIOUS
  <2>2. a + 1 = from + k - 1 /\ a + 1 \in 1..n
    BY <2>1
  <2>3. PICK v \in 0..16 : v = new[a + 1]
    BY <2>2
  <2>4. old[a + 1] \in 0..16
    BY <2>2
  <2>5. <<a, Literal(old[a + 1], v), a + 1>> \in G /\ Literal(old[a + 1], v) \in Ops
    <3>1. a + 1 <= Len(new)
      BY <2>2, <1>0
    <3> HIDE DEF G
    <3> QED
      BY <2>3, <2>4, <3>1, LiteralSends DEF G
  <2>6. s[k] = Literal(old[a + 1], v)
    BY <1>1, <2>2, <2>3
  <2>7. at[k - 1] = a /\ at[k] = a + 1
    BY <2>1
  <2> HIDE DEF s, at, G
  <2> QED
    BY <2>5, <2>6, <2>7
<1>4. s = [k \in 1..count |-> s[k]]
  BY <1>1
<1> HIDE DEF s, at, G
<1>5. s \in Seq(Ops) /\ Leads(G, at[0], s, at[count])
  BY <1>2, <1>3, <1>4, LeadsBy
<1> QED
  BY <1>2, <1>5 DEF s, G

LEMMA ZeroOpsLead ==
    ASSUME NEW n \in Nat, NEW old \in [1..n -> 0..16], NEW new \in [1..n -> 0..16],
           NEW from \in Nat \ {0}, NEW run \in Nat \ {0}, from + run <= n + 1,
           \A k \in 1..run : new[from + k - 1] = 0
    PROVE  /\ ZeroOps(old, new, from, run) \in Seq(Ops)
           /\ Leads(Sends(old, new), from - 1, ZeroOps(old, new, from, run), from + run - 1)
<1> DEFINE G == Sends(old, new)
<1>0. Len(new) = n
  OBVIOUS
<1>1. PICK q \in Nat : q = run \div 51
  OBVIOUS
<1>2. PICK rest \in 0..50 : rest = run % 51
  OBVIOUS
<1>3. run = 51 * q + rest
  BY <1>1, <1>2
<1> DEFINE s == [k \in 1..q |-> Op(18, 51, 0)]
           z == from + run - rest
           t == CASE rest >= 20 -> <<Op(18, rest, 0)>>
                  [] rest \in 4..19 -> <<Op(17, rest, 0)>>
                  [] OTHER -> Literals(old, new, z, rest)
           at == [k \in 0..q |-> from + 51 * k - 1]
<1>4. ZeroOps(old, new, from, run) = s \o t
  BY <1>1, <1>2 DEF ZeroOps
<1>5. z \in Nat \ {0} /\ z = from + 51 * q /\ z - 1 \in Nat /\ z + rest = from + run
  BY <1>3
<1>6. \A a \in Nat, c \in Nat : from - 1 <= a /\ a + c <= from + run - 1
                                 => \A k \in 1..c : new[a + k] = 0
  <2> SUFFICES ASSUME NEW a \in Nat, NEW c \in Nat, from - 1 <= a, a + c <= from + run - 1,
                      NEW k \in 1..c
               PROVE  new[a + k] = 0
    OBVIOUS
  <2>1. PICK j \in 1..run : j = a + k - from + 1
    OBVIOUS
  <2>2. from + j - 1 = a + k
    BY <2>1
  <2> QED
    BY <2>2
<1>7. at \in [0..q -> Nat] /\ at[0] = from - 1 /\ at[q] = z - 1
  BY <1>5
<1>8. ASSUME NEW k \in 1..q PROVE s[k] \in Ops /\ <<at[k - 1], s[k], at[k]>> \in G
  <2>1. PICK a \in Nat : a = from + 51 * (k - 1) - 1
    OBVIOUS
  <2>2. at[k - 1] = a /\ at[k] = a + 51
    BY <2>1
  <2>3. a + 51 <= from + run - 1 /\ from - 1 <= a
    BY <2>1, <1>3
  <2>4. \A j \in 1..51 : new[a + j] = 0
    BY <2>3, <1>6
  <2>5. <<a, Op(18, 51, 0), a + 51>> \in G
    <3>1. a + 51 <= Len(new)
      BY <2>3, <1>0
    <3> HIDE DEF G
    <3>2. PICK c \in Nat \ {0} : c = 51
      OBVIOUS
    <3>3. PICK y \in {17, 18} : y = 18
      OBVIOUS
    <3>4. <<a, Op(y, c, 0), a + c>> \in G
      BY <2>4, <3>1, <3>2, ZeroSends DEF G
    <3> QED
      BY <3>2, <3>3, <3>4
  <2>6. s[k] = Op(18, 51, 0) /\ Op(18, 51, 0) \in Ops
    BY DEF Op, Ops
  <2> HIDE DEF s, at, G
  <2> QED
    BY <2>2, <2>5, <2>6
<1>9. s = [k \in 1..q |-> s[k]]
  OBVIOUS
<1>10. s \in Seq(Ops) /\ Leads(G, from - 1, s, z - 1)
  <2> HIDE DEF s, at, G, z
  <2>1. s \in Seq(Ops) /\ Leads(G, at[0], s, at[q])
    BY <1>7, <1>8, <1>9, LeadsBy
  <2> QED
    BY <2>1, <1>7
<1>11. t \in Seq(Ops) /\ Leads(G, z - 1, t, from + run - 1)
  <2>1. ASSUME rest \in 4..50, NEW y \in {17, 18}
        PROVE <<Op(y, rest, 0)>> \in Seq(Ops) /\ Leads(G, z - 1, <<Op(y, rest, 0)>>, from + run - 1)
    <3>1. PICK a \in Nat : a = z - 1
      BY <1>5
    <3>2. a + rest = from + run - 1 /\ from - 1 <= a /\ rest \in Nat \ {0} /\ a + rest <= n
      BY <2>1, <3>1, <1>5
    <3>3. \A j \in 1..rest : new[a + j] = 0
      <4>1. rest \in Nat /\ a + rest <= from + run - 1
        BY <3>2
      <4> QED
        BY <3>2, <4>1, <1>6
    <3> DEFINE op == Op(y, rest, 0)
    <3>4. op \in Ops
      BY <3>2 DEF Op, Ops
    <3> HIDE DEF G, op, z
    <3>5. <<a, op, a + rest>> \in G
      BY <3>2, <3>3, <1>0, ZeroSends DEF G, op
    <3>6. a + rest \in Nat
      OBVIOUS
    <3>7. Leads(G, a, <<op>>, a + rest)
      BY <3>5, <3>6, LeadsOne
    <3>8. <<op>> \in Seq(Ops)
      BY <3>4
    <3> QED
      BY <3>1, <3>2, <3>7, <3>8 DEF op
  <2>2. CASE rest >= 20
    <3>0. rest >= 20 /\ ~(rest \in 4..19) /\ rest \in 4..50
      BY <2>2
    <3>1. t = <<Op(18, rest, 0)>> /\ rest \in 4..50
      BY <3>0, Zenon
    <3> HIDE DEF t, G, z
    <3> QED
      BY <2>1, <3>1
  <2>3. CASE rest \in 4..19
    <3>0. ~(rest >= 20) /\ rest \in 4..19 /\ rest \in 4..50
      BY <2>3
    <3>1. t = <<Op(17, rest, 0)>> /\ rest \in 4..50
      BY <3>0, Zenon
    <3> HIDE DEF t, G, z
    <3> QED
      BY <2>1, <3>1
  <2>4. CASE rest \in 0..3
    <3>0. ~(rest >= 20) /\ ~(rest \in 4..19)
      BY <2>4
    <3>1. t = Literals(old, new, z, rest)
      BY <3>0, Zenon
    <3>2. rest \in Nat /\ z + rest <= n + 1 /\ z + rest - 1 = from + run - 1
      BY <1>5
    <3> HIDE DEF t, G, z
    <3>3. t \in Seq(Ops) /\ Leads(G, z - 1, t, z + rest - 1)
      BY <3>1, <3>2, <1>5, LiteralsLead DEF G
    <3> QED
      BY <3>2, <3>3
  <2>5. rest >= 20 \/ rest \in 4..19 \/ rest \in 0..3
    OBVIOUS
  <2> HIDE DEF t, G, z
  <2> QED
    BY <2>2, <2>3, <2>4, <2>5, Zenon
<1> HIDE DEF s, t, G, z
<1>12. s \o t \in Seq(Ops) /\ Leads(G, from - 1, s \o t, from + run - 1)
  BY <1>10, <1>11, LeadsOn
<1> QED
  BY <1>4, <1>12 DEF G

\* The pieces of a run of equal lengths make up the run.
LEMMA CoverFacts ==
    ASSUME NEW run \in Nat \ {0}
    PROVE  /\ cover_same_run(run).fives \in Nat /\ cover_same_run(run).fours \in Nat
           /\ cover_same_run(run).literals \in Nat
           /\ 5 * cover_same_run(run).fives + 4 * cover_same_run(run).fours
                + cover_same_run(run).literals = run
<1> DEFINE f == CASE run < 5 -> 0
                  [] run \in 5..11 -> IF run = 8 THEN 0 ELSE IF run < 10 THEN 1 ELSE 2
                  [] OTHER -> run % 4
           o == CASE run \in {5, 6, 7, 10, 11} -> 0
                  [] OTHER -> (run - 5 * f) \div 4
<1>1. f \in Nat /\ 5 * f <= run
  <2>1. CASE run < 5
    <3>1. run < 5 /\ ~(run \in 5..11)
      BY <2>1
    <3>2. f = 0
      BY <3>1, Zenon
    <3> HIDE DEF f
    <3> QED
      BY <3>2
  <2>2. CASE run \in 5..11
    <3>1. ~(run < 5) /\ run \in 5..11
      BY <2>2
    <3>2. f = IF run = 8 THEN 0 ELSE IF run < 10 THEN 1 ELSE 2
      BY <3>1, Zenon
    <3> HIDE DEF f
    <3> QED
      BY <2>2, <3>2
  <2>3. CASE run >= 12
    <3>1. ~(run < 5) /\ ~(run \in 5..11)
      BY <2>3
    <3>2. f = run % 4
      BY <3>1, Zenon
    <3> HIDE DEF f
    <3>3. run % 4 \in 0..3 /\ 5 * (run % 4) <= run
      <4>1. PICK q \in Nat : q = run \div 4
        OBVIOUS
      <4>2. PICK e \in 0..3 : e = run % 4
        OBVIOUS
      <4>3. run = 4 * q + e
        BY <4>1, <4>2
      <4>4. 5 * e <= run
        BY <2>3, <4>3
      <4> QED
        BY <4>2, <4>4
    <3> QED
      BY <3>2, <3>3
  <2> QED
    <3>1. run < 5 \/ run \in 5..11 \/ run >= 12
      OBVIOUS
    <3> HIDE DEF f
    <3> QED
      BY <2>1, <2>2, <2>3, <3>1
<1> HIDE DEF f
<1>2. o \in Nat /\ 4 * o <= run - 5 * f
  <2>1. CASE run \in {5, 6, 7, 10, 11}
    <3>1. o = 0
      BY <2>1, Zenon
    <3> HIDE DEF o
    <3> QED
      BY <3>1, <1>1
  <2>2. CASE ~(run \in {5, 6, 7, 10, 11})
    <3>1. o = (run - 5 * f) \div 4
      BY <2>2, Zenon
    <3>2. PICK y \in Nat : y = run - 5 * f
      BY <1>1
    <3> HIDE DEF o
    <3>3. y \div 4 \in Nat /\ 4 * (y \div 4) <= y
      OBVIOUS
    <3> QED
      BY <3>1, <3>2, <3>3
  <2> HIDE DEF o
  <2> QED
    BY <2>1, <2>2
<1> HIDE DEF o
<1>3. cover_same_run(run) = [fives |-> f, fours |-> o, literals |-> run - 5 * f - 4 * o]
  BY DEF cover_same_run, f, o
<1>4. run - 5 * f - 4 * o \in Nat /\ 5 * f + 4 * o + (run - 5 * f - 4 * o) = run
  BY <1>1, <1>2
<1> QED
  BY <1>1, <1>2, <1>3, <1>4

LEMMA SameOpsLead ==
    ASSUME NEW n \in Nat, NEW old \in [1..n -> 0..16], NEW new \in [1..n -> 0..16],
           NEW from \in Nat \ {0}, NEW run \in Nat \ {0}, from + run <= n + 1,
           \A k \in 1..run : new[from + k - 1] = new[from]
    PROVE  /\ SameOps(old, new, from, run) \in Seq(Ops)
           /\ Leads(Sends(old, new), from - 1, SameOps(old, new, from, run), from + run - 1)
<1> DEFINE G == Sends(old, new)
           f == cover_same_run(run).fives
           o == cover_same_run(run).fours
           l == cover_same_run(run).literals
           m == f + o
           covers == [k \in 1..m |-> IF k <= f THEN 5 ELSE 4]
           At(k) == from + IF k <= f THEN 5 * (k - 1) ELSE 5 * f + 4 * (k - 1 - f)
           s == [k \in DOMAIN covers |-> Op(19, covers[k], Delta(old[At(k)], new[At(k)]))]
           t == Literals(old, new, from + run - l, l)
           at == [k \in 0..m |-> from - 1 + IF k <= f THEN 5 * k ELSE 5 * f + 4 * (k - f)]
<1>0. Len(new) = n
  OBVIOUS
<1>1. f \in Nat /\ o \in Nat /\ l \in Nat /\ m \in Nat /\ 5 * f + 4 * o + l = run
  BY CoverFacts
<1>2. SameOps(old, new, from, run) = s \o t
  BY DEF SameOps
<1> HIDE DEF f, o, l
<1> DEFINE z == from + run - l
<1>3. z \in Nat \ {0} /\ z = from + 5 * f + 4 * o /\ z + l = from + run
  BY <1>1
<1>4. at \in [0..m -> Nat] /\ at[0] = from - 1 /\ at[m] = z - 1
  <2>1. ASSUME NEW k \in 0..m
        PROVE (from - 1 + IF k <= f THEN 5 * k ELSE 5 * f + 4 * (k - f)) \in Nat
    <3>1. CASE k <= f
      BY <3>1, <1>1
    <3>2. CASE ~(k <= f)
      <4>1. PICK j \in Nat : j = k - f
        BY <3>2, <1>1
      <4> QED
        BY <3>2, <4>1, <1>1
    <3> QED
      BY <3>1, <3>2
  <2>2. at[0] = from - 1
    BY <1>1
  <2>3. at[m] = z - 1
    BY <1>1, <1>3
  <2> QED
    BY <2>1, <2>2, <2>3
<1>5. ASSUME NEW k \in 1..m PROVE s[k] \in Ops /\ <<at[k - 1], s[k], at[k]>> \in G
  <2> DEFINE c == IF k <= f THEN 5 ELSE 4
  <2>1. c \in Nat \ {0} /\ covers[k] = c
    OBVIOUS
  <2>2. at[k - 1] \in Nat /\ at[k - 1] + 1 = At(k) /\ at[k] = at[k - 1] + c
        /\ at[k - 1] >= from - 1 /\ at[k - 1] + c <= from + run - 1
    <3>1. k - 1 \in 0..m /\ k \in 0..m /\ k - 1 \in Int /\ k \in Int
      BY <1>1
    <3>2. CASE k <= f
      <4>1. at[k - 1] = from - 1 + 5 * (k - 1) /\ at[k] = from - 1 + 5 * k
        BY <3>1, <3>2, <1>1
      <4>2. At(k) = from + 5 * (k - 1) /\ c = 5
        BY <3>2
      <4> HIDE DEF at, At, c
      <4> QED
        BY <3>2, <4>1, <4>2, <1>1
    <3>3. CASE k = f + 1
      <4>1. at[k - 1] = from - 1 + 5 * f /\ at[k] = from - 1 + (5 * f + 4 * 1)
        BY <3>1, <3>3, <1>1
      <4>2. At(k) = from + (5 * f + 4 * 0) /\ c = 4
        BY <3>3, <1>1
      <4>3. o >= 1
        BY <3>3, <1>1
      <4> HIDE DEF at, At, c
      <4> QED
        BY <3>3, <4>1, <4>2, <4>3, <1>1
    <3>4. CASE k > f + 1
      <4>0. PICK j \in Nat : j = k - f /\ j > 1 /\ j <= o
        BY <3>4, <1>1
      <4>1. at[k - 1] = from - 1 + (5 * f + 4 * (j - 1)) /\ at[k] = from - 1 + (5 * f + 4 * j)
        BY <3>1, <3>4, <4>0, <1>1
      <4>2. At(k) = from + (5 * f + 4 * (j - 1)) /\ c = 4
        BY <3>4, <4>0, <1>1
      <4> HIDE DEF at, At, c
      <4> QED
        BY <4>0, <4>1, <4>2, <1>1
    <3> QED
      BY <3>2, <3>3, <3>4, <1>1
  <2>3. PICK a \in Nat : a = at[k - 1]
    BY <2>2
  <2>4. At(k) = a + 1 /\ at[k] = a + c /\ s[k] = Op(19, c, Delta(old[a + 1], new[a + 1]))
    BY <2>1, <2>2, <2>3
  <2>5. a >= from - 1 /\ a + c <= from + run - 1
    BY <2>2, <2>3
  <2> HIDE DEF at, At, s, covers, c, G
  <2>6. ASSUME NEW j \in 1..c PROVE new[a + j] = new[from]
    <3>1. PICK i \in 1..run : i = a + j - from + 1
      BY <2>1, <2>5
    <3>2. from + i - 1 = a + j
      BY <3>1
    <3>3. new[from + i - 1] = new[from]
      OBVIOUS
    <3> QED
      BY <3>2, <3>3
  <2>7. from \in 1..n /\ a + 1 \in 1..n /\ a + c <= n /\ 1 \in 1..c
    BY <2>1, <2>5
  <2>8. PICK v \in 0..16 : v = new[from]
    BY <2>7
  <2>9. new[a + 1] = v /\ old[a + 1] \in 0..16
    BY <2>6, <2>7, <2>8
  <2>10. <<a, Op(19, c, Delta(old[a + 1], v)), a + c>> \in G
    <3>1. \A j \in 1..c : new[a + j] = v
      BY <2>6, <2>8
    <3> QED
      BY <2>1, <2>7, <2>9, <3>1, <1>0, SameSends DEF G
  <2>11. Op(19, c, Delta(old[a + 1], v)) \in Ops
    BY <2>10, SendsIs DEF G
  <2> QED
    BY <2>3, <2>4, <2>9, <2>10, <2>11
<1>6. s = [k \in 1..m |-> s[k]]
  OBVIOUS
<1>7. s \in Seq(Ops) /\ Leads(G, from - 1, s, z - 1)
  <2> HIDE DEF s, at, G, z, m
  <2>1. s \in Seq(Ops) /\ Leads(G, at[0], s, at[m])
    BY <1>1, <1>4, <1>5, <1>6, LeadsBy
  <2> QED
    BY <2>1, <1>4
<1>8. t \in Seq(Ops) /\ Leads(G, z - 1, t, from + run - 1)
  <2>1. z + l <= n + 1
    BY <1>3
  <2> HIDE DEF z
  <2>2. t \in Seq(Ops) /\ Leads(G, z - 1, t, z + l - 1)
    BY <1>1, <1>3, <2>1, LiteralsLead DEF z
  <2>3. z + l - 1 = from + run - 1
    BY <1>1, <1>3
  <2> QED
    BY <2>2, <2>3, Zenon
<1> HIDE DEF s, t, G, z
<1>9. s \o t \in Seq(Ops) /\ Leads(G, from - 1, s \o t, from + run - 1)
  BY <1>7, <1>8, LeadsOn
<1> QED
  BY <1>2, <1>9 DEF G

LEMMA RunFacts ==
    ASSUME NEW n \in Nat, NEW new \in [1..n -> 0..16], NEW i \in 1..n
    PROVE  /\ Run(new, i) \in Nat \ {0} /\ i + Run(new, i) <= n + 1
           /\ \A k \in 1..Run(new, i) : new[i + k - 1] = new[i]
<1> DEFINE S == {d \in Nat : d >= 1 /\ (i + d > n \/ new[i + d] # new[i])}
           P(d) == /\ \A k \in 1..d : new[i + k - 1] = new[i]
                   /\ i + d > n \/ new[i + d] # new[i]
<1>0. Len(new) = n
  OBVIOUS
<1>1. n - i + 1 \in S
  OBVIOUS
<1>2. PICK d \in S : \A y \in S : d <= y
  <2>1. S \subseteq Nat
    OBVIOUS
  <2> HIDE DEF S
  <2> QED
    BY <1>1, <2>1, LeastFact
<1>3. d \in Nat /\ d >= 1 /\ (i + d > n \/ new[i + d] # new[i]) /\ d <= n - i + 1
  BY <1>1, <1>2
<1>4. ASSUME NEW k \in 1..d PROVE new[i + k - 1] = new[i]
  <2>1. CASE k = 1
    <3>1. i + k - 1 = i
      BY <2>1
    <3> QED
      BY <3>1
  <2>2. CASE k # 1
    <3>1. PICK y \in Nat : y = k - 1 /\ y >= 1 /\ y < d
      BY <2>2, <1>3
    <3>2. y \notin S
      <4>1. ~(d <= y)
        BY <3>1, <1>3
      <4> HIDE DEF S
      <4> QED
        BY <1>2, <4>1
    <3>3. new[i + y] = new[i]
      BY <3>1, <3>2
    <3>4. i + k - 1 = i + y
      BY <3>1
    <3> QED
      BY <3>3, <3>4
  <2> QED
    BY <2>1, <2>2
<1>5. d \in 1..n - i + 1
  BY <1>3
<1>6. P(d)
  BY <1>3, <1>4
<1>7. Run(new, i) = CHOOSE y \in 1..n - i + 1 : P(y)
  BY <1>0 DEF Run
<1> HIDE DEF P, S
<1>8. Run(new, i) \in 1..n - i + 1 /\ P(Run(new, i))
  BY <1>5, <1>6, <1>7
<1>9. PICK y \in 1..n - i + 1 : y = Run(new, i)
  BY <1>8
<1>10. y \in Nat \ {0} /\ i + y <= n + 1
  OBVIOUS
<1> QED
  BY <1>8, <1>9, <1>10 DEF P

\* The ops of the plan send all of the lengths.
LEMMA PlanFacts ==
    ASSUME NEW n \in Nat, NEW old \in [1..n -> 0..16], NEW new \in [1..n -> 0..16]
    PROVE  /\ plan_symbols(old, new) \in Seq(Ops)
           /\ Leads(Sends(old, new), 0, plan_symbols(old, new), n)
<1> DEFINE G == Sends(old, new)
           start == [next |-> 1, ops |-> <<>>]
           X == [next : 1..n + 1, ops : Seq(Ops)]
           S == [k \in 0..n |-> {p \in X : p.next > k /\ Leads(G, 0, p.ops, p.next - 1)}]
           F == [t \in (1..n) \X X |-> PlanRun(old, new, t[2])]
           R(g) == [k \in 0..n |-> IF k = 0 THEN start ELSE PlanRun(old, new, g[k - 1])]
           acc == CHOOSE g : g = R(g)
<1>0. Len(new) = n
  OBVIOUS
<1>1. plan_symbols(old, new) = acc[n].ops
  <2> DEFINE Q(g) == [k \in 0..Len(new) |-> IF k = 0 THEN start ELSE PlanRun(old, new, g[k - 1])]
  <2>1. plan_symbols(old, new) = (CHOOSE g : g = Q(g))[Len(new)].ops
    BY DEF plan_symbols, Folded
  <2> QED
    BY <2>1, <1>0
<1>2. \A k \in 0..n : S[k] = {p \in X : p.next > k /\ Leads(G, 0, p.ops, p.next - 1)}
  OBVIOUS
<1>3. \A k \in 1..n : \A p \in X : F[<<k, p>>] = PlanRun(old, new, p)
  OBVIOUS
<1>4. start \in X /\ start.next = 1 /\ start.ops = <<>>
  <2>1. <<>> \in Seq(Ops) /\ 1 \in 1..n + 1
    OBVIOUS
  <2> QED
    BY <2>1
<1> HIDE DEF S, F, acc, start, G
<1>5. start \in S[0]
  <2>1. 0 \in 0..n /\ 1 > 0 /\ 1 - 1 = 0 /\ 0 \in Nat
    OBVIOUS
  <2>2. Leads(G, 0, <<>>, 0)
    BY <2>1, LeadsNone
  <2> QED
    BY <2>1, <2>2, <1>2, <1>4
<1>6. ASSUME NEW k \in 1..n, NEW p \in S[k - 1] PROVE p \in X /\ PlanRun(old, new, p) \in S[k]
  <2>1. PICK j \in 0..n : j = k - 1 /\ k \in 0..n
    OBVIOUS
  <2>2. p \in X /\ p.next > j /\ Leads(G, 0, p.ops, p.next - 1)
    <3>1. p \in S[j]
      BY <2>1
    <3> QED
      BY <3>1, <1>2
  <2>3. PICK i \in 1..n + 1 : i = p.next
    BY <2>2
  <2>4. p.ops \in Seq(Ops)
    BY <2>2
  <2>5. CASE i > n
    <3>1. PlanRun(old, new, p) = p
      BY <2>3, <2>5, <1>0 DEF PlanRun
    <3>2. p.next > k
      BY <2>3, <2>5
    <3> QED
      BY <2>1, <2>2, <3>1, <3>2, <1>2
  <2>6. CASE i <= n
    <3> DEFINE run == Run(new, i)
               more == IF new[i] = 0 THEN ZeroOps(old, new, i, run) ELSE SameOps(old, new, i, run)
               q == [next |-> i + run, ops |-> p.ops \o more]
    <3>1. PlanRun(old, new, p) = q
      BY <2>3, <2>6, <1>0 DEF PlanRun
    <3>2. i \in 1..n
      BY <2>6
    <3>3. run \in Nat \ {0} /\ i + run <= n + 1 /\ \A y \in 1..run : new[i + y - 1] = new[i]
      BY <3>2, RunFacts
    <3> HIDE DEF run
    <3>4. more \in Seq(Ops) /\ Leads(G, i - 1, more, i + run - 1)
      <4>1. CASE new[i] = 0
        <5>1. \A y \in 1..run : new[i + y - 1] = 0
          BY <3>3, <4>1
        <5>2. i \in Nat \ {0}
          OBVIOUS
        <5>3. ZeroOps(old, new, i, run) \in Seq(Ops)
              /\ Leads(G, i - 1, ZeroOps(old, new, i, run), i + run - 1)
          BY <3>3, <5>1, <5>2, ZeroOpsLead DEF G
        <5> QED
          BY <4>1, <5>3
      <4>2. CASE new[i] # 0
        <5>2. i \in Nat \ {0}
          OBVIOUS
        <5>3. SameOps(old, new, i, run) \in Seq(Ops)
              /\ Leads(G, i - 1, SameOps(old, new, i, run), i + run - 1)
          BY <3>3, <5>2, SameOpsLead DEF G
        <5> QED
          BY <4>2, <5>3
      <4> QED
        BY <4>1, <4>2
    <3> HIDE DEF more
    <3>5. p.ops \o more \in Seq(Ops) /\ Leads(G, 0, p.ops \o more, i + run - 1)
      <4>1. Leads(G, 0, p.ops, i - 1)
        BY <2>2, <2>3
      <4>2. PICK u \in Seq(Ops) : u = p.ops
        BY <2>4
      <4>3. u \o more \in Seq(Ops) /\ Leads(G, 0, u \o more, i + run - 1)
        BY <3>4, <4>1, <4>2, LeadsOn
      <4> QED
        BY <4>2, <4>3
    <3>6. i + run \in 1..n + 1 /\ i + run > k
      BY <2>1, <2>2, <2>3, <3>3
    <3>7. q \in X /\ q.next = i + run /\ q.ops = p.ops \o more
      BY <3>5, <3>6
    <3> HIDE DEF q
    <3>8. q \in S[k]
      <4>01. PICK e \in 1..n + 1 : e = i + run /\ e > k
        BY <3>6
      <4>02. q.next = e
        BY <3>7, <4>01
      <4>0. q.next > k /\ q.next - 1 = i + run - 1
        BY <4>01, <4>02, <3>3
      <4>03. q.ops = p.ops \o more
        BY <3>7
      <4>04. Leads(G, 0, q.ops, i + run - 1)
        BY <3>5, <4>03
      <4>1. q.next > k /\ Leads(G, 0, q.ops, q.next - 1)
        BY <4>04, <4>0
      <4>2. q \in X
        BY <3>7
      <4> HIDE DEF X
      <4> QED
        BY <2>1, <4>1, <4>2, <1>2
    <3> QED
      BY <2>2, <3>1, <3>8
  <2> QED
    BY <2>5, <2>6
<1> HIDE DEF X
<1>7. Ascends(S, n, F)
  BY <1>3, <1>6 DEF Ascends
<1>8. ASSUME NEW f, Climbs(f, S, start, n, F) PROVE Follows(acc, S, start, n, F)
  <2>1. /\ f = [k \in 0..n |-> f[k]] /\ f[0] = start
        /\ \A k \in 1..n : f[k - 1] \in S[k - 1] /\ f[k] = F[<<k, f[k - 1]>>]
        /\ \A k \in 0..n : k = 0 \/ k \in 1..n
    BY <1>8, ClimbIs
  <2>2. \A k \in 0..n : f[k] = IF k = 0 THEN start ELSE PlanRun(old, new, f[k - 1])
    BY <2>1, <1>3, <1>6
  <2>3. R(f) = [k \in 0..n |-> f[k]]
    BY <2>2
  <2>4. acc = R(acc)
    BY <2>1, <2>3 DEF acc
  <2>5. acc[0] = start /\ \A k \in 1..n : acc[k] = PlanRun(old, new, acc[k - 1])
    <3>1. 0 \in 0..n /\ \A k \in 1..n : k \in 0..n /\ k # 0
      OBVIOUS
    <3> QED
      BY <2>4, <3>1
  <2> QED
    BY <2>5, <1>3, <1>6 DEF Follows
<1>9. acc[n] \in S[n]
  <2>1. n \in Nat
    OBVIOUS
  <2> QED
    BY <2>1, <1>5, <1>7, <1>8, FoldFact
<1>10. acc[n] \in X /\ acc[n].next > n /\ Leads(G, 0, acc[n].ops, acc[n].next - 1)
  <2>1. n \in 0..n
    OBVIOUS
  <2> QED
    BY <2>1, <1>2, <1>9
<1>11. acc[n].ops \in Seq(Ops) /\ acc[n].next - 1 = n
  BY <1>10 DEF X
<1> QED
  BY <1>1, <1>10, <1>11 DEF G

\* The front of a sequence with the piece that follows it.
LEMMA PieceFact ==
    ASSUME NEW Y, NEW n \in Nat, NEW new \in [1..n -> Y], NEW s \in Seq(Y), NEW a \in Nat,
           a = Len(s), NEW c \in Nat, a + c <= n, \A j \in 1..a : s[j] = new[j]
    PROVE  /\ s \o [j \in 1..c |-> new[a + j]] \in Seq(Y)
           /\ Len(s \o [j \in 1..c |-> new[a + j]]) = a + c
           /\ \A j \in 1..a + c : (s \o [j1 \in 1..c |-> new[a + j1]])[j] = new[j]
<1> DEFINE v == [j \in 1..c |-> new[a + j]]
           u == s \o v
<1>1. v \in [1..c -> Y] /\ \A j \in 1..c : v[j] = new[a + j]
  OBVIOUS
<1> HIDE DEF v
<1>2. v \in Seq(Y) /\ Len(v) = c
  BY <1>1
<1>3. u \in Seq(Y) /\ Len(u) = Len(s) + Len(v)
  BY <1>2, ConcatFacts
<1>4. /\ \A j \in 1..Len(s) : u[j] = s[j]
      /\ \A j \in 1..Len(v) : u[Len(s) + j] = v[j]
  BY <1>2, ConcatFacts
<1> HIDE DEF u
<1>5. ASSUME NEW j \in 1..a + c PROVE u[j] = new[j]
  <2>1. CASE j <= a
    BY <2>1, <1>4
  <2>2. CASE j > a
    <3>1. PICK y \in 1..c : y = j - a
      BY <2>2
    <3>2. a + y = j
      BY <3>1
    <3>3. u[a + y] = v[y] /\ v[y] = new[a + y]
      BY <1>1, <1>2, <1>4
    <3> QED
      BY <3>2, <3>3
  <2> QED
    BY <2>1, <2>2
<1>6. Len(u) = a + c
  BY <1>2, <1>3
<1> QED
  BY <1>3, <1>5, <1>6 DEF u, v

\* Ops that send the lengths give the decoder the lengths.
LEMMA DecodedFact ==
    ASSUME NEW n \in Nat, NEW old \in [1..n -> 0..16], NEW new \in [1..n -> 0..16],
           NEW ops \in Seq(Ops), Leads(Sends(old, new), 0, ops, n)
    PROVE  Decoded(old, ops) = new
<1> DEFINE G == Sends(old, new)
           m == Len(ops)
           X == Seq(0..16)
           V(s, op) == [j \in 1..op.cover |-> Value(op, old[Len(s) + 1])]
           R(g) == [k \in 0..m |-> IF k = 0 THEN <<>> ELSE g[k - 1] \o V(g[k - 1], ops[k])]
           acc == CHOOSE g : g = R(g)
<1>0. Len(new) = n
  OBVIOUS
<1>1. PICK at : Meets(at, G, 0, ops, n)
  BY DEF Leads
<1>2. /\ m \in Nat /\ at \in [0..m -> Nat] /\ at[0] = 0 /\ at[m] = n
      /\ \A k \in 1..m : <<at[k - 1], ops[k], at[k]>> \in G
  BY <1>1 DEF Meets
<1>3. Decoded(old, ops) = acc[m]
  BY DEF Decoded, Folded, Value
<1> DEFINE S == [k \in 0..m |-> {s \in X : Len(s) = at[k] /\ \A j \in 1..at[k] : s[j] = new[j]}]
           F == [t \in (1..m) \X X |-> t[2] \o V(t[2], ops[t[1]])]
<1>4. \A k \in 0..m : S[k] = {s \in X : Len(s) = at[k] /\ \A j \in 1..at[k] : s[j] = new[j]}
  OBVIOUS
<1>5. \A k \in 1..m : \A s \in X : F[<<k, s>>] = s \o V(s, ops[k])
  OBVIOUS
<1> HIDE DEF S, F, acc, m, G
<1>6. <<>> \in S[0]
  <2>1. 0 \in 0..m /\ <<>> \in X /\ Len(<<>>) = 0 /\ \A j \in 1..0 : FALSE
    BY <1>2
  <2> QED
    BY <2>1, <1>2, <1>4
<1>7. ASSUME NEW k \in 1..m, NEW s \in S[k - 1] PROVE s \in X /\ s \o V(s, ops[k]) \in S[k]
  <2>1. PICK i \in 0..m : i = k - 1 /\ k \in 0..m
    BY <1>2
  <2>2. s \in X /\ Len(s) = at[i] /\ \A j \in 1..at[i] : s[j] = new[j]
    <3>1. s \in S[i]
      BY <2>1
    <3> HIDE DEF X
    <3> QED
      BY <3>1, <1>4
  <2>3. PICK a \in Nat : a = at[i]
    BY <1>2
  <2>4. PICK b \in Nat : b = at[k]
    BY <2>1, <1>2
  <2> DEFINE op == ops[k]
             v == V(s, op)
             u == s \o v
  <2>5. <<a, op, b>> \in G
    BY <2>1, <2>3, <2>4, <1>2
  <2> HIDE DEF op
  <2>6. op \in Ops /\ b = a + op.cover /\ b <= n
        /\ \A j \in 1..op.cover : Value(op, old[a + 1]) = new[a + j]
    <3>1. <<a, op, b>> \in Sends(old, new)
      BY <2>5 DEF G
    <3>2. OpSends(old, new, a, op, b)
      BY <3>1, SendsParts, Zenon
    <3> QED
      BY <3>2, <1>0 DEF OpSends
  <2>7. op.cover \in Nat \ {0}
    BY <2>6 DEF Ops
  <2>8. v = [j \in 1..op.cover |-> new[a + j]]
    BY <2>2, <2>3, <2>6
  <2>9. a = Len(s) /\ op.cover \in Nat /\ a + op.cover <= n /\ \A j \in 1..a : s[j] = new[j]
    BY <2>2, <2>3, <2>6, <2>7
  <2>90. PICK c \in Nat : c = op.cover
    BY <2>7
  <2>10. u = s \o [j \in 1..c |-> new[a + j]]
    BY <2>8, <2>90
  <2> HIDE DEF u, v
  <2>11. u \in X /\ Len(u) = b /\ \A j \in 1..b : u[j] = new[j]
    <3> DEFINE Y == 0..16
    <3>1. s \in Seq(Y) /\ a + c <= n /\ b = a + c /\ new \in [1..n -> Y]
      BY <2>2, <2>6, <2>9, <2>90
    <3>11. X = Seq(Y)
      OBVIOUS
    <3> HIDE DEF Y, X
    <3> DEFINE w == s \o [j \in 1..c |-> new[a + j]]
    <3>12. w \in Seq(Y) /\ Len(w) = a + c /\ \A j \in 1..a + c : w[j] = new[j]
      BY <3>1, <2>9, PieceFact
    <3>2. /\ u \in X /\ Len(u) = a + c /\ \A j \in 1..a + c : u[j] = new[j]
      BY <2>10, <3>11, <3>12
    <3> QED
      BY <3>1, <3>2
  <2> HIDE DEF u
  <2>12. u \in S[k]
    BY <2>1, <2>4, <2>11, <1>4
  <2> QED
    BY <2>2, <2>12 DEF u, v, op
<1> HIDE DEF X, V
<1>8. Ascends(S, m, F)
  BY <1>5, <1>7 DEF Ascends
<1>9. ASSUME NEW f, Climbs(f, S, <<>>, m, F) PROVE Follows(acc, S, <<>>, m, F)
  <2>1. /\ f = [k \in 0..m |-> f[k]] /\ f[0] = <<>>
        /\ \A k \in 1..m : f[k - 1] \in S[k - 1] /\ f[k] = F[<<k, f[k - 1]>>]
        /\ \A k \in 0..m : k = 0 \/ k \in 1..m
    BY <1>2, <1>9, ClimbIs
  <2>2. \A k \in 0..m : f[k] = IF k = 0 THEN <<>> ELSE f[k - 1] \o V(f[k - 1], ops[k])
    BY <2>1, <1>5, <1>7
  <2>3. R(f) = [k \in 0..m |-> f[k]]
    BY <2>2
  <2>4. acc = R(acc)
    BY <2>1, <2>3 DEF acc
  <2>5. acc[0] = <<>> /\ \A k \in 1..m : acc[k] = acc[k - 1] \o V(acc[k - 1], ops[k])
    <3>1. 0 \in 0..m /\ \A k \in 1..m : k \in 0..m /\ k # 0
      BY <1>2
    <3> QED
      BY <2>4, <3>1
  <2> QED
    BY <2>5, <1>5, <1>7 DEF Follows
<1>10. acc[m] \in S[m] /\ m \in 0..m
  <2>1. m \in Nat
    BY <1>2
  <2>2. acc[m] \in S[m]
    BY <2>1, <1>6, <1>8, <1>9, FoldFact
  <2> QED
    BY <2>1, <2>2
<1>11. acc[m] \in Seq(0..16) /\ Len(acc[m]) = n /\ \A j \in 1..n : acc[m][j] = new[j]
  BY <1>2, <1>4, <1>10 DEF X
<1>12. acc[m] = new
  <2>1. new \in Seq(0..16)
    OBVIOUS
  <2> QED
    BY <2>1, <1>0, <1>11, SeqSame
<1> QED
  BY <1>3, <1>12

\* A set of one element has no other.
LEMMA OnlyOne ==
    ASSUME NEW S, Cardinality(S) = 1, IsFiniteSet(S), NEW x \in S, NEW y \in S
    PROVE  x = y
<1> SUFFICES ASSUME x # y PROVE FALSE
  OBVIOUS
<1>1. /\ IsFiniteSet({x, y}) /\ {x, y} \subseteq S
  BY FS_Subset
<1>2. Cardinality({x, y}) = 2
  <2>1. Cardinality({x}) = 1 /\ IsFiniteSet({x}) /\ y \notin {x} /\ {x, y} = {x} \cup {y}
    BY FS_Singleton
  <2>2. Cardinality({x} \cup {y}) = Cardinality({x}) + 1
    BY <2>1, FS_AddElement
  <2> QED
    BY <2>1, <2>2
<1>3. Cardinality({x, y}) <= Cardinality(S)
  BY <1>1, FS_Subset
<1> QED
  BY <1>2, <1>3

LEMMA SymbolsFacts ==
    ASSUME NEW X, NEW ops \in Seq(X), Cardinality(Symbols(ops)) = 1
    PROVE  /\ Len(ops) >= 1
           /\ \A k \in 1..Len(ops) : ops[k].symbol = ops[1].symbol
<1>1. PICK m \in Nat : m = Len(ops) /\ DOMAIN ops = 1..m
  OBVIOUS
<1>2. Symbols(ops) = {ops[k].symbol : k \in 1..m}
  BY <1>1 DEF Symbols
<1> DEFINE S == Symbols(ops)
<1>3. IsFiniteSet(S)
  <2> DEFINE f == [k \in 1..m |-> ops[k].symbol]
             T == 1..m
  <2>1. f \in Surjection(T, S)
    BY <1>2 DEF Surjection
  <2>2. IsFiniteSet(T)
    BY FS_Interval
  <2> HIDE DEF f, S, T
  <2> QED
    BY <2>1, <2>2, FS_Surjection
<1>31. S # {} /\ Cardinality(S) = 1
  <2>1. Cardinality(S) = 1
    OBVIOUS
  <2> HIDE DEF S
  <2> QED
    BY <2>1, <1>3, FS_EmptySet
<1>4. m # 0
  <2>1. PICK x : x \in S
    <3> HIDE DEF S
    <3> QED
      BY <1>31
  <2>2. PICK k \in 1..m : x = ops[k].symbol
    BY <2>1, <1>2
  <2> QED
    BY <2>2
<1>5. \A k \in 1..m : ops[k].symbol \in S
  BY <1>2
<1> HIDE DEF S
<1>6. 1 \in 1..m /\ m >= 1
  BY <1>4
<1>7. Cardinality(S) = 1
  BY DEF S
<1>8. \A k \in 1..m : ops[k].symbol = ops[1].symbol
  BY <1>3, <1>5, <1>6, <1>7, OnlyOne
<1> QED
  BY <1>1, <1>6, <1>8

\* Where an op ends, by its cover and those before it.
LEMMA EndFact ==
    ASSUME NEW old, NEW new, NEW ops \in Seq(Ops), NEW at, NEW n,
           Meets(at, Sends(old, new), 0, ops, n), NEW k \in 0..Len(ops)
    PROVE  EndOf(ops, k) = at[k]
<1> DEFINE s == [j \in 1..k |-> ops[j].cover]
           G == Sends(old, new)
<1>1. PICK m \in Nat : m = Len(ops) /\ k \in 0..m
  OBVIOUS
<1>2. /\ at \in [0..m -> Nat] /\ at[0] = 0
      /\ \A j \in 1..m : <<at[j - 1], ops[j], at[j]>> \in G
  BY <1>1 DEF Meets
<1>3. ASSUME NEW j \in 1..m PROVE ops[j].cover \in Nat /\ at[j] = at[j - 1] + ops[j].cover
  <2>1. ops[j] \in Ops
    BY <1>1
  <2>2. ops[j].cover \in Nat
    BY <2>1 DEF Ops
  <2> HIDE DEF G
  <2>3. <<at[j - 1], ops[j], at[j]>> \in G
    BY <1>2
  <2>4. at[j] = at[j - 1] + ops[j].cover
    BY <2>3, SendsIs DEF G
  <2> QED
    BY <2>2, <2>4
<1>4. \A j \in 1..k : j \in 1..m
  BY <1>1
<1>5. s \in [1..k -> Nat] /\ \A j \in 1..k : s[j] = ops[j].cover
  BY <1>3, <1>4
<1>6. k \in Nat
  BY <1>1
<1>7. EndOf(ops, k) = Total(s)
  BY DEF EndOf
<1> HIDE DEF s, G
<1>8. s \in Seq(Nat) /\ Len(s) = k
  BY <1>5, <1>6
<1>9. at[0] = 0 /\ \A j \in 1..Len(s) : at[j] = at[j - 1] + s[j]
  BY <1>2, <1>3, <1>4, <1>5, <1>8
<1>10. Total(s) = at[Len(s)]
  BY <1>8, <1>9, TotalIs
<1> QED
  BY <1>7, <1>8, <1>10

LEMMA OneLess ==
    ASSUME NEW s \in Nat, NEW y \in Nat, NEW e \in Nat, y > 1, e = s + y
    PROVE  \E x \in Nat \ {0} : y = x + 1 /\ e = s + x + 1
<1>1. y - 1 \in Nat \ {0} /\ y = (y - 1) + 1 /\ e = s + (y - 1) + 1
  OBVIOUS
<1> QED
  BY <1>1

\* An op with a shorter cover, field by field.
LEMMA ShortOpIs ==
    ASSUME NEW op \in Ops, NEW c \in Nat, op.cover - 1 = c
    PROVE  [op EXCEPT !.cover = op.cover - 1] = [symbol |-> op.symbol, cover |-> c, delta |-> op.delta]
BY DEF Ops

\* A run of zeros one shorter, with the last zero after it.
LEMMA ShrinkFact ==
    ASSUME NEW n \in Nat, NEW old \in [1..n -> 0..16], NEW new \in [1..n -> 0..16],
           NEW ops \in Seq(Ops), Leads(Sends(old, new), 0, ops, n), NEW k \in 1..Len(ops),
           ops[k].symbol \in {17, 18}, ops[k].cover > 1
    PROVE  LET end == EndOf(ops, k)
               res == InsertAt([ops EXCEPT ![k].cover = @ - 1], k + 1, Literal(old[end], 0))
           IN  res \in Seq(Ops) /\ Leads(Sends(old, new), 0, res, n)
<1> DEFINE G == Sends(old, new)
           op == ops[k]
           short == [op EXCEPT !.cover = @ - 1]
           shrunk == [ops EXCEPT ![k] = short]
           a == SubSeq(shrunk, 1, k)
           b == SubSeq(shrunk, k + 1, Len(shrunk))
           end == EndOf(ops, k)
           lit == Literal(old[end], 0)
<1>0. Len(new) = n
  OBVIOUS
<1>1. PICK m \in Nat : m = Len(ops) /\ k \in 1..m
  OBVIOUS
<1>2. PICK at : Meets(at, G, 0, ops, n)
  BY DEF Leads
<1>3. /\ at \in [0..m -> Nat] /\ at[0] = 0 /\ at[m] = n
      /\ \A j \in 1..m : <<at[j - 1], ops[j], at[j]>> \in G
  BY <1>1, <1>2 DEF Meets
<1>4. end = at[k]
  <2>1. k \in 0..Len(ops)
    BY <1>1
  <2> QED
    BY <1>2, <2>1, EndFact
<1>5. [ops EXCEPT ![k].cover = @ - 1] = shrunk
  OBVIOUS
<1>6. \A j \in 1..m : ops[j] \in Ops
  BY <1>1
<1> HIDE DEF G
<1>7. PICK e \in Nat : e = at[k]
  <2>1. k \in 0..m
    BY <1>1
  <2>2. at[k] \in Nat
    BY <2>1, <1>3
  <2> QED
    BY <2>2
<1>8. PICK s \in Nat : s = at[k - 1]
  <2>1. k - 1 \in 0..m
    BY <1>1
  <2>2. at[k - 1] \in Nat
    BY <2>1, <1>3
  <2> QED
    BY <2>2
<1>9. /\ op \in Ops /\ e = s + op.cover /\ e <= n
      /\ \A j \in 1..op.cover : Value(op, old[s + 1]) = new[s + j]
  <2>1. <<s, op, e>> \in G
    BY <1>1, <1>3, <1>7, <1>8
  <2>2. <<s, op, e>> \in Sends(old, new)
    BY <2>1 DEF G
  <2> HIDE DEF op
  <2>3. OpSends(old, new, s, op, e)
    BY <2>2, SendsParts, Zenon
  <2> QED
    BY <2>3, <1>0 DEF OpSends
<1>10. op.cover \in Nat /\ op.cover > 1 /\ op.symbol \in {17, 18} /\ Value(op, old[s + 1]) = 0
  <2>1. op.symbol \in {17, 18} /\ op.cover > 1
    OBVIOUS
  <2> HIDE DEF op
  <2>2. op.cover \in Nat
    BY <1>9 DEF Ops
  <2> QED
    BY <2>1, <2>2 DEF Value
<1>11. PICK c \in Nat \ {0} : op.cover = c + 1 /\ e = s + c + 1
  <2> HIDE DEF op
  <2>1. PICK y \in Nat : y = op.cover /\ y > 1 /\ e = s + y
    BY <1>9, <1>10
  <2>2. PICK x \in Nat \ {0} : y = x + 1 /\ e = s + x + 1
    <3>1. y > 1 /\ e = s + y
      BY <2>1
    <3> QED
      BY <3>1, OneLess
  <2>3. op.cover = x + 1 /\ e = s + x + 1
    BY <2>1, <2>2, Zenon
  <2> QED
    BY <2>3, Zenon
<1>12. short \in Ops /\ short.symbol = op.symbol /\ short.cover = c
  <2> HIDE DEF op
  <2>1. op.symbol \in 0..19 /\ op.delta \in 0..16
    BY <1>9 DEF Ops
  <2>0. op.cover - 1 = c
    BY <1>11
  <2>3. op \in Ops
    BY <1>9
  <2>2. short = [symbol |-> op.symbol, cover |-> c, delta |-> op.delta]
    BY <2>0, <2>3, ShortOpIs
  <2> QED
    BY <2>1, <2>2 DEF Ops
<1>13. \A j \in 1..c + 1 : new[s + j] = 0
  <2> HIDE DEF op
  <2> QED
    BY <1>9, <1>10, <1>11
<1> HIDE DEF op
<1>14. shrunk \in Seq(Ops) /\ Len(shrunk) = m
       /\ \A j \in 1..m : shrunk[j] = IF j = k THEN short ELSE ops[j]
  <2> HIDE DEF short
  <2>0. DOMAIN ops = 1..m
    BY <1>1
  <2>1. shrunk = [j \in 1..m |-> IF j = k THEN short ELSE ops[j]]
    BY <2>0
  <2> HIDE DEF shrunk
  <2>2. shrunk \in [1..m -> Ops]
    BY <2>1, <1>6, <1>12
  <2> QED
    BY <2>1, <2>2
<1> HIDE DEF short, shrunk
<1>15. a \in Seq(Ops) /\ Leads(G, 0, a, s + c)
  <2> DEFINE f == [j \in 0..k |-> IF j = k THEN s + c ELSE at[j]]
  <2>1. a = [j \in 1..k |-> shrunk[j]]
    BY <1>1, <1>14
  <2>2. \A j \in 0..k : j \in 0..m
    BY <1>1
  <2>3. f \in [0..k -> Nat] /\ f[0] = 0 /\ f[k] = s + c
    <3>1. \A j \in 0..k : (IF j = k THEN s + c ELSE at[j]) \in Nat
      BY <1>3, <2>2
    <3>2. 0 \in 0..k /\ k \in 0..k /\ k # 0
      BY <1>1
    <3> QED
      BY <3>1, <3>2, <1>3
  <2>4. ASSUME NEW j \in 1..k PROVE a[j] \in Ops /\ <<f[j - 1], a[j], f[j]>> \in G
    <3>1. CASE j = k
      <4>1. a[j] = short /\ f[j] = s + c
        BY <1>1, <1>14, <2>1, <3>1
      <4>2. f[j - 1] = s
        BY <1>1, <1>8, <3>1
      <4>3. s + c \in Nat /\ s + c = s + short.cover /\ s + c <= Len(new)
        BY <1>0, <1>9, <1>11, <1>12
      <4>4. Value(short, old[s + 1]) = 0
        BY <1>10, <1>12 DEF Value
      <4>5. \A i \in 1..short.cover : Value(short, old[s + 1]) = new[s + i]
        BY <1>12, <1>13, <4>4
      <4> HIDE DEF f, a
      <4>6. <<s, short, s + c>> \in G
        BY <4>3, <4>5, <1>12, SendsIs, Zenon DEF G
      <4> QED
        BY <4>1, <4>2, <4>6, <1>12
    <3>2. CASE j # k
      <4>1. j \in 1..m /\ a[j] = ops[j]
        BY <1>1, <1>14, <2>1, <3>2
      <4>2. f[j] = at[j] /\ f[j - 1] = at[j - 1]
        BY <1>1, <3>2
      <4> HIDE DEF f, a
      <4> QED
        BY <4>1, <4>2, <1>3, <1>6
    <3> QED
      BY <3>1, <3>2
  <2>5. a = [j \in 1..k |-> a[j]]
    BY <2>1
  <2>6. k \in Nat
    BY <1>1
  <2> HIDE DEF f, a
  <2>7. a \in Seq(Ops) /\ Leads(G, f[0], a, f[k])
    BY <2>3, <2>4, <2>5, <2>6, LeadsBy
  <2> QED
    BY <2>3, <2>7
<1>16. b \in Seq(Ops) /\ Leads(G, e, b, n)
  <2>1. k \in 0..Len(ops)
    BY <1>1
  <2> DEFINE d == SubSeq(ops, k + 1, Len(ops))
  <2>2. Leads(G, at[k], d, n) /\ d \in Seq(Ops)
    BY <1>2, <2>1, LeadsCut
  <2>3. Len(d) = m - k /\ \A j \in 1..m - k : d[j] = ops[k + j]
    <3>1. Len(d) = m - k
      BY <1>1
    <3>2. \A j \in 1..m - k : d[j] = ops[k + j]
      BY <1>1
    <3> QED
      BY <3>1, <3>2
  <2>4. b \in Seq(Ops) /\ Len(b) = m - k /\ \A j \in 1..m - k : b[j] = shrunk[k + j]
    <3>1. b \in Seq(Ops) /\ Len(b) = m - k
      BY <1>1, <1>14
    <3>2. \A j \in 1..m - k : b[j] = shrunk[k + j]
      BY <1>1, <1>14
    <3> QED
      BY <3>1, <3>2
  <2>5. \A j \in 1..m - k : shrunk[k + j] = ops[k + j]
    <3>1. \A j \in 1..m - k : k + j \in 1..m /\ k + j # k
      BY <1>1
    <3> QED
      BY <3>1, <1>14
  <2> HIDE DEF d, b
  <2>6. b = d
    BY <2>2, <2>3, <2>4, <2>5, SeqSame
  <2> QED
    BY <2>2, <2>6, <1>7, <2>4
<1>17. <<s + c, lit, e>> \in G /\ lit \in Ops
  <2>1. PICK x \in Nat : x = s + c
    OBVIOUS
  <2>2. x + 1 = e /\ x + 1 <= Len(new) /\ x + 1 \in 1..n /\ s + (c + 1) = e
    BY <2>1, <1>0, <1>9, <1>11
  <2>3. new[x + 1] = 0
    <3>1. c + 1 \in 1..c + 1
      OBVIOUS
    <3>2. new[s + (c + 1)] = 0
      BY <3>1, <1>13
    <3> QED
      BY <2>2, <3>2
  <2>4. old[x + 1] \in 0..16
    BY <2>2
  <2>5. PICK v \in 0..16 : v = 0
    OBVIOUS
  <2>6. new[x + 1] = v
    BY <2>3, <2>5
  <2>7. <<x, Literal(old[x + 1], v), x + 1>> \in G /\ Literal(old[x + 1], v) \in Ops
    BY <2>2, <2>4, <2>6, LiteralSends DEF G
  <2>8. lit = Literal(old[x + 1], v)
    BY <2>2, <2>5, <1>4, <1>7
  <2> HIDE DEF lit
  <2> QED
    BY <2>1, <2>2, <2>7, <2>8
<1>18. InsertAt(shrunk, k + 1, lit) = (a \o <<lit>>) \o b
  <2>1. (k + 1) - 1 = k
    BY <1>1
  <2> HIDE DEF lit
  <2> QED
    BY <2>1 DEF InsertAt
<1> HIDE DEF a, b, lit
<1>19. <<lit>> \in Seq(Ops) /\ Leads(G, s + c, <<lit>>, e)
  <2>1. s + c \in Nat
    OBVIOUS
  <2>2. Leads(G, s + c, <<lit>>, e)
    BY <2>1, <1>17, LeadsOne
  <2> QED
    BY <2>2, <1>17
<1> DEFINE al == a \o <<lit>>
<1>20. al \in Seq(Ops) /\ Leads(G, 0, al, e)
  <2> DEFINE l == <<lit>>
  <2>1. l \in Seq(Ops) /\ Leads(G, s + c, l, e)
    BY <1>19
  <2> HIDE DEF l
  <2>2. a \o l \in Seq(Ops) /\ Leads(G, 0, a \o l, e)
    BY <2>1, <1>15, LeadsOn
  <2> QED
    BY <2>2 DEF l
<1> HIDE DEF al
<1>21. al \o b \in Seq(Ops) /\ Leads(G, 0, al \o b, n)
  BY <1>16, <1>20, LeadsOn
<1> QED
  BY <1>5, <1>18, <1>21 DEF G, al, lit, end

\* The last run of zeros, zero by zero.
Unpacked(ops, old, m) ==
    SubSeq(ops, 1, m - 1)
    \o [j \in 1..ops[m].cover |-> Literal(old[EndOf(ops, m) - ops[m].cover + j], 0)]

LEMMA UnpackFact ==
    ASSUME NEW n \in Nat, NEW old \in [1..n -> 0..16], NEW new \in [1..n -> 0..16],
           NEW ops \in Seq(Ops), Leads(Sends(old, new), 0, ops, n), NEW m \in Nat, m = Len(ops),
           m >= 1, ops[m].symbol \in {17, 18}
    PROVE  /\ Unpacked(ops, old, m) \in Seq(Ops)
           /\ Leads(Sends(old, new), 0, Unpacked(ops, old, m), n)
<1> DEFINE G == Sends(old, new)
           op == ops[m]
           end == EndOf(ops, m)
           a == SubSeq(ops, 1, m - 1)
           b == [j \in 1..op.cover |-> Literal(old[end - op.cover + j], 0)]
<1>0. Len(new) = n
  OBVIOUS
<1>1. m \in 1..m /\ m - 1 \in 0..Len(ops) /\ m - 1 \in 0..m /\ m \in 0..Len(ops)
  OBVIOUS
<1>2. PICK at : Meets(at, G, 0, ops, n)
  BY DEF Leads
<1>3. /\ at \in [0..m -> Nat] /\ at[0] = 0 /\ at[m] = n
      /\ \A j \in 1..m : <<at[j - 1], ops[j], at[j]>> \in G
  BY <1>2 DEF Meets
<1>4. end = n
  BY <1>1, <1>2, <1>3, EndFact
<1>5. ops[m] \in Ops
  BY <1>1
<1> HIDE DEF G
<1>6. PICK s \in Nat : s = at[m - 1]
  BY <1>1, <1>3
<1>7. /\ op \in Ops /\ n = s + op.cover
      /\ \A j \in 1..op.cover : Value(op, old[s + 1]) = new[s + j]
  <2>1. <<s, op, n>> \in G
    BY <1>1, <1>3, <1>6
  <2> HIDE DEF op
  <2> QED
    BY <2>1, SendsIs DEF G
<1>8. op.symbol \in {17, 18}
  OBVIOUS
<1> HIDE DEF op
<1>9. PICK c \in Nat \ {0} : c = op.cover /\ n = s + c
  <2>1. op.cover \in Nat \ {0}
    BY <1>7 DEF Ops
  <2> QED
    BY <2>1, <1>7
<1>10. \A j \in 1..c : new[s + j] = 0
  <2>1. Value(op, old[s + 1]) = 0
    BY <1>8 DEF Value
  <2> QED
    BY <2>1, <1>7, <1>9
<1>11. s + 1 \in Nat \ {0} /\ (s + 1) + c <= n + 1 /\ (s + 1) - 1 = s /\ (s + 1) + c - 1 = n
  <2>1. n = s + c
    BY <1>9
  <2> QED
    BY <2>1
<1>12. b = Literals(old, new, s + 1, c)
  <2>1. ASSUME NEW j \in 1..c
        PROVE  Literal(old[end - op.cover + j], 0) = Literal(old[(s + 1) + j - 1], new[(s + 1) + j - 1])
    <3>1. end - op.cover + j = s + j /\ (s + 1) + j - 1 = s + j
      BY <1>4, <1>9
    <3>2. new[s + j] = 0
      BY <1>10
    <3> QED
      BY <3>1, <3>2
  <2>2. Literals(old, new, s + 1, c)
          = [j \in 1..c |-> Literal(old[(s + 1) + j - 1], new[(s + 1) + j - 1])]
    BY DEF Literals
  <2> HIDE DEF end
  <2> QED
    BY <2>1, <2>2, <1>9
<1> HIDE DEF b, a
<1>13. b \in Seq(Ops) /\ Leads(G, s, b, n)
  <2>1. PICK from \in Nat \ {0} : from = s + 1
    BY <1>11
  <2>2. from + c <= n + 1 /\ from - 1 = s /\ from + c - 1 = n /\ c \in Nat
    BY <2>1, <1>11
  <2>3. b = Literals(old, new, from, c)
    BY <2>1, <1>12
  <2>4. b \in Seq(Ops) /\ Leads(G, from - 1, b, from + c - 1)
    BY <2>2, <2>3, LiteralsLead DEF G
  <2> QED
    BY <2>2, <2>4, Zenon
<1>14. a \in Seq(Ops) /\ Leads(G, 0, a, s)
  <2>1. PICK j \in 0..Len(ops) : j = m - 1
    BY <1>1
  <2>2. SubSeq(ops, 1, j) \in Seq(Ops) /\ Leads(G, 0, SubSeq(ops, 1, j), at[j])
    BY <1>2, LeadsCut
  <2> QED
    BY <2>1, <2>2, <1>6 DEF a
<1>15. a \o b \in Seq(Ops) /\ Leads(G, 0, a \o b, n)
  BY <1>13, <1>14, LeadsOn
<1>16. Unpacked(ops, old, m) = a \o b
  BY DEF a, b, op, end, Unpacked
<1> QED
  BY <1>15, <1>16 DEF G

\* A pretree of two symbols still sends the lengths, as long as no run is made of deltas.
LEMMA EnsureFact ==
    ASSUME NEW n \in Nat, NEW old \in [1..n -> 0..16], NEW new \in [1..n -> 0..16],
           NEW ops \in Seq(Ops), Leads(Sends(old, new), 0, ops, n), ~MakesRun(ops)
    PROVE  /\ ensure_multi_symbol(ops, old) \in Seq(Ops)
           /\ Leads(Sends(old, new), 0, ensure_multi_symbol(ops, old), n)
<1> DEFINE G == Sends(old, new)
           roomy == {k \in DOMAIN ops : ops[k].symbol \in {17, 18} /\ ops[k].cover > MinCover(ops[k].symbol)}
           res == ensure_multi_symbol(ops, old)
<1>1. PICK m \in Nat : m = Len(ops) /\ DOMAIN ops = 1..m
  OBVIOUS
<1>2. CASE Cardinality(Symbols(ops)) # 1
  <2>1. res = ops
    BY <1>2 DEF ensure_multi_symbol
  <2> QED
    BY <2>1
<1>3. CASE Cardinality(Symbols(ops)) = 1 /\ roomy # {}
  <2> DEFINE P(j) == \A i \in roomy : i <= j
             k == CHOOSE j \in roomy : P(j)
  <2>1. \E j \in roomy : P(j)
    <3>1. roomy \subseteq 0..m
      BY <1>1
    <3> HIDE DEF roomy
    <3> QED
      BY <3>1, <1>3, GreatestFact
  <2>2. res = InsertAt([ops EXCEPT ![k].cover = @ - 1], k + 1, Literal(old[EndOf(ops, k)], 0))
    BY <1>3 DEF ensure_multi_symbol
  <2> HIDE DEF P
  <2>3. k \in roomy
    <3> HIDE DEF roomy
    <3> QED
      BY <2>1
  <2> HIDE DEF k
  <2>4. k \in 1..m /\ ops[k].symbol \in {17, 18} /\ ops[k].cover > MinCover(ops[k].symbol)
    BY <2>3, <1>1
  <2>5. ops[k].cover > 1
    <3>1. ops[k] \in Ops
      BY <2>4, <1>1
    <3>2. ops[k].cover \in Nat
      BY <3>1 DEF Ops
    <3> DEFINE y == ops[k].symbol
    <3>3. y = 17 \/ y = 18
      BY <2>4
    <3> HIDE DEF y
    <3>4. MinCover(y) \in {4, 20}
      <4>1. CASE y = 17
        <5>1. MinCover(y) = 4
          BY <4>1 DEF MinCover
        <5> QED
          BY <5>1
      <4>2. CASE y = 18
        <5>1. MinCover(y) = 20
          BY <4>2 DEF MinCover
        <5> QED
          BY <5>1
      <4> QED
        BY <3>3, <4>1, <4>2
    <3>5. ops[k].cover > MinCover(y)
      BY <2>4 DEF y
    <3> QED
      BY <3>2, <3>4, <3>5
  <2>6. k \in 1..Len(ops)
    BY <2>4, <1>1
  <2> HIDE DEF G, res
  <2>7. res \in Seq(Ops) /\ Leads(G, 0, res, n)
    BY <2>2, <2>4, <2>5, <2>6, ShrinkFact DEF G
  <2> QED
    BY <2>7 DEF G, res
<1>4. CASE Cardinality(Symbols(ops)) = 1 /\ roomy = {} /\ ops[1].symbol \in {17, 18}
  <2>1. m >= 1 /\ \A k \in 1..m : ops[k].symbol = ops[1].symbol
    BY <1>1, <1>4, SymbolsFacts
  <2>2. ops[m].symbol \in {17, 18}
    <3>1. m \in 1..m
      BY <2>1
    <3> QED
      BY <2>1, <3>1, <1>4
  <2>3. res = Unpacked(ops, old, m)
    <3>1. res = Front(ops) \o [j \in 1..Last(ops).cover
                                |-> Literal(old[EndOf(ops, Len(ops)) - Last(ops).cover + j], 0)]
      BY <1>4 DEF ensure_multi_symbol
    <3> QED
      BY <3>1, <1>1 DEF Front, Last, Unpacked
  <2> HIDE DEF res, G, roomy
  <2>31. m = Len(ops)
    BY <1>1
  <2>32. m >= 1
    BY <2>1
  <2>4. res \in Seq(Ops) /\ Leads(Sends(old, new), 0, res, n)
    BY <2>2, <2>3, <2>31, <2>32, UnpackFact
  <2> QED
    BY <2>4 DEF res
<1>5. CASE Cardinality(Symbols(ops)) = 1 /\ roomy = {} /\ ~(ops[1].symbol \in {17, 18})
  <2>1. ~(ops[1].symbol <= 16 /\ Len(ops) >= 4)
    BY <1>5 DEF MakesRun
  <2>2. res = ops
    BY <1>5, <2>1 DEF ensure_multi_symbol
  <2> QED
    BY <2>2
<1> QED
  BY <1>2, <1>3, <1>4, <1>5

\* What a decoder with the tree before makes of the pretree.
LEMMA TreeComesBack ==
    ASSUME NEW n \in Nat, NEW old \in [1..n -> 0..16], NEW new \in [1..n -> 0..16],
           ~MakesRun(plan_symbols(old, new))
    PROVE  Decoded(old, ensure_multi_symbol(plan_symbols(old, new), old)) = new
<1> DEFINE ops == plan_symbols(old, new)
           sent == ensure_multi_symbol(ops, old)
<1>1. ops \in Seq(Ops) /\ Leads(Sends(old, new), 0, ops, n)
  BY PlanFacts
<1> HIDE DEF ops
<1>2. sent \in Seq(Ops) /\ Leads(Sends(old, new), 0, sent, n)
  BY <1>1, EnsureFact DEF ops
<1> HIDE DEF sent
<1> QED
  BY <1>2, DecodedFact DEF sent, ops

-----------------------------------------------------------------------------
(* The slots of offsets. *)

LEMMA Doubled ==
    ASSUME NEW k \in 0..20
    PROVE  2^k \in Nat \ {0} /\ 2^(k + 1) = 2 * 2^k
<1>1. CASE k = 0
  BY <1>1
<1>2. CASE k = 1
  BY <1>2
<1>3. CASE k = 2
  BY <1>3
<1>4. CASE k = 3
  BY <1>4
<1>5. CASE k = 4
  BY <1>5
<1>6. CASE k = 5
  BY <1>6
<1>7. CASE k = 6
  BY <1>7
<1>8. CASE k = 7
  BY <1>8
<1>9. CASE k = 8
  BY <1>9
<1>10. CASE k = 9
  BY <1>10
<1>11. CASE k = 10
  BY <1>11
<1>12. CASE k = 11
  BY <1>12
<1>13. CASE k = 12
  BY <1>13
<1>14. CASE k = 13
  BY <1>14
<1>15. CASE k = 14
  BY <1>15
<1>16. CASE k = 15
  BY <1>16
<1>17. CASE k = 16
  BY <1>17
<1>18. CASE k = 17
  BY <1>18
<1>19. CASE k = 18
  BY <1>19
<1>20. CASE k = 19
  BY <1>20
<1>21. CASE k = 20
  BY <1>21
<1> QED
  BY <1>1, <1>2, <1>3, <1>4, <1>5, <1>6, <1>7, <1>8, <1>9, <1>10, <1>11, <1>12, <1>13, <1>14, <1>15, <1>16, <1>17, <1>18, <1>19, <1>20, <1>21

LEMMA BaseSteps ==
    /\ PositionSlots \in 4..50
    /\ \A s \in 0..PositionSlots - 1 : FooterBits[s] = IF s < 4 THEN 0 ELSE IF s >= 36 THEN 17 ELSE (s - 2) \div 2
    /\ \A s \in 0..PositionSlots - 1 : FooterBits[s] \in 0..17 /\ 2^FooterBits[s] \in Nat \ {0}
    /\ BasePosition[0] = 0
    /\ \A s \in 1..PositionSlots : BasePosition[s - 1] \in Nat =>
            BasePosition[s] = BasePosition[s - 1] + 2^FooterBits[s - 1]
    /\ \A s \in 0..PositionSlots : BasePosition[s] \in Nat
<1> DEFINE n == PositionSlots
           B(s) == 2^FooterBits[s - 1]
           R(g) == [s \in 0..n |-> IF s = 0 THEN 0 ELSE g[s - 1] + B(s)]
           acc == CHOOSE g : g = R(g)
<1>1. n \in 4..50
  BY LzxAssumption
<1>2. \A s \in 0..n - 1 : FooterBits[s] = IF s < 4 THEN 0 ELSE IF s >= 36 THEN 17 ELSE (s - 2) \div 2
  BY DEF FooterBits
<1>3. ASSUME NEW s \in 0..n - 1 PROVE FooterBits[s] \in 0..17 /\ 2^FooterBits[s] \in Nat \ {0}
  <2>1. PICK k \in 0..17 : k = FooterBits[s]
    BY <1>1, <1>2
  <2>2. k \in 0..20
    OBVIOUS
  <2>3. 2^k \in Nat \ {0}
    BY <2>2, Doubled
  <2> QED
    BY <2>1, <2>3
<1>4. BasePosition = acc
  BY DEF BasePosition
<1> DEFINE S == [k \in 0..n |-> Nat]
           F == [t \in (1..n) \X Nat |-> t[2] + B(t[1])]
<1>5. \A k \in 1..n : B(k) \in Nat
  <2>1. \A k \in 1..n : k - 1 \in 0..n - 1
    BY <1>1
  <2> QED
    BY <2>1, <1>3
<1> HIDE DEF n, acc, B
<1>6. S[0] = Nat /\ 0 \in S[0] /\ \A k \in 1..n : S[k - 1] = Nat /\ S[k] = Nat
  <2>1. 0 \in 0..n /\ \A k \in 1..n : k - 1 \in 0..n /\ k \in 0..n
    BY <1>1
  <2> QED
    BY <2>1
<1>7. \A k \in 1..n : \A x \in Nat : F[<<k, x>>] = x + B(k)
  OBVIOUS
<1> HIDE DEF S, F
<1>8. Ascends(S, n, F)
  <2>1. \A k \in 1..n : \A x \in Nat : x + B(k) \in Nat
    BY <1>5
  <2>2. ASSUME NEW k \in 1..n, NEW x \in S[k - 1] PROVE F[<<k, x>>] \in S[k]
    <3>1. x \in Nat /\ F[<<k, x>>] = x + B(k) /\ S[k] = Nat
      BY <1>6, <1>7
    <3>2. F[<<k, x>>] \in Nat
      BY <2>1, <3>1
    <3> QED
      BY <3>1, <3>2
  <2> QED
    BY <2>2 DEF Ascends
<1>9. PICK f : Climbs(f, S, 0, n, F)
  <2>1. n \in Nat
    BY <1>1
  <2> QED
    BY <1>6, <1>8, <2>1, ClimbExists
<1>10. /\ f = [k \in 0..n |-> f[k]] /\ f[0] = 0
       /\ \A k \in 1..n : f[k - 1] \in S[k - 1] /\ f[k] = F[<<k, f[k - 1]>>]
       /\ \A k \in 0..n : k = 0 \/ k \in 1..n
  <2>1. n \in Nat
    BY <1>1
  <2> QED
    BY <2>1, <1>9, ClimbIs
<1>11. \A k \in 0..n : f[k] = IF k = 0 THEN 0 ELSE f[k - 1] + B(k)
  BY <1>6, <1>7, <1>10
<1>12. R(f) = [k \in 0..n |-> f[k]]
  BY <1>11
<1>13. acc = R(acc)
  BY <1>10, <1>12 DEF acc
<1>14. acc[0] = 0 /\ \A k \in 1..n : acc[k] = acc[k - 1] + B(k)
  <2>1. 0 \in 0..n /\ \A k \in 1..n : k \in 0..n /\ k # 0
    BY <1>1
  <2> QED
    BY <1>13, <2>1
<1>15. Follows(acc, S, 0, n, F)
  BY <1>6, <1>7, <1>14 DEF Follows
<1>16. \A k \in 0..n : acc[k] = f[k] /\ f[k] \in Nat
  <2>1. n \in Nat
    BY <1>1
  <2>2. \A k \in 0..n : acc[k] = f[k]
    BY <2>1, <1>9, <1>15, FollowsFact
  <2>3. \A k \in 0..n : f[k] \in Nat
    BY <1>9, <1>10, <1>6 DEF Climbs
  <2> QED
    BY <2>2, <2>3
<1> QED
  BY <1>1, <1>2, <1>3, <1>4, <1>14, <1>16 DEF n, B

\* Where a slot starts, in closed form.
Start(s) == IF s < 4 THEN s
            ELSE IF s >= 36 THEN 262144 + 131072 * (s - 36)
            ELSE IF s % 2 = 0 THEN 2^(s \div 2) ELSE 3 * 2^(s \div 2 - 1)

Width(s) == 2^(IF s < 4 THEN 0 ELSE IF s >= 36 THEN 17 ELSE (s - 2) \div 2)

LEMMA StartSteps ==
    ASSUME NEW s \in 0..49
    PROVE  Start(s) \in Nat /\ Width(s) \in Nat \ {0} /\ Start(s + 1) = Start(s) + Width(s)
<1>1. CASE s < 3
  <2>1. 2^0 = 1
    OBVIOUS
  <2> QED
    BY <1>1, <2>1 DEF Start, Width
<1>2. CASE s = 3
  <2>1. 2^0 = 1 /\ 2^2 = 4 /\ 4 \div 2 = 2 /\ 4 % 2 = 0
    OBVIOUS
  <2>2. Start(s) = 3 /\ Width(s) = 1 /\ Start(s + 1) = 2^2
    BY <1>2, <2>1 DEF Start, Width
  <2> QED
    BY <2>1, <2>2
<1>3. CASE s >= 36
  <2>1. 2^17 = 131072
    OBVIOUS
  <2>2. ~(s < 4) /\ ~(s + 1 < 4) /\ s + 1 >= 36
    BY <1>3
  <2>3. Start(s) = 262144 + 131072 * (s - 36) /\ Start(s + 1) = 262144 + 131072 * (s + 1 - 36) /\ Width(s) = 131072
    BY <1>3, <2>1, <2>2 DEF Start, Width
  <2> QED
    BY <2>3, <1>3
<1>4. CASE s >= 4 /\ s < 36
  <2>1. PICK j \in 2..17 : j = s \div 2
    BY <1>4
  <2>2. PICK i \in 1..16 : i = j - 1
    OBVIOUS
  <2>3. PICK o \in Nat \ {0} : o = 2^i
    <3>1. i \in 0..20
      OBVIOUS
    <3> QED
      BY <3>1, Doubled
  <2>4. 2^(i + 1) = 2 * o /\ 2^(i + 1 + 1) = 2 * 2^(i + 1)
    <3>1. i \in 0..20 /\ i + 1 \in 0..20
      OBVIOUS
    <3> QED
      BY <2>3, <3>1, Doubled
  <2>5. j = i + 1 /\ j + 1 = i + 1 + 1 /\ j - 1 = i
    BY <2>2
  <2>6. 2^j = 2 * o /\ 2^(j + 1) = 4 * o /\ 2^(j - 1) = o
    BY <2>3, <2>4, <2>5
  <2>7. (s - 2) \div 2 = i
    BY <2>1, <2>2, <1>4
  <2>8. Width(s) = o
    BY <2>3, <2>7, <1>4 DEF Width
  <2>9. CASE s % 2 = 0
    <3>1. s = 2 * j /\ s + 1 = 2 * j + 1
      BY <2>1, <2>9
    <3>2. Start(s) = 2^j
      BY <1>4, <2>1, <2>9 DEF Start
    <3>3. s + 1 < 36 /\ (s + 1) % 2 = 1 /\ (s + 1) \div 2 = j
      BY <3>1, <1>4
    <3>4. Start(s + 1) = 3 * 2^(j - 1)
      BY <1>4, <3>3 DEF Start
    <3> QED
      BY <3>2, <3>4, <2>6, <2>8
  <2>10. CASE s % 2 # 0
    <3>1. s = 2 * j + 1
      BY <2>1, <2>10
    <3>2. Start(s) = 3 * 2^(j - 1)
      BY <1>4, <2>1, <2>10 DEF Start
    <3>3. (s + 1) % 2 = 0 /\ (s + 1) \div 2 = j + 1
      BY <3>1, <1>4
    <3>4. Start(s + 1) = 2^(j + 1)
      <4>1. CASE s < 35
        BY <4>1, <1>4, <3>3 DEF Start
      <4>2. CASE s = 35
        <5>1. s + 1 = 36 /\ j + 1 = 18
          BY <4>2, <1>4, <3>1
        <5>2. Start(36) = 2^18
          BY SMT DEF Start
        <5> QED
          BY <5>1, <5>2, Zenon
      <4>3. s < 35 \/ s = 35
        BY <1>4
      <4> QED
        BY <4>1, <4>2, <4>3, Zenon
    <3> QED
      BY <3>2, <3>4, <2>6, <2>8
  <2> QED
    BY <2>9, <2>10
<1> QED
  BY <1>1, <1>2, <1>3, <1>4

\* Slots start in their order.
LEMMA StartOrder ==
    ASSUME NEW s \in 0..50, NEW t \in 0..50, s <= t
    PROVE  Start(s) \in Nat /\ Start(t) \in Nat /\ Start(s) <= Start(t)
<1> DEFINE Bad == {d \in 0..50 : \E i \in 0..50 : i + d <= 50 /\ ~(Start(i) \in Nat /\ Start(i + d) \in Nat /\ Start(i) <= Start(i + d))}
<1>0. \A i \in 0..50 : Start(i) \in Nat
  <2> TAKE i \in 0..50
  <2>1. CASE i = 0
    BY <2>1 DEF Start
  <2>2. CASE i # 0
    <3>1. PICK j \in 0..49 : j = i - 1 /\ j + 1 = i
      BY <2>2
    <3>2. Start(j) \in Nat /\ Width(j) \in Nat /\ Start(j + 1) = Start(j) + Width(j)
      BY StartSteps
    <3>3. Start(j + 1) \in Nat
      BY <3>2
    <3> QED
      BY <3>1, <3>3
  <2> QED
    BY <2>1, <2>2
<1>5. \A x \in 0..50 : \A i \in 0..50 : x \notin Bad /\ i + x <= 50 =>
        Start(i) \in Nat /\ Start(i + x) \in Nat /\ Start(i) <= Start(i + x)
  OBVIOUS
<1>1. ASSUME Bad # {} PROVE FALSE
  <2>1. PICK b \in Bad : \A y \in Bad : b <= y
    <3>1. Bad \subseteq Nat
      OBVIOUS
    <3> HIDE DEF Bad
    <3> QED
      BY <1>1, <3>1, LeastFact
  <2>2. PICK i \in 0..50 : i + b <= 50 /\ ~(Start(i) \in Nat /\ Start(i + b) \in Nat /\ Start(i) <= Start(i + b))
    BY <2>1
  <2>3. b \in 0..50 /\ b # 0
    <3>1. ASSUME b = 0 PROVE FALSE
      <4>1. i + b = i
        BY <3>1
      <4>2. Start(i) \in Nat
        BY <1>0
      <4>3. Start(i) <= Start(i)
        BY <4>2
      <4> QED
        BY <4>1, <4>2, <4>3, <2>2
    <3>2. b \in 0..50
      BY <2>1
    <3> QED
      BY <3>1, <3>2
  <2>4. PICK c \in 0..49 : c = b - 1 /\ b = c + 1
    BY <2>3
  <2>5. PICK j \in 0..49 : j = i + c /\ j + 1 = i + b
    BY <2>2, <2>4
  <2>6. Start(j) \in Nat /\ Width(j) \in Nat \ {0} /\ Start(j + 1) = Start(j) + Width(j)
    BY StartSteps
  <2>7. Start(i) \in Nat /\ Start(i) <= Start(j)
    <3>1. c \in 0..50 /\ i + c <= 50 /\ ~(b <= c)
      BY <2>2, <2>3, <2>4
    <3> HIDE DEF Bad
    <3>2. c \notin Bad
      BY <2>1, <3>1
    <3>3. Start(i) \in Nat /\ Start(i + c) \in Nat /\ Start(i) <= Start(i + c)
      BY <3>1, <3>2, <1>5
    <3> QED
      BY <2>5, <3>3
  <2>8. Start(j + 1) \in Nat /\ Start(i) <= Start(j + 1)
    BY <2>6, <2>7
  <2> QED
    BY <2>2, <2>5, <2>7, <2>8
<1>2. PICK d \in 0..50 : d = t - s /\ s + d = t
  OBVIOUS
<1>3. d \notin Bad
  BY <1>1
<1>4. Start(s) \in Nat /\ Start(s + d) \in Nat /\ Start(s) <= Start(s + d)
  <2>1. s + d <= 50
    BY <1>2
  <2>2. s \in 0..50 /\ d \in 0..50
    OBVIOUS
  <2> HIDE DEF Bad
  <2> QED
    BY <2>1, <2>2, <1>3, <1>5
<1> QED
  BY <1>2, <1>4

LEMMA BaseStarts ==
    ASSUME NEW s \in 0..PositionSlots
    PROVE  s \in 0..50 /\ BasePosition[s] = Start(s)
<1> DEFINE Bad == {k \in 0..PositionSlots : BasePosition[k] # Start(k)}
<1>0. PositionSlots \in 4..50
  BY BaseSteps
<1>1. ASSUME Bad # {} PROVE FALSE
  <2>1. PICK b \in Bad : \A y \in Bad : b <= y
    <3>1. Bad \subseteq Nat
      BY <1>0
    <3> HIDE DEF Bad
    <3> QED
      BY <1>1, <3>1, LeastFact
  <2>2. b \in 0..PositionSlots /\ BasePosition[b] # Start(b)
    BY <2>1
  <2>3. b # 0
    BY <2>2, BaseSteps DEF Start
  <2>4. PICK c \in 0..PositionSlots - 1 : c = b - 1 /\ b = c + 1 /\ c \in 0..PositionSlots /\ ~(b <= c)
    BY <2>2, <2>3, <1>0
  <2>5. BasePosition[c] = Start(c)
    BY <2>1, <2>4
  <2>6. b \in 1..PositionSlots
    BY <2>2, <2>3, <1>0
  <2>7. BasePosition[b] = BasePosition[c] + 2^FooterBits[c]
    BY <2>4, <2>6, BaseSteps
  <2>8. 2^FooterBits[c] = Width(c)
    <3>1. FooterBits[c] = IF c < 4 THEN 0 ELSE IF c >= 36 THEN 17 ELSE (c - 2) \div 2
      BY <2>4, BaseSteps
    <3> QED
      BY <3>1, Zenon DEF Width
  <2>9. c \in 0..49
    BY <2>4, <1>0
  <2>10. Start(c + 1) = Start(c) + Width(c)
    BY <2>9, StartSteps
  <2> QED
    BY <2>2, <2>4, <2>5, <2>7, <2>8, <2>10, Zenon
<1>2. s \notin Bad /\ s \in 0..50
  BY <1>0, <1>1
<1> QED
  BY <1>2

\* The slot of a position by its bits.
LEMMA SlotStarts ==
    ASSUME NEW offset \in Nat, offset >= 1, offset + 2 < Start(50)
    PROVE  LET s == position_slot_for(offset)
           IN  s \in 3..49 /\ Start(s) <= offset + 2 /\ offset + 2 < Start(s + 1)
<1> DEFINE s == position_slot_for(offset)
<1>1. PICK f \in Nat : f = offset + 2
  OBVIOUS
<1>2. f >= 3 /\ f < Start(50)
  BY <1>1
<1>3. CASE f < 4
  <2>1. f = 3
    BY <1>2, <1>3
  <2>2. s = 3
    BY <1>1, <2>1 DEF position_slot_for
  <2>3. Start(3) = 3 /\ Start(4) = 2^2 /\ 2^2 = 4
    BY DEF Start
  <2> QED
    BY <1>1, <2>1, <2>2, <2>3
<1>4. CASE f >= 4
  <2> DEFINE P(k) == 2^k <= f /\ f < 2^(k + 1)
             l == CHOOSE k \in 1..20 : P(k)
             top == {k \in 0..20 : 2^k <= f}
  <2>1. \E k \in 1..20 : P(k)
    <3>1. 1 \in top
      <4>1. 2^1 = 2
        OBVIOUS
      <4> QED
        BY <4>1, <1>4
    <3>2. PICK k \in top : \A y \in top : y <= k
      <4> HIDE DEF top
      <4>1. top \subseteq 0..20
        BY DEF top
      <4>2. PICK n \in Nat : n = 20
        OBVIOUS
      <4> QED
        BY <3>1, <4>1, <4>2, GreatestFact
    <3>3. k \in 0..20 /\ 2^k <= f /\ k >= 1
      BY <3>1, <3>2
    <3>4. f < 2^(k + 1)
      <4>1. CASE k < 20
        <5>1. PICK j \in 0..20 : j = k + 1
          BY <3>3, <4>1
        <5>2. ~(2^j <= f)
          <6>1. ~(j <= k)
            BY <3>3, <5>1
          <6> QED
            BY <3>2, <6>1
        <5>3. 2^j \in Nat
          BY Doubled
        <5> QED
          BY <5>1, <5>2, <5>3
      <4>2. CASE k = 20
        <5>1. Start(50) = 2^21
          BY SMT DEF Start
        <5> QED
          BY <4>2, <5>1, <1>2
      <4>3. k < 20 \/ k = 20
        BY <3>3
      <4> QED
        BY <4>1, <4>2, <4>3, Zenon
    <3>5. k \in 1..20
      BY <3>3
    <3> QED
      BY <3>3, <3>4, <3>5
  <2> HIDE DEF P
  <2>2. l \in 1..20 /\ P(l)
    BY <2>1
  <2>3. /\ l < 18 => s = 2 * l + ((f \div 2^(l - 1)) % 2)
        /\ ~(l < 18) => s = 36 + (f - 262144) \div 131072
    <3>1. ~(f < 4)
      BY <1>4
    <3> QED
      BY <1>1, <3>1, SMT DEF position_slot_for, P
  <2> HIDE DEF l
  <2>4. PICK i \in 0..19 : i = l - 1
    BY <2>2
  <2>5. PICK o \in Nat \ {0} : o = 2^i
    <3>1. i \in 0..20
      OBVIOUS
    <3> QED
      BY <3>1, Doubled
  <2>6. 2^l = 2 * o /\ 2^(l + 1) = 4 * o
    <3>1. i \in 0..20 /\ i + 1 = l /\ l \in 0..20
      BY <2>2, <2>4
    <3>2. 2^(i + 1) = 2 * o
      BY <3>1, <2>5, Doubled
    <3>3. 2^(l + 1) = 2 * 2^l
      BY <3>1, Doubled
    <3>4. 2^l = 2 * o
      BY <3>1, <3>2
    <3> QED
      BY <3>3, <3>4
  <2>7. 2 * o <= f /\ f < 4 * o
    BY <2>2, <2>6 DEF P
  <2>8. CASE l < 18
    <3>0. l >= 2
      <4>1. ASSUME l = 1 PROVE FALSE
        <5>1. 2^(1 + 1) = 4
          OBVIOUS
        <5>2. 2^(l + 1) = 4
          BY <4>1, <5>1, Zenon
        <5> QED
          BY <1>4, <2>2, <5>2 DEF P
      <4> QED
        BY <4>1, <2>2
    <3>1. s = 2 * l + ((f \div o) % 2)
      BY <2>3, <2>4, <2>5, <2>8, SMT
    <3>2. PICK d \in Nat : d = 2 * l
      BY <2>2
    <3>3. d % 2 = 0 /\ d \div 2 = l /\ d >= 4 /\ d < 36
      BY <3>2, <3>0, <2>2, <2>8
    <3>4. Start(d) = 2^l
      BY <3>3 DEF Start
    <3>5. (d + 1) % 2 = 1 /\ (d + 1) \div 2 = l /\ d + 1 >= 4 /\ d + 1 < 36
      BY <3>2, <3>0, <2>2, <2>8
    <3>6. Start(d + 1) = 3 * o
      <4>1. Start(d + 1) = 3 * 2^(l - 1)
        BY <3>5 DEF Start
      <4> QED
        BY <4>1, <2>4, <2>5, Zenon
    <3>7. Start(d + 2) = 4 * o
      <4>1. PICK e \in 0..49 : e = d + 1 /\ e + 1 = d + 2
        BY <3>3
      <4>2. Start(e + 1) = Start(e) + Width(e)
        BY StartSteps
      <4>3. (e - 2) \div 2 = i /\ e >= 4 /\ e < 36
        BY <4>1, <3>2, <3>5, <2>4, <2>2
      <4>4. Width(e) = o
        BY <4>3, <2>5 DEF Width
      <4>5. Start(e + 1) = 3 * o + o
        BY <4>1, <4>2, <4>4, <3>6, Zenon
      <4>6. 3 * o + o = 4 * o
        OBVIOUS
      <4> QED
        BY <4>1, <4>5, <4>6, Zenon
    <3>8. CASE f < 3 * o
      <4>1. f \div o = 2
        BY <2>7, <3>8
      <4>2. s = d
        BY <3>1, <3>2, <4>1
      <4>3. s \in 3..49
        BY <4>2, <3>3
      <4> QED
        BY <1>1, <4>2, <4>3, <2>6, <2>7, <3>4, <3>6, <3>8
    <3>9. CASE f >= 3 * o
      <4>1. f \div o = 3
        BY <2>7, <3>9
      <4>2. s = d + 1
        BY <3>1, <3>2, <4>1
      <4>3. s \in 3..49 /\ s + 1 = d + 2
        BY <4>2, <3>3
      <4> QED
        BY <1>1, <4>2, <4>3, <2>7, <3>6, <3>7, <3>9
    <3> QED
      BY <3>8, <3>9
  <2>9. CASE l >= 18
    <3>1. f >= 262144
      <4>1. CASE i = 17
        BY <4>1, <2>5, <2>7, SMT
      <4>2. CASE i = 18
        BY <4>2, <2>5, <2>7, SMT
      <4>3. CASE i = 19
        BY <4>3, <2>5, <2>7, SMT
      <4>4. i = 17 \/ i = 18 \/ i = 19
        BY <2>4, <2>9
      <4> QED
        BY <4>1, <4>2, <4>3, <4>4, SMT
    <3>2. f < 2097152
      <4>1. Start(50) = 2097152
        BY SMT DEF Start
      <4> QED
        BY <4>1, <1>2, SMT
    <3>3. PICK d \in 0..13 : /\ d = (f - 262144) \div 131072
                             /\ 131072 * d <= f - 262144 /\ f - 262144 < 131072 * d + 131072
      BY <3>1, <3>2, SMT
    <3>4. s = 36 + d
      <4>1. ~(l < 18)
        BY <2>9, <2>2
      <4> QED
        BY <4>1, <2>3, <3>3, SMT
    <3>5. s \in 3..49 /\ s >= 36 /\ s - 36 = d /\ s + 1 >= 36 /\ s + 1 - 36 = d + 1
      BY <3>4
    <3>6. Start(s) = 262144 + 131072 * d
      BY <3>5, SMT DEF Start
    <3>7. Start(s + 1) = 262144 + 131072 * (d + 1)
      BY <3>5, SMT DEF Start
    <3> HIDE DEF s
    <3>8. s \in 3..49
      BY <3>5
    <3>9. Start(s) <= f /\ f < Start(s + 1)
      BY <3>3, <3>6, <3>7, SMT
    <3> QED
      BY <1>1, <3>8, <3>9, Zenon DEF s
  <2>10. l < 18 \/ l >= 18
    BY <2>2
  <2> QED
    BY <2>8, <2>9, <2>10
<1> QED
  BY <1>1, <1>2, <1>3, <1>4

\* Every offset of the window has a slot, and bits that the slot has room for.
LEMMA SlotFact ==
    ASSUME NEW offset \in 1..MaxOffset
    PROVE  /\ position_slot_for(offset) \in 3..PositionSlots - 1
           /\ BasePosition[position_slot_for(offset)] \in Nat
           /\ BasePosition[position_slot_for(offset)] <= offset + 2
           /\ offset + 2 < BasePosition[position_slot_for(offset)] + 2^FooterBits[position_slot_for(offset)]
<1> DEFINE s == position_slot_for(offset)
<1>0. PositionSlots \in 4..50 /\ PositionSlots \in 0..50
  BY BaseSteps
<1>1. PICK e \in Nat : e = Start(PositionSlots)
  BY <1>0, StartOrder
<1>2. BasePosition[PositionSlots] = e
  <2>1. PositionSlots \in 0..PositionSlots
    BY <1>0
  <2> QED
    BY <1>1, <2>1, BaseStarts
<1>3. offset \in Nat /\ offset >= 1 /\ offset + 2 < e
  BY <1>2 DEF MaxOffset
<1>4. offset + 2 < Start(50)
  <2>1. PICK h \in 0..50 : h = 50
    OBVIOUS
  <2>2. Start(h) \in Nat /\ e <= Start(h)
    BY <1>0, <1>1, <2>1, StartOrder
  <2>3. offset + 2 < Start(h)
    BY <2>2, <1>3
  <2> QED
    BY <2>1, <2>3, Zenon
<1>5. s \in 3..49 /\ Start(s) <= offset + 2 /\ offset + 2 < Start(s + 1)
  BY <1>3, <1>4, SlotStarts
<1> HIDE DEF s
<1>6. s < PositionSlots
  <2>1. ASSUME s >= PositionSlots PROVE FALSE
    <3>1. s \in 0..50 /\ PositionSlots <= s
      BY <2>1, <1>0, <1>5
    <3>2. Start(s) \in Nat /\ e <= Start(s)
      BY <3>1, <1>0, <1>1, StartOrder
    <3> QED
      BY <3>2, <1>3, <1>5
  <2> QED
    BY <2>1, <1>0, <1>5
<1>7. s \in 0..PositionSlots /\ s + 1 \in 1..PositionSlots /\ s + 1 - 1 = s /\ s \in 0..PositionSlots - 1 /\ s + 1 \in 0..PositionSlots
      /\ s \in 3..PositionSlots - 1
  BY <1>0, <1>5, <1>6
<1>8. BasePosition[s] = Start(s) /\ BasePosition[s + 1] = Start(s + 1) /\ BasePosition[s] \in Nat
  BY <1>7, BaseStarts, BaseSteps
<1>9. BasePosition[s + 1] = BasePosition[s] + 2^FooterBits[s]
  BY <1>7, <1>8, BaseSteps
<1> QED
  BY <1>5, <1>7, <1>8, <1>9 DEF s

\* The window has offsets.
LEMMA OffsetsFact ==
    MaxOffset \in Nat \ {0} /\ Initial \in [1..3 -> 1..MaxOffset]
<1>0. PositionSlots \in 4..50 /\ PositionSlots \in 0..50
  BY BaseSteps
<1>1. MaxOffset = Start(PositionSlots) - 3
  <2>1. PositionSlots \in 0..PositionSlots
    BY <1>0
  <2> QED
    BY <2>1, BaseStarts DEF MaxOffset
<1>2. PICK h \in 0..50 : h = 4
  OBVIOUS
<1>3. Start(h) \in Nat /\ Start(PositionSlots) \in Nat /\ Start(h) <= Start(PositionSlots)
  BY <1>0, <1>2, StartOrder
<1>4. Start(4) = 4
  <2>1. 2^2 = 4
    OBVIOUS
  <2>2. Start(4) = 2^2
    BY DEF Start
  <2> QED
    BY <2>1, <2>2
<1>5. MaxOffset \in Nat \ {0}
  BY <1>1, <1>2, <1>3, <1>4
<1> HIDE DEF MaxOffset
<1>6. Initial \in [1..3 -> 1..MaxOffset]
  BY <1>5 DEF Initial
<1> QED
  BY <1>5, <1>6

LEMMA SwapFacts ==
    ASSUME NEW q \in [1..3 -> 1..MaxOffset], NEW i \in 1..3, NEW offset \in 1..MaxOffset
    PROVE  Swapped(q, i) \in [1..3 -> 1..MaxOffset] /\ Pushed(q, offset) \in [1..3 -> 1..MaxOffset]
<1>1. MaxOffset \in Nat
  BY OffsetsFact
<1> HIDE DEF MaxOffset
<1>2. Swapped(q, i) \in [1..3 -> 1..MaxOffset]
  BY <1>1 DEF Swapped
<1>3. Pushed(q, offset) \in [1..3 -> 1..MaxOffset]
  BY <1>1 DEF Pushed
<1> QED
  BY <1>2, <1>3

-----------------------------------------------------------------------------
(* Tokens, and how they copy bytes. *)

Tokens == {t \in [offset : 0..MaxOffset, length : 1..MaxMatch, byte : 0..Bytes - 1] :
            /\ t.offset = 0 => t.length = 1
            /\ t.offset > 0 => t.length >= 2}

\* The token t makes the bytes behind a of those before.
Copies(all) ==
    {w \in Nat \X Tokens \X Nat :
        /\ w[3] = w[1] + w[2].length /\ w[3] <= Len(all)
        /\ w[2].offset = 0 => all[w[1] + 1] = w[2].byte
        /\ w[2].offset > 0 =>
            /\ w[2].offset <= w[1]
            /\ \A k \in 1..w[2].length : all[w[1] + k] = all[w[1] + k - w[2].offset]}

LEMMA TokenIs ==
    ASSUME NEW t \in Tokens
    PROVE  /\ t = [offset |-> t.offset, length |-> t.length, byte |-> t.byte]
           /\ t.offset \in Nat /\ t.offset <= MaxOffset /\ t.length \in Nat \ {0} /\ t.length <= MaxMatch
           /\ t.byte \in 0..Bytes - 1
           /\ t.offset = 0 => t.length = 1
           /\ t.offset > 0 => t.length >= 2
<1>1. MaxOffset \in Nat /\ MaxMatch \in Nat
  BY OffsetsFact, LzxAssumption
<1> HIDE DEF MaxOffset
<1> QED
  BY <1>1 DEF Tokens

LEMMA CopyIs ==
    ASSUME NEW all, NEW a, NEW t, NEW b
    PROVE  <<a, t, b>> \in Copies(all) <=>
            /\ a \in Nat /\ t \in Tokens /\ b \in Nat
            /\ b = a + t.length /\ b <= Len(all)
            /\ t.offset = 0 => all[a + 1] = t.byte
            /\ t.offset > 0 =>
                /\ t.offset <= a
                /\ \A k \in 1..t.length : all[a + k] = all[a + k - t.offset]
<1> DEFINE w == <<a, t, b>>
<1>1. w[1] = a /\ w[2] = t /\ w[3] = b
  OBVIOUS
<1>2. w \in Nat \X Tokens \X Nat <=> a \in Nat /\ t \in Tokens /\ b \in Nat
  OBVIOUS
<1> HIDE DEF w
<1>3. w \in Copies(all) <=>
        /\ w \in Nat \X Tokens \X Nat
        /\ w[3] = w[1] + w[2].length /\ w[3] <= Len(all)
        /\ w[2].offset = 0 => all[w[1] + 1] = w[2].byte
        /\ w[2].offset > 0 =>
            /\ w[2].offset <= w[1]
            /\ \A k \in 1..w[2].length : all[w[1] + k] = all[w[1] + k - w[2].offset]
  BY Zenon DEF Copies
<1> QED
  BY <1>1, <1>2, <1>3, Zenon DEF w

LEMMA LiteralCopies ==
    ASSUME NEW all \in Seq(0..Bytes - 1), NEW a \in Nat, a + 1 <= Len(all)
    PROVE  /\ LiteralToken(all[a + 1]) \in Tokens
           /\ <<a, LiteralToken(all[a + 1]), a + 1>> \in Copies(all)
<1> DEFINE t == LiteralToken(all[a + 1])
<1>1. all[a + 1] \in 0..Bytes - 1
  <2> DEFINE Y == 0..Bytes - 1
  <2>1. PICK i \in 1..Len(all) : i = a + 1
    OBVIOUS
  <2>2. all \in Seq(Y)
    OBVIOUS
  <2> HIDE DEF Y
  <2>3. all[i] \in Y
    BY <2>2
  <2> QED
    BY <2>1, <2>3 DEF Y
<1>2. t.offset = 0 /\ t.length = 1 /\ t.byte = all[a + 1]
  BY DEF LiteralToken
<1>3. t \in Tokens
  <2>1. MaxOffset \in Nat /\ MaxMatch \in Nat /\ MaxMatch > 9
    BY OffsetsFact, LzxAssumption
  <2> HIDE DEF MaxOffset
  <2>2. t \in [offset : 0..MaxOffset, length : 1..MaxMatch, byte : 0..Bytes - 1]
    BY <1>1, <2>1 DEF LiteralToken
  <2> HIDE DEF t
  <2> QED
    BY <1>2, <2>2 DEF Tokens
<1> HIDE DEF t
<1>4. a + 1 \in Nat /\ a + 1 = a + t.length /\ ~(t.offset > 0)
  BY <1>2
<1>5. <<a, t, a + 1>> \in Copies(all)
  BY <1>2, <1>3, <1>4, CopyIs
<1> QED
  BY <1>3, <1>5 DEF t

LEMMA MatchCopies ==
    ASSUME NEW all \in Seq(0..Bytes - 1), NEW a \in Nat,
           NEW offset \in 1..MaxOffset, NEW length \in 2..MaxMatch,
           offset <= a, a + length <= Len(all),
           \A k \in 1..length : all[a + k] = all[a + k - offset]
    PROVE  /\ MatchToken(offset, length) \in Tokens
           /\ <<a, MatchToken(offset, length), a + length>> \in Copies(all)
<1> DEFINE t == MatchToken(offset, length)
<1>1. MaxOffset \in Nat /\ MaxMatch \in Nat /\ Bytes \in Nat /\ Bytes > 5
  BY OffsetsFact, LzxAssumption
<1> HIDE DEF MaxOffset
<1>2. t.offset = offset /\ t.length = length /\ t.byte = 0
  BY DEF MatchToken
<1>3. t \in Tokens
  <2>1. 0 \in 0..Bytes - 1 /\ offset \in 0..MaxOffset /\ length \in 1..MaxMatch /\ offset # 0 /\ length >= 2
    BY <1>1
  <2>2. t \in [offset : 0..MaxOffset, length : 1..MaxMatch, byte : 0..Bytes - 1]
    BY <2>1 DEF MatchToken
  <2> HIDE DEF t
  <2> QED
    BY <1>2, <2>1, <2>2 DEF Tokens
<1> HIDE DEF t
<1>4. a + length \in Nat /\ offset # 0
  BY <1>1
<1>5. <<a, t, a + length>> \in Copies(all)
  BY <1>2, <1>3, <1>4, CopyIs
<1> QED
  BY <1>3, <1>5 DEF t

-----------------------------------------------------------------------------
(* The match finder. *)

LEMMA PrefixFact ==
    ASSUME NEW bytes, NEW q \in Nat, NEW p \in Nat, NEW limit \in Nat
    PROVE  /\ common_prefix_len(bytes, q, p, limit) \in 0..limit
           /\ \A k \in 0..limit : k < common_prefix_len(bytes, q, p, limit) => bytes[q + k] = bytes[p + k]
<1> DEFINE R(g) == [n \in 0..limit |-> IF n = limit \/ bytes[q + n] # bytes[p + n] THEN n ELSE g[n + 1]]
           acc == CHOOSE g : g = R(g)
           Stops == {m \in 0..limit : m = limit \/ bytes[q + m] # bytes[p + m]}
           Stop(n, m) == m \in Stops /\ m >= n /\ \A y \in Stops : y >= n => m <= y
           f == [n \in 0..limit |-> CHOOSE m : Stop(n, m)]
<1>1. common_prefix_len(bytes, q, p, limit) = acc[0]
  BY DEF common_prefix_len
<1>2. limit \in Stops /\ Stops \subseteq 0..limit
  OBVIOUS
<1>3. \A n \in 0..limit : n \in Stops <=> (n = limit \/ bytes[q + n] # bytes[p + n])
  OBVIOUS
<1> HIDE DEF Stops
<1>4. ASSUME NEW n \in 0..limit PROVE Stop(n, f[n])
  <2> DEFINE T == {m \in Stops : m >= n}
  <2>1. limit \in T /\ T \subseteq Nat
    <3>1. limit >= n
      OBVIOUS
    <3>20. \A m \in 0..limit : m \in Nat
      OBVIOUS
    <3>2. T \subseteq Nat
      BY <1>2, <3>20, Zenon
    <3>3. limit \in Stops
      BY <1>2
    <3>4. limit \in T
      BY <3>1, <3>3, Zenon
    <3> QED
      BY <3>2, <3>4
  <2>2. PICK m \in T : \A y \in T : m <= y
    <3> HIDE DEF T
    <3> QED
      BY <2>1, LeastFact
  <2>3. Stop(n, m)
    BY <2>2
  <2> HIDE DEF Stop
  <2> QED
    BY <2>3
<1> HIDE DEF f
<1>5. ASSUME NEW n \in 0..limit PROVE f[n] = IF n = limit \/ bytes[q + n] # bytes[p + n] THEN n ELSE f[n + 1]
  <2>1. CASE n \in Stops
    <3>0. Stop(n, f[n]) /\ n >= n
      BY <1>4
    <3>1. f[n] \in 0..limit /\ f[n] >= n /\ f[n] <= n
      BY <1>2, <3>0, <2>1
    <3>2. f[n] = n
      BY <3>1
    <3> QED
      BY <3>2, <2>1, <1>3
  <2>2. CASE n \notin Stops
    <3>1. n # limit
      BY <2>2, <1>2
    <3>2. n + 1 \in 0..limit
      BY <3>1
    <3>3. Stop(n, f[n]) /\ Stop(n + 1, f[n + 1])
      BY <3>2, <1>4
    <3>4. f[n] \in 0..limit /\ f[n + 1] \in 0..limit /\ f[n] # n /\ f[n] >= n /\ f[n + 1] >= n + 1
      BY <3>3, <1>2, <2>2
    <3>5. f[n] >= n + 1 /\ f[n + 1] >= n
      BY <3>4
    <3>6. f[n] <= f[n + 1] /\ f[n + 1] <= f[n]
      BY <3>3, <3>5
    <3>7. f[n] = f[n + 1]
      BY <3>4, <3>6
    <3> QED
      BY <3>7, <2>2, <1>3
  <2> QED
    BY <2>1, <2>2
<1>6. f = [n \in 0..limit |-> f[n]]
  <2>1. f = [n \in 0..limit |-> CHOOSE m : Stop(n, m)]
    BY DEF f
  <2> QED
    BY <2>1
<1>7. f = R(f)
  BY <1>5, <1>6
<1> HIDE DEF acc
<1>8. acc = R(acc)
  BY <1>7 DEF acc
<1>9. \A n \in 0..limit : acc[n] = IF n = limit \/ bytes[q + n] # bytes[p + n] THEN n ELSE acc[n + 1]
  BY <1>8
<1> DEFINE Q(n) == acc[n] \in n..limit /\ \A k \in n..limit : k < acc[n] => bytes[q + k] = bytes[p + k]
           Bad == {d \in 0..limit : ~Q(limit - d)}
<1>10. ASSUME Bad # {} PROVE FALSE
  <2>1. PICK d \in Bad : \A y \in Bad : d <= y
    <3>1. Bad \subseteq Nat
      OBVIOUS
    <3> HIDE DEF Bad
    <3> QED
      BY <1>10, <3>1, LeastFact
  <2>2. PICK n \in 0..limit : n = limit - d
    BY <2>1
  <2>3. ~Q(n)
    BY <2>1, <2>2
  <2>4. n # limit /\ bytes[q + n] = bytes[p + n] /\ acc[n] = acc[n + 1]
    <3>1. ASSUME n = limit \/ bytes[q + n] # bytes[p + n] PROVE FALSE
      <4>1. acc[n] = n
        BY <3>1, <1>9
      <4>2. acc[n] \in n..limit /\ \A k \in n..limit : ~(k < acc[n])
        BY <4>1
      <4> HIDE DEF acc
      <4> QED
        BY <4>2, <2>3
    <3> QED
      BY <3>1, <1>9
  <2>5. PICK i \in 0..limit : i = n + 1 /\ limit - i = d - 1 /\ d - 1 \in 0..limit
    BY <2>2, <2>4, <2>1
  <2>6. Q(i)
    <3>1. d - 1 \notin Bad
      <4>1. ~(d <= d - 1)
        BY <2>1
      <4> HIDE DEF Bad
      <4> QED
        BY <4>1, <2>1
    <3>2. limit - (d - 1) = i
      BY <2>5, <2>1
    <3> HIDE DEF Q
    <3> QED
      BY <3>1, <3>2, <2>5
  <2>7. acc[n] \in n..limit
    BY <2>4, <2>5, <2>6
  <2>8. ASSUME NEW k \in n..limit, k < acc[n] PROVE bytes[q + k] = bytes[p + k]
    <3>1. CASE k = n
      BY <3>1, <2>4
    <3>2. CASE k # n
      <4>1. k \in i..limit /\ k < acc[i]
        BY <3>2, <2>5, <2>8, <2>4
      <4> QED
        BY <4>1, <2>6
    <3> QED
      BY <3>1, <3>2
  <2> QED
    BY <2>3, <2>7, <2>8
<1>11. Q(0)
  <2>1. limit \in 0..limit /\ limit - limit = 0
    OBVIOUS
  <2> HIDE DEF Q
  <2> QED
    BY <1>10, <2>1
<1> QED
  BY <1>1, <1>11

LEMMA BestFact ==
    ASSUME NEW bytes \in Seq(0..Bytes - 1), NEW p \in 1..Len(bytes), base \in Nat,
           NEW chain, chain \subseteq 1..base + p - 1, find_best_match(bytes, p, chain).length >= 3
    PROVE  /\ find_best_match(bytes, p, chain) \in Tokens
           /\ find_best_match(bytes, p, chain).length \in Nat
           /\ <<p - 1, find_best_match(bytes, p, chain), p - 1 + find_best_match(bytes, p, chain).length>> \in Copies(bytes)
<1> DEFINE limit == IF MaxMatch < Len(bytes) - p + 1 THEN MaxMatch ELSE Len(bytes) - p + 1
           all   == {q \in chain : /\ q > base
                                   /\ base + p - q <= MaxOffset
                                   /\ Hash(Word(bytes, q - base)) = Hash(Word(bytes, p))}
           near  == {q \in all : Cardinality({s \in all : s > q}) < MaxChainDepth}
           Found(q) == MatchToken(base + p - q, common_prefix_len(bytes, q - base, p, limit))
           found == {Found(q) : q \in near}
           Better(b, m) == m.length < b.length \/ (m.length = b.length /\ m.offset >= b.offset)
           best  == CHOOSE b \in found : \A m \in found : Better(b, m)
<1>1. find_best_match(bytes, p, chain) = IF found = {} THEN MatchToken(0, 0) ELSE best
  BY DEF find_best_match
<1>2. limit \in Nat /\ limit <= MaxMatch /\ p - 1 + limit <= Len(bytes) /\ p \in Nat /\ MaxMatch \in Nat /\ MaxOffset \in Nat
  <2> HIDE DEF all, near, found, best
  <2>1. MaxMatch \in Nat
    BY LzxAssumption
  <2>2. MaxOffset \in Nat
    BY OffsetsFact
  <2>3. PICK n \in Nat : n = Len(bytes) /\ p \in 1..n
    OBVIOUS
  <2>4. limit = IF MaxMatch < n - p + 1 THEN MaxMatch ELSE n - p + 1
    BY <2>3
  <2> HIDE DEF limit
  <2>5. limit \in Nat /\ limit <= MaxMatch /\ p - 1 + limit <= n /\ p \in Nat
    BY <2>1, <2>3, <2>4
  <2> QED
    BY <2>1, <2>2, <2>3, <2>5
<1> HIDE DEF limit, MaxOffset
<1>3. ASSUME NEW q \in near
      PROVE  \E offset \in 1..MaxOffset : \E length \in 0..limit :
                /\ Found(q) = MatchToken(offset, length) /\ offset <= p - 1
                /\ \A k \in 1..length : bytes[p - 1 + k] = bytes[p - 1 + k - offset]
  <2>1. q \in 1..base + p - 1 /\ q > base /\ base + p - q <= MaxOffset
    OBVIOUS
  <2>2. PICK i \in Nat : i = q - base
    BY <2>1
  <2>3. PICK offset \in 1..MaxOffset : offset = base + p - q /\ offset <= p - 1 /\ i = p - offset
    BY <2>1, <2>2, <1>2
  <2>4. PICK length \in 0..limit : length = common_prefix_len(bytes, i, p, limit)
    BY <1>2, PrefixFact
  <2>5. \A k \in 0..limit : k < length => bytes[i + k] = bytes[p + k]
    BY <1>2, <2>4, PrefixFact
  <2>6. ASSUME NEW k \in 1..length PROVE bytes[p - 1 + k] = bytes[p - 1 + k - offset]
    <3>1. PICK j \in 0..limit : j = k - 1 /\ j < length
      BY <1>2
    <3>2. bytes[i + j] = bytes[p + j]
      BY <2>5, <3>1
    <3>3. p - 1 + k = p + j /\ p - 1 + k - offset = i + j
      BY <1>2, <2>3, <3>1
    <3> QED
      BY <3>2, <3>3
  <2>7. Found(q) = MatchToken(offset, length)
    BY <2>2, <2>3, <2>4
  <2> QED
    BY <2>3, <2>6, <2>7
<1> HIDE DEF near, Found
<1>4. CASE found = {}
  <2>1. find_best_match(bytes, p, chain).length = 0
    BY <1>1, <1>4 DEF MatchToken
  <2> QED
    BY <2>1
<1>5. CASE found # {}
  <2>0. \A m \in found : m.length \in 0..limit /\ m.offset \in Nat
    <3> TAKE m \in found
    <3>1. PICK q \in near : m = Found(q)
      OBVIOUS
    <3>2. PICK offset \in 1..MaxOffset : \E length \in 0..limit : m = MatchToken(offset, length)
      BY <1>3, <3>1
    <3>3. PICK length \in 0..limit : m = MatchToken(offset, length)
      BY <3>2
    <3>4. m.length = length /\ m.offset = offset
      BY <3>3 DEF MatchToken
    <3> QED
      BY <3>4
  <2> HIDE DEF found
  <2>1. \E b \in found : \A m \in found : Better(b, m)
    <3> DEFINE S == {m.length : m \in found}
    <3>1. S \subseteq 0..limit /\ S # {}
      BY <1>5, <2>0
    <3>2. PICK x \in S : \A y \in S : y <= x
      <4> HIDE DEF S
      <4> QED
        BY <3>1, <1>2, GreatestFact
    <3> DEFINE T == {m.offset : m \in {n \in found : n.length = x}}
    <3>3. T \subseteq Nat /\ T # {}
      BY <2>0, <3>2
    <3>4. PICK y \in T : \A z \in T : y <= z
      <4> HIDE DEF T
      <4> QED
        BY <3>3, LeastFact
    <3>5. PICK b \in found : b.length = x /\ b.offset = y
      BY <3>4
    <3>6. ASSUME NEW m \in found PROVE Better(b, m)
      <4>1. m.length \in 0..limit /\ x \in 0..limit /\ m.length <= x /\ m.offset \in Nat /\ y \in Nat
        BY <2>0, <3>2, <3>5
      <4>2. CASE m.length = x
        <5>1. m.offset \in T
          BY <4>2
        <5>2. y <= m.offset
          BY <3>4, <5>1
        <5> QED
          BY <5>2, <4>1, <4>2, <3>5
      <4>3. CASE m.length # x
        BY <4>1, <4>3, <1>2, <3>5
      <4> QED
        BY <4>2, <4>3
    <3> QED
      BY <3>6
  <2> HIDE DEF Better
  <2>2. best \in found
    BY <2>1
  <2> HIDE DEF best
  <2>3. find_best_match(bytes, p, chain) = best
    BY <1>1, <1>5
  <2>4. PICK q \in near : best = Found(q)
    BY <2>2 DEF found
  <2>5. PICK offset \in 1..MaxOffset : \E length \in 0..limit :
                /\ best = MatchToken(offset, length) /\ offset <= p - 1
                /\ \A k \in 1..length : bytes[p - 1 + k] = bytes[p - 1 + k - offset]
    BY <1>3, <2>4
  <2>6. PICK length \in 0..limit :
                /\ best = MatchToken(offset, length) /\ offset <= p - 1
                /\ \A k \in 1..length : bytes[p - 1 + k] = bytes[p - 1 + k - offset]
    BY <2>5
  <2>7. best.length = length
    BY <2>6 DEF MatchToken
  <2>8. length >= 3
    BY <2>3, <2>7
  <2>9. PICK a \in Nat : a = p - 1
    BY <1>2
  <2>10. length \in 2..MaxMatch /\ offset <= a /\ a + length <= Len(bytes)
    BY <1>2, <2>6, <2>8, <2>9
  <2>11. \A k \in 1..length : bytes[a + k] = bytes[a + k - offset]
    BY <2>6, <2>9
  <2>12. best \in Tokens /\ <<a, best, a + length>> \in Copies(bytes)
    <3>1. MatchToken(offset, length) \in Tokens /\ <<a, MatchToken(offset, length), a + length>> \in Copies(bytes)
      BY <2>10, <2>11, MatchCopies
    <3> QED
      BY <3>1, <2>6
  <2>13. length \in Nat
    BY <2>10
  <2> QED
    BY <2>3, <2>7, <2>9, <2>12, <2>13
<1> QED
  BY <1>4, <1>5

\* What the parse of bytes may be after k steps from place h on.
Parses(bytes, h, k) ==
    {x \in [next : Nat, chain : SUBSET Nat, tokens : Seq(Tokens)] :
        \E a \in Nat :
            /\ x.next = a + 1 /\ h <= a /\ a <= Len(bytes)
            /\ h + k <= a \/ a = Len(bytes)
            /\ x.chain \subseteq 1..base + a
            /\ Leads(Copies(bytes), h, x.tokens, a)}

LEMMA ParseMade ==
    ASSUME NEW bytes, NEW h, NEW k, NEW a \in Nat, NEW next, next = a + 1, NEW chain \in SUBSET Nat,
           NEW tokens \in Seq(Tokens), h <= a, a <= Len(bytes), h + k <= a \/ a = Len(bytes),
           chain \subseteq 1..base + a, Leads(Copies(bytes), h, tokens, a)
    PROVE  [next |-> next, chain |-> chain, tokens |-> tokens] \in Parses(bytes, h, k)
<1> DEFINE x == [next |-> next, chain |-> chain, tokens |-> tokens]
           T == Seq(Tokens)
<1>1. x.next = next /\ x.chain = chain /\ x.tokens = tokens
  OBVIOUS
<1>2. x \in [next : Nat, chain : SUBSET Nat, tokens : T]
  <2> HIDE DEF T
  <2> QED
    BY DEF T
<1> HIDE DEF x
<1>3. \E b \in Nat : /\ x.next = b + 1 /\ h <= b /\ b <= Len(bytes)
                     /\ h + k <= b \/ b = Len(bytes)
                     /\ x.chain \subseteq 1..base + b
                     /\ Leads(Copies(bytes), h, x.tokens, b)
  BY <1>1, Zenon
<1>4. x \in Parses(bytes, h, k)
  BY <1>2, <1>3, Zenon DEF Parses, T
<1> QED
  BY <1>4 DEF x

LEMMA ParsedStep ==
    ASSUME NEW bytes \in Seq(0..Bytes - 1), base \in Nat, NEW h \in Nat, NEW k \in Nat,
           NEW x \in Parses(bytes, h, k)
    PROVE  Parsed(bytes, x) \in Parses(bytes, h, k + 1)
<1> DEFINE p      == x.next
           hashed == p + 3 <= Len(bytes)
           best   == IF hashed THEN find_best_match(bytes, p, x.chain) ELSE MatchToken(0, 0)
           token  == IF best.length >= 3 THEN best ELSE LiteralToken(bytes[p])
           chain  == IF hashed THEN x.chain \cup {base + p} ELSE x.chain
           y      == [next |-> p + token.length, chain |-> chain, tokens |-> Append(x.tokens, token)]
<1>1. PICK len \in Nat : len = Len(bytes)
  OBVIOUS
<1>2. /\ x \in [next : Nat, chain : SUBSET Nat, tokens : Seq(Tokens)]
      /\ \E a \in Nat :
            /\ x.next = a + 1 /\ h <= a /\ a <= len
            /\ h + k <= a \/ a = len
            /\ x.chain \subseteq 1..base + a
            /\ Leads(Copies(bytes), h, x.tokens, a)
  BY <1>1 DEF Parses
<1>20. PICK a \in Nat :
            /\ p = a + 1 /\ h <= a /\ a <= len
            /\ h + k <= a \/ a = len
            /\ x.chain \subseteq 1..base + a
            /\ Leads(Copies(bytes), h, x.tokens, a)
  BY <1>2
<1>3. p \in Nat /\ x.chain \in SUBSET Nat /\ x.tokens \in Seq(Tokens) /\ x = [next |-> p, chain |-> x.chain, tokens |-> x.tokens]
  BY <1>2
<1>4. CASE p > len
  <2>1. Parsed(bytes, x) = x
    BY <1>1, <1>4 DEF Parsed
  <2>2. a = len
    BY <1>20, <1>4
  <2> DEFINE next == p
             chain0 == x.chain
             tokens == x.tokens
  <2>3. x = [next |-> next, chain |-> chain0, tokens |-> tokens]
        /\ next = a + 1 /\ chain0 \in SUBSET Nat /\ tokens \in Seq(Tokens) /\ h <= a /\ a <= Len(bytes)
        /\ a = Len(bytes) /\ chain0 \subseteq 1..base + a /\ Leads(Copies(bytes), h, tokens, a)
    BY <1>1, <1>20, <1>3, <2>2
  <2> HIDE DEF next, chain0, tokens
  <2>4. x \in Parses(bytes, h, k + 1)
    <3>1. [next |-> next, chain |-> chain0, tokens |-> tokens] \in Parses(bytes, h, k + 1)
      BY <2>3, ParseMade
    <3> QED
      BY <2>3, <3>1, Zenon
  <2> QED
    BY <2>1, <2>4
<1>5. CASE p <= len
  <2>1. Parsed(bytes, x) = y
    <3>1. ~(p > len)
      BY <1>3, <1>5
    <3> QED
      BY <1>1, <3>1, Zenon DEF Parsed
  <2>2. a = p - 1 /\ a + 1 = p /\ base + p - 1 = base + a
    BY <1>3, <1>20
  <2>3. token \in Tokens /\ token.length \in Nat \ {0} /\ <<a, token, a + token.length>> \in Copies(bytes)
    <3>1. CASE best.length >= 3
      <4>1. hashed
        <5>1. ASSUME ~hashed PROVE FALSE
          <6>1. best.length = 0
            BY <5>1 DEF MatchToken
          <6> QED
            BY <6>1, <3>1
        <5> QED
          BY <5>1
      <4>2. token = find_best_match(bytes, p, x.chain) /\ find_best_match(bytes, p, x.chain).length >= 3
        BY <3>1, <4>1
      <4>3. p \in 1..Len(bytes) /\ x.chain \subseteq 1..base + p - 1
        BY <1>1, <1>20, <1>3, <1>5, <2>2
      <4> HIDE DEF token, p, best
      <4>4. token \in Tokens /\ <<p - 1, token, p - 1 + token.length>> \in Copies(bytes)
        BY <4>2, <4>3, BestFact
      <4>5. token.length \in Nat \ {0}
        BY <4>4, TokenIs
      <4> QED
        BY <4>4, <4>5, <2>2
    <3>2. CASE ~(best.length >= 3)
      <4>1. token = LiteralToken(bytes[a + 1])
        BY <2>2, <3>2
      <4> HIDE DEF token
      <4>2. token.length = 1
        BY <4>1 DEF LiteralToken
      <4>3. a + 1 <= Len(bytes)
        BY <1>1, <1>5, <2>2
      <4>4. token \in Tokens /\ <<a, token, a + 1>> \in Copies(bytes)
        BY <4>1, <4>3, LiteralCopies
      <4> QED
        BY <4>2, <4>4
    <3> HIDE DEF token, best
    <3> QED
      BY <3>1, <3>2
  <2> HIDE DEF token
  <2>4. PICK l \in Nat \ {0} : l = token.length
    BY <2>3
  <2>5. a + l <= len
    BY <1>1, <2>3, <2>4, CopyIs
  <2>6. p + l - 1 = a + l /\ p + l \in Nat /\ a + l \in Nat
    <3>1. p = a + 1
      BY <2>2
    <3> HIDE DEF p, y, chain, best, hashed
    <3> QED
      BY <3>1
  <2>7. Append(x.tokens, token) \in Seq(Tokens) /\ Leads(Copies(bytes), h, Append(x.tokens, token), a + l)
    <3> DEFINE G == Copies(bytes)
               s == x.tokens
    <3>1. s \in Seq(Tokens) /\ Leads(G, h, s, a) /\ <<a, token, a + l>> \in G
      BY <1>20, <1>3, <2>2, <2>3, <2>4
    <3> HIDE DEF G, s
    <3>2. Append(s, token) \in Seq(Tokens)
      BY <3>1, <2>3
    <3>3. Leads(G, h, Append(s, token), a + l)
      BY <3>1, <2>3, <2>6, LeadsAppend
    <3> QED
      BY <3>2, <3>3 DEF G, s
  <2>8. chain \in SUBSET Nat /\ chain \subseteq 1..base + (a + l)
    <3>0. base + p \in 1..base + (a + l) /\ \A i \in 1..base + a : i \in 1..base + (a + l)
      BY <1>20
    <3>1. x.chain \subseteq 1..base + a
      BY <1>20
    <3>2. chain \subseteq 1..base + (a + l)
      BY <3>0, <3>1, Zenon
    <3>3. \A i \in 1..base + (a + l) : i \in Nat
      OBVIOUS
    <3> QED
      BY <3>2, <3>3, Zenon
  <2>9. h <= a + l /\ h + (k + 1) <= a + l
    <3>1. h + k <= a
      BY <1>20, <1>5
    <3> QED
      BY <3>1
  <2> HIDE DEF chain
  <2> DEFINE next == p + l
             tokens == Append(x.tokens, token)
  <2>10. y = [next |-> next, chain |-> chain, tokens |-> tokens]
    BY <2>4
  <2>11. PICK b \in Nat : b = a + l /\ next = b + 1 /\ h <= b /\ b <= Len(bytes) /\ h + (k + 1) <= b
    BY <1>1, <2>5, <2>6, <2>9, <1>20
  <2>12. tokens \in Seq(Tokens) /\ Leads(Copies(bytes), h, tokens, b) /\ chain \subseteq 1..base + b /\ chain \in SUBSET Nat
    BY <2>7, <2>8, <2>11
  <2> HIDE DEF next, tokens, y
  <2>13. [next |-> next, chain |-> chain, tokens |-> tokens] \in Parses(bytes, h, k + 1)
    BY <2>11, <2>12, ParseMade
  <2> QED
    BY <2>1, <2>10, <2>13, Zenon
<1> QED
  BY <1>3, <1>4, <1>5

\* The parse of a chunk covers it.
LEMMA ProcessedFact ==
    ASSUME NEW input \in Seq(0..Bytes - 1), history \in Seq(0..Bytes - 1), base \in Nat,
           inserted \subseteq 1..base + Len(history)
    PROVE  /\ Processed(input).tokens \in Seq(Tokens)
           /\ Leads(Copies(history \o input), Len(history), Processed(input).tokens, Len(history \o input))
           /\ Processed(input).chain \subseteq 1..base + Len(history \o input)
<1> DEFINE bytes == history \o input
           h == Len(history)
           m == Len(input)
           start == [next |-> h + 1, chain |-> inserted, tokens |-> <<>>]
           R(g) == [k \in 0..m |-> IF k = 0 THEN start ELSE Parsed(bytes, g[k - 1])]
           acc == CHOOSE g : g = R(g)
<1>1. h \in Nat /\ m \in Nat /\ bytes \in Seq(0..Bytes - 1) /\ Len(bytes) = h + m
  <2> DEFINE Y == 0..Bytes - 1
  <2>1. history \in Seq(Y) /\ input \in Seq(Y)
    OBVIOUS
  <2> HIDE DEF Y
  <2>2. bytes \in Seq(Y) /\ Len(bytes) = h + m /\ h \in Nat /\ m \in Nat
    BY <2>1, ConcatFacts
  <2> QED
    BY <2>2 DEF Y
<1>2. Processed(input) = acc[m]
  BY DEF Processed, Folded
<1> HIDE DEF bytes
<1> DEFINE X == UNION {Parses(bytes, h, k) : k \in 0..m}
           S == [k \in 0..m |-> Parses(bytes, h, k)]
           F == [t \in (1..m) \X X |-> Parsed(bytes, t[2])]
<1>3. \A k \in 0..m : S[k] = Parses(bytes, h, k)
  OBVIOUS
<1>4. \A k \in 1..m : \A x \in S[k - 1] : F[<<k, x>>] = Parsed(bytes, x)
  <2> TAKE k \in 1..m
  <2> TAKE x \in S[k - 1]
  <2>1. k - 1 \in 0..m
    BY <1>1
  <2>2. x \in X
    BY <2>1, <1>3
  <2> QED
    BY <2>2
<1>5. start \in S[0]
  <2>1. PICK a \in Nat : a = h
    BY <1>1
  <2>2. inserted \in SUBSET Nat
    <3>1. \A i \in 1..base + h : i \in Nat
      BY <1>1
    <3> QED
      BY <3>1, Zenon
  <2>3. h <= a /\ a <= Len(bytes) /\ h + 0 <= a /\ inserted \subseteq 1..base + a
    BY <1>1, <2>1
  <2>4. Leads(Copies(bytes), h, <<>>, a) /\ <<>> \in Seq(Tokens)
    BY <2>1, LeadsNone
  <2> DEFINE next == h + 1
             none == <<>>
  <2>5. next = a + 1 /\ Leads(Copies(bytes), h, none, a) /\ none \in Seq(Tokens)
        /\ start = [next |-> next, chain |-> inserted, tokens |-> none]
    BY <2>1, <2>4
  <2> HIDE DEF next, none, start, h
  <2>6. [next |-> next, chain |-> inserted, tokens |-> none] \in Parses(bytes, h, 0)
    BY <2>2, <2>3, <2>5, ParseMade
  <2>7. 0 \in 0..m
    BY <1>1
  <2> QED
    BY <2>5, <2>6, <2>7, <1>3
<1> HIDE DEF S, F, X, start, acc
<1>6. ASSUME NEW k \in 1..m, NEW x \in S[k - 1] PROVE Parsed(bytes, x) \in S[k]
  <2>1. PICK j \in 0..m : j = k - 1 /\ j \in Nat /\ j + 1 = k /\ k \in 0..m
    BY <1>1
  <2>2. x \in Parses(bytes, h, j)
    BY <2>1, <1>3
  <2>3. Parsed(bytes, x) \in Parses(bytes, h, j + 1)
    BY <1>1, <2>1, <2>2, ParsedStep
  <2> QED
    BY <2>1, <2>3, <1>3
<1>7. Ascends(S, m, F)
  BY <1>4, <1>6 DEF Ascends
<1>8. ASSUME NEW f, Climbs(f, S, start, m, F) PROVE Follows(acc, S, start, m, F)
  <2>1. /\ f = [k \in 0..m |-> f[k]] /\ f[0] = start
        /\ \A k \in 1..m : f[k - 1] \in S[k - 1] /\ f[k] = F[<<k, f[k - 1]>>]
        /\ \A k \in 0..m : k = 0 \/ k \in 1..m
    BY <1>1, <1>8, ClimbIs
  <2>2. \A k \in 0..m : f[k] = IF k = 0 THEN start ELSE Parsed(bytes, f[k - 1])
    BY <2>1, <1>4
  <2>3. R(f) = [k \in 0..m |-> f[k]]
    BY <2>2
  <2>4. acc = R(acc)
    BY <2>1, <2>3 DEF acc
  <2>5. acc[0] = start /\ \A k \in 1..m : acc[k] = Parsed(bytes, acc[k - 1])
    <3>1. 0 \in 0..m /\ \A k \in 1..m : k \in 0..m /\ k # 0
      BY <1>1
    <3> QED
      BY <2>4, <3>1
  <2> QED
    BY <2>5, <1>4 DEF Follows
<1>9. acc[m] \in Parses(bytes, h, m)
  <2>1. m \in Nat /\ m \in 0..m
    BY <1>1
  <2>2. acc[m] \in S[m]
    BY <2>1, <1>5, <1>7, <1>8, FoldFact
  <2> QED
    BY <2>1, <2>2, <1>3
<1> DEFINE x == acc[m]
<1>10. /\ x.tokens \in Seq(Tokens)
       /\ \E a \in Nat :
            /\ a <= Len(bytes)
            /\ h + m <= a \/ a = Len(bytes)
            /\ x.chain \subseteq 1..base + a
            /\ Leads(Copies(bytes), h, x.tokens, a)
  BY <1>9 DEF Parses
<1> HIDE DEF x
<1>11. PICK a \in Nat :
            /\ a <= Len(bytes)
            /\ h + m <= a \/ a = Len(bytes)
            /\ x.chain \subseteq 1..base + a
            /\ Leads(Copies(bytes), h, x.tokens, a)
  BY <1>10
<1>12. a = Len(bytes)
  BY <1>1, <1>11
<1> QED
  BY <1>2, <1>10, <1>11, <1>12 DEF x, bytes

\* What copies in bytes copies when there are bytes before.
LEMMA ShiftOne ==
    ASSUME NEW pre \in Seq(0..Bytes - 1), NEW bytes \in Seq(0..Bytes - 1),
           NEW a, NEW t, NEW b, <<a, t, b>> \in Copies(bytes)
    PROVE  \A n \in Nat : n = Len(pre) => <<n + a, t, n + b>> \in Copies(pre \o bytes)
<1> DEFINE all == pre \o bytes
           Y == 0..Bytes - 1
<1>0. SUFFICES ASSUME NEW n \in Nat, n = Len(pre)
               PROVE  <<n + a, t, n + b>> \in Copies(pre \o bytes)
  OBVIOUS
<1>1. /\ a \in Nat /\ t \in Tokens /\ b \in Nat
      /\ b = a + t.length /\ b <= Len(bytes)
      /\ t.offset = 0 => bytes[a + 1] = t.byte
      /\ t.offset > 0 =>
            /\ t.offset <= a
            /\ \A k \in 1..t.length : bytes[a + k] = bytes[a + k - t.offset]
  BY CopyIs
<1>2. PICK l \in Nat \ {0} : l = t.length /\ (t.offset = 0 => l = 1)
  BY <1>1, TokenIs
<1>3. PICK o \in Nat : o = t.offset
  BY <1>1, TokenIs
<1>4. pre \in Seq(Y) /\ bytes \in Seq(Y)
  OBVIOUS
<1> HIDE DEF Y
<1>5. Len(all) = n + Len(bytes) /\ \A j \in 1..Len(bytes) : all[n + j] = bytes[j]
  BY <1>0, <1>4, ConcatFacts
<1> HIDE DEF all
<1>6. PICK m \in Nat : m = Len(bytes)
  BY <1>4
<1>7. a + l = b /\ b <= m
  <2>1. b = a + l
    BY <1>1, <1>2, Zenon
  <2>2. b <= m
    BY <1>1, <1>6, Zenon
  <2> QED
    BY <2>1, <2>2
<1>8. n + a \in Nat /\ n + b \in Nat /\ n + b = n + a + l /\ n + b <= Len(all)
  <2>1. a \in Nat /\ b \in Nat
    BY <1>1
  <2>2. n + a \in Nat /\ n + b \in Nat /\ n + b = n + a + l /\ n + b <= n + m
    BY <2>1, <1>7
  <2> QED
    BY <2>2, <1>5, <1>6
<1>9. ASSUME NEW k \in 1..l PROVE all[n + a + k] = bytes[a + k]
  <2>1. PICK j \in 1..m : j = a + k
    BY <1>1, <1>7
  <2>2. n + a + k = n + j
    BY <2>1, <1>1
  <2> QED
    BY <2>1, <2>2, <1>5, <1>6
<1>10. ASSUME t.offset = 0 PROVE all[n + a + 1] = t.byte
  <2>1. 1 \in 1..l
    OBVIOUS
  <2> QED
    BY <2>1, <1>1, <1>9, <1>10
<1>11. ASSUME t.offset > 0
       PROVE  t.offset <= n + a /\ \A k \in 1..t.length : all[n + a + k] = all[n + a + k - t.offset]
  <2>1. o <= a /\ \A k \in 1..l : bytes[a + k] = bytes[a + k - o]
    BY <1>1, <1>2, <1>3, <1>11
  <2>2. o <= n + a
    BY <2>1, <1>1
  <2>3. ASSUME NEW k \in 1..l PROVE all[n + a + k] = all[n + a + k - o]
    <3>1. PICK j \in 1..m : j = a + k - o
      BY <2>1, <1>1, <1>7
    <3>2. n + a + k - o = n + j
      BY <3>1, <1>1
    <3>3. all[n + j] = bytes[j]
      BY <1>5, <1>6
    <3>4. bytes[a + k] = bytes[j]
      BY <2>1, <3>1
    <3>5. all[n + a + k] = bytes[a + k]
      BY <1>9
    <3> QED
      BY <3>2, <3>3, <3>4, <3>5
  <2> QED
    BY <2>2, <2>3, <1>2, <1>3
<1>12. <<n + a, t, n + b>> \in Copies(all)
  <2>1. n + b = n + a + t.length
    BY <1>2, <1>8
  <2> QED
    BY <1>1, <1>8, <1>10, <1>11, <2>1, CopyIs
<1> QED
  BY <1>12 DEF all

LEMMA ShiftFact ==
    ASSUME NEW pre \in Seq(0..Bytes - 1), NEW bytes \in Seq(0..Bytes - 1), NEW n \in Nat, n = Len(pre),
           NEW s \in Seq(Tokens), NEW a, NEW b, Leads(Copies(bytes), a, s, b)
    PROVE  Leads(Copies(pre \o bytes), n + a, s, n + b)
<1> DEFINE G == Copies(bytes)
           H == Copies(pre \o bytes)
           m == Len(s)
<1>1. PICK at : Meets(at, G, a, s, b)
  BY DEF Leads
<1> DEFINE up == [k \in 0..m |-> n + at[k]]
<1>2. /\ at \in [0..m -> Nat] /\ at[0] = a /\ at[m] = b
      /\ \A k \in 1..m : <<at[k - 1], s[k], at[k]>> \in G
  BY <1>1 DEF Meets
<1>3. m \in Nat /\ 0 \in 0..m /\ m \in 0..m /\ \A k \in 1..m : k - 1 \in 0..m /\ k \in 0..m
  OBVIOUS
<1> HIDE DEF m
<1>4. up \in [0..m -> Nat] /\ \A k \in 0..m : up[k] = n + at[k]
  BY <1>2
<1> HIDE DEF up, G, H
<1>5. ASSUME NEW k \in 1..m PROVE <<up[k - 1], s[k], up[k]>> \in H
  <2>1. <<at[k - 1], s[k], at[k]>> \in G
    BY <1>2
  <2>2. <<n + at[k - 1], s[k], n + at[k]>> \in H
    BY <2>1, ShiftOne DEF G, H
  <2> QED
    BY <1>3, <1>4, <2>2
<1>6. up[0] = n + a /\ up[m] = n + b
  BY <1>2, <1>3, <1>4
<1>7. Meets(up, H, n + a, s, n + b)
  BY <1>4, <1>5, <1>6 DEF Meets, m
<1> QED
  BY <1>7 DEF Leads, H

\* Literals lead over the bytes they are.
LEMMA LiteralsFact ==
    ASSUME NEW pre \in Seq(0..Bytes - 1), NEW input \in Seq(0..Bytes - 1)
    PROVE  /\ AsLiterals(input) \in Seq(Tokens)
           /\ Leads(Copies(pre \o input), Len(pre), AsLiterals(input), Len(pre \o input))
<1> DEFINE all == pre \o input
           Y == 0..Bytes - 1
           s == AsLiterals(input)
<1>1. pre \in Seq(Y) /\ input \in Seq(Y)
  OBVIOUS
<1> HIDE DEF Y
<1>2. all \in Seq(Y) /\ Len(all) = Len(pre) + Len(input) /\ \A j \in 1..Len(input) : all[Len(pre) + j] = input[j]
  BY <1>1, ConcatFacts
<1>3. PICK n \in Nat : n = Len(pre)
  BY <1>1
<1>4. PICK m \in Nat : m = Len(input) /\ DOMAIN input = 1..m
  BY <1>1
<1> HIDE DEF all
<1> DEFINE at == [k \in 0..m |-> n + k]
           G == Copies(all)
<1>5. at \in [0..m -> Nat] /\ at[0] = n /\ at[m] = n + m
  OBVIOUS
<1>6. s = [k \in 1..m |-> s[k]] /\ \A k \in 1..m : s[k] = LiteralToken(input[k])
  BY <1>4 DEF AsLiterals
<1> HIDE DEF s
<1>7. ASSUME NEW k \in 1..m PROVE s[k] \in Tokens /\ <<at[k - 1], s[k], at[k]>> \in G
  <2>1. PICK a \in Nat : a = n + k - 1
    OBVIOUS
  <2>2. a + 1 = n + k /\ a + 1 <= Len(all) /\ at[k - 1] = a /\ at[k] = a + 1
    BY <2>1, <1>2, <1>3, <1>4
  <2>3. LiteralToken(all[a + 1]) \in Tokens /\ <<a, LiteralToken(all[a + 1]), a + 1>> \in Copies(all)
    BY <1>2, <2>2, LiteralCopies DEF Y
  <2>4. s[k] = LiteralToken(all[a + 1])
    BY <1>2, <1>3, <1>4, <1>6, <2>2
  <2> HIDE DEF at
  <2> QED
    BY <2>2, <2>3, <2>4
<1> HIDE DEF at, G
<1>8. s \in Seq(Tokens) /\ Leads(G, at[0], s, at[m])
  BY <1>5, <1>6, <1>7, LeadsBy
<1> QED
  BY <1>2, <1>3, <1>4, <1>5, <1>8 DEF s, G, all

-----------------------------------------------------------------------------
(* Matches in pieces. *)

Lengths(n) == {w \in Nat \X (2..8) \X Nat : w[3] = w[1] + w[2] /\ w[3] <= n}

LEMMA LengthIs ==
    ASSUME NEW n \in Nat, NEW a \in Nat, NEW x \in 2..8, a + x <= n
    PROVE  <<a, x, a + x>> \in Lengths(n) /\ a + x \in Nat
<1> DEFINE w == <<a, x, a + x>>
<1>1. w \in Nat \X (2..8) \X Nat /\ w[1] = a /\ w[2] = x /\ w[3] = a + x
  OBVIOUS
<1> HIDE DEF w
<1>2. w \in Lengths(n)
  BY <1>1 DEF Lengths
<1> QED
  BY <1>2 DEF w

LEMMA EightsLead ==
    ASSUME NEW n \in Nat, NEW q \in Nat, 8 * q <= n
    PROVE  /\ [k \in 1..q |-> 8] \in Seq(2..8) /\ Len([k \in 1..q |-> 8]) = q
           /\ Leads(Lengths(n), 0, [k \in 1..q |-> 8], 8 * q)
<1> DEFINE s == [k \in 1..q |-> 8]
           at == [k \in 0..q |-> 8 * k]
           X == 2..8
           G == Lengths(n)
<1>1. at \in [0..q -> Nat] /\ at[0] = 0 /\ at[q] = 8 * q
  OBVIOUS
<1>2. ASSUME NEW k \in 1..q PROVE s[k] \in X /\ <<at[k - 1], s[k], at[k]>> \in G
  <2>1. PICK a \in Nat : a = 8 * (k - 1)
    OBVIOUS
  <2>2. at[k - 1] = a /\ at[k] = a + 8
    BY <2>1
  <2>3. <<a, 8, a + 8>> \in G
    <3>1. PICK x \in 2..8 : x = 8
      OBVIOUS
    <3>2. a + x <= n
      BY <2>1, <3>1
    <3> HIDE DEF G
    <3>3. <<a, x, a + x>> \in G
      BY <3>2, LengthIs DEF G
    <3> QED
      BY <3>1, <3>3
  <2>4. s[k] = 8 /\ 8 \in X
    OBVIOUS
  <2> HIDE DEF s, at, X, G
  <2> QED
    BY <2>2, <2>3, <2>4
<1>3. s = [k \in 1..q |-> s[k]] /\ s \in [1..q -> X] /\ Len(s) = q
  OBVIOUS
<1> HIDE DEF s, at, X, G
<1>4. s \in Seq(X) /\ Leads(G, at[0], s, at[q])
  BY <1>1, <1>2, <1>3, LeadsBy
<1> QED
  BY <1>1, <1>3, <1>4 DEF s, X, G

LEMMA PairSame ==
    ASSUME NEW X, NEW x \in X, NEW y \in X
    PROVE  <<x>> \o <<y>> = <<x, y>>
<1> DEFINE s == <<x>>
           t == <<y>>
           u == s \o t
           v == <<x, y>>
<1>1. s \in Seq(X) /\ t \in Seq(X) /\ Len(s) = 1 /\ Len(t) = 1 /\ s[1] = x /\ t[1] = y
  OBVIOUS
<1>2. v \in Seq(X) /\ Len(v) = 2 /\ v[1] = x /\ v[2] = y
  OBVIOUS
<1> HIDE DEF s, t
<1>3. u \in Seq(X) /\ Len(u) = 2 /\ u[1] = s[1] /\ u[1 + 1] = t[1]
  BY <1>1, ConcatFacts
<1> HIDE DEF u, v
<1>4. \A k \in 1..Len(u) : u[k] = v[k]
  <2>1. \A k \in 1..2 : k = 1 \/ k = 2
    OBVIOUS
  <2>2. u[1] = v[1] /\ u[2] = v[2]
    BY <1>1, <1>2, <1>3
  <2> QED
    BY <2>1, <2>2, <1>3
<1>5. u = v
  BY <1>2, <1>3, <1>4, SeqSame
<1> QED
  BY <1>5 DEF u, v, s, t

LEMMA SplitFact ==
    ASSUME NEW n \in Nat, n >= 9
    PROVE  split_length(n) \in Seq(2..8) /\ Leads(Lengths(n), 0, split_length(n), n)
<1> DEFINE eights == [k \in 1..n \div 8 |-> 8]
           X == 2..8
<1>1. PICK q \in Nat : q = n \div 8 /\ q >= 1
  OBVIOUS
<1>2. PICK rest \in 0..7 : rest = n % 8 /\ n = 8 * q + rest
  BY <1>1
<1>3. eights \in Seq(X) /\ Len(eights) = q /\ Leads(Lengths(n), 0, eights, 8 * q)
  <2>1. 8 * q <= n
    BY <1>2
  <2> HIDE DEF eights, X
  <2> QED
    BY <1>1, <2>1, EightsLead DEF eights, X
<1>4. CASE rest = 0
  <2>0. n % 8 = 0 /\ n = 8 * q
    BY <1>2, <1>4
  <2>1. split_length(n) = eights
    BY <2>0 DEF split_length
  <2> HIDE DEF eights, X
  <2> QED
    BY <2>0, <2>1, <1>3 DEF X
<1>5. CASE rest = 1
  <2>0. n % 8 # 0 /\ n % 8 = 1 /\ n = 8 * q + 1
    BY <1>2, <1>5
  <2> DEFINE front == [k \in 1..q - 1 |-> 8]
  <2>1. split_length(n) = front \o <<7, 2>>
    <3>1. split_length(n) = Front(eights) \o <<7, 2>>
      BY <2>0, Zenon DEF split_length
    <3>2. Front(eights) = SubSeq(eights, 1, q - 1)
      BY <1>3, Zenon DEF Front
    <3>3. eights = [k \in 1..q |-> 8]
      BY <1>1
    <3>4. SubSeq(eights, 1, q - 1) = front
      <4>1. /\ SubSeq(eights, 1, q - 1) \in Seq(X) /\ Len(SubSeq(eights, 1, q - 1)) = q - 1
            /\ \A k \in 1..q - 1 : SubSeq(eights, 1, q - 1)[k] = eights[k]
        <5>1. q - 1 \in Nat /\ q - 1 <= Len(eights)
          BY <1>1, <1>3
        <5> HIDE DEF eights, X
        <5> QED
          BY <1>3, <5>1
      <4>2. \A k \in 1..q - 1 : eights[k] = 8 /\ front[k] = 8
        BY <3>3, <1>1
      <4>3. front \in Seq(X) /\ Len(front) = q - 1
        <5>1. q - 1 \in Nat /\ 8 * (q - 1) <= n
          BY <1>1, <1>2
        <5> QED
          BY <5>1, EightsLead
      <4> HIDE DEF eights, X, front
      <4> QED
        BY <4>1, <4>2, <4>3, SeqSame
    <3> QED
      BY <3>1, <3>2, <3>4
  <2>2. PICK p \in Nat : p = q - 1 /\ 8 * p + 9 = n
    BY <1>1, <2>0
  <2>3. front \in Seq(X) /\ Leads(Lengths(n), 0, front, 8 * p)
    <3>1. 8 * p <= n
      BY <2>2
    <3> QED
      BY <2>2, <3>1, EightsLead
  <2> HIDE DEF front
  <2>4. PICK a \in Nat : a = 8 * p
    BY <2>2
  <2>5. PICK x \in X : x = 7
    OBVIOUS
  <2>6. PICK y \in X : y = 2
    OBVIOUS
  <2>7. a + x \in Nat /\ a + x + y \in Nat /\ a + x + y = n
    BY <2>2, <2>4, <2>5, <2>6
  <2>8. <<a, x, a + x>> \in Lengths(n) /\ <<a + x, y, a + x + y>> \in Lengths(n)
    <3>1. PICK b \in Nat : b = a + x /\ b <= n /\ b + y <= n
      BY <2>5, <2>6, <2>7
    <3>2. <<a, x, a + x>> \in Lengths(n) /\ <<b, y, b + y>> \in Lengths(n)
      BY <3>1, LengthIs DEF X
    <3> QED
      BY <3>1, <3>2
  <2> HIDE DEF X
  <2>9. Leads(Lengths(n), a, <<x>>, a + x) /\ Leads(Lengths(n), a + x, <<y>>, a + x + y)
    <3>1. PICK b \in Nat : b = a + x
      BY <2>7
    <3>2. PICK c \in Nat : c = a + x + y
      BY <2>7
    <3>3. Leads(Lengths(n), a, <<x>>, b) /\ Leads(Lengths(n), b, <<y>>, c)
      BY <2>8, <3>1, <3>2, LeadsOne
    <3> QED
      BY <3>1, <3>2, <3>3
  <2>10. <<x>> \in Seq(X) /\ <<y>> \in Seq(X) /\ <<x>> \o <<y>> = <<7, 2>>
    <3>1. <<x>> \in Seq(X) /\ <<y>> \in Seq(X)
      OBVIOUS
    <3>2. <<x>> \o <<y>> = <<x, y>>
      BY PairSame
    <3> QED
      BY <2>5, <2>6, <3>1, <3>2, Zenon
  <2>11. <<x>> \o <<y>> \in Seq(X) /\ Leads(Lengths(n), a, <<x>> \o <<y>>, a + x + y)
    <3>1. <<x>> \o <<y>> \in Seq(X)
      BY <2>10, ConcatFacts
    <3> QED
      BY <2>9, <2>10, <3>1, LeadsOn
  <2>12. front \o <<7, 2>> \in Seq(X) /\ Leads(Lengths(n), 0, front \o <<7, 2>>, n)
    <3> DEFINE t == <<x>> \o <<y>>
    <3>1. t \in Seq(X) /\ Leads(Lengths(n), a, t, n) /\ Leads(Lengths(n), 0, front, a)
      BY <2>3, <2>4, <2>7, <2>11
    <3> HIDE DEF t
    <3>2. front \o t \in Seq(X) /\ Leads(Lengths(n), 0, front \o t, n)
      BY <3>1, <2>3, LeadsOn, ConcatFacts
    <3> QED
      BY <3>2, <2>10 DEF t
  <2> QED
    BY <2>1, <2>12 DEF X
<1>6. CASE rest \in 2..7
  <2>0. n % 8 # 0 /\ n % 8 # 1 /\ n % 8 = rest
    BY <1>2, <1>6
  <2>1. split_length(n) = Append(eights, rest)
    BY <2>0, Zenon DEF split_length
  <2>2. PICK a \in Nat : a = 8 * q /\ a + rest = n
    BY <1>2
  <2>3. rest \in X /\ rest \in 2..8
    BY <1>6
  <2>4. <<a, rest, a + rest>> \in Lengths(n)
    <3>1. a + rest <= n
      BY <2>2
    <3> QED
      BY <2>3, <3>1, LengthIs
  <2> HIDE DEF eights, X
  <2>5. Append(eights, rest) \in Seq(X) /\ Leads(Lengths(n), 0, Append(eights, rest), n)
    <3>1. Append(eights, rest) \in Seq(X)
      BY <1>3, <2>3, AppendFacts
    <3>2. <<a, rest, n>> \in Lengths(n) /\ Leads(Lengths(n), 0, eights, a)
      BY <2>2, <2>4, <1>3
    <3> QED
      BY <3>1, <3>2, <1>3, <2>3, LeadsAppend
  <2> QED
    BY <2>1, <2>5 DEF X
<1>7. rest = 0 \/ rest = 1 \/ rest \in 2..7
  OBVIOUS
<1> QED
  BY <1>4, <1>5, <1>6, <1>7, Zenon

\* A piece of a match is a match.
LEMMA PieceCopies ==
    ASSUME NEW all \in Seq(0..Bytes - 1), NEW a, NEW t, NEW b, <<a, t, b>> \in Copies(all), t.offset > 0
    PROVE  \A d \in Nat, x \in 2..8 : d + x <= t.length =>
                /\ MatchToken(t.offset, x) \in Tokens
                /\ <<a + d, MatchToken(t.offset, x), a + d + x>> \in Copies(all)
<1>0. SUFFICES ASSUME NEW d \in Nat, NEW x \in 2..8, d + x <= t.length
               PROVE  /\ MatchToken(t.offset, x) \in Tokens
                      /\ <<a + d, MatchToken(t.offset, x), a + d + x>> \in Copies(all)
  OBVIOUS
<1>1. /\ a \in Nat /\ t \in Tokens /\ b \in Nat /\ b = a + t.length /\ b <= Len(all)
      /\ t.offset <= a /\ \A k \in 1..t.length : all[a + k] = all[a + k - t.offset]
  BY CopyIs
<1>2. PICK offset \in 1..MaxOffset : offset = t.offset
  <2>1. MaxOffset \in Nat
    BY OffsetsFact
  <2> HIDE DEF MaxOffset
  <2>2. t.offset \in Nat /\ t.offset <= MaxOffset /\ t.offset > 0
    BY <1>1, TokenIs
  <2> QED
    BY <2>1, <2>2
<1>3. PICK l \in Nat : l = t.length /\ d + x <= l
  BY <1>0, <1>1, TokenIs
<1>4. PICK c \in Nat : c = a + d
  BY <1>1
<1>5. x \in 2..MaxMatch
  <2>1. MaxMatch \in Nat /\ MaxMatch > 9
    BY LzxAssumption
  <2> QED
    BY <2>1
<1>6. offset \in Nat
  BY OffsetsFact
<1>7. PICK m \in Nat : m = Len(all)
  OBVIOUS
<1>8. a + l <= m /\ offset <= a
  <2>1. b = a + l /\ b <= m /\ offset <= a
    BY <1>1, <1>2, <1>3, <1>7, Zenon
  <2> QED
    BY <2>1
<1>9. offset <= c /\ c + x <= m
  BY <1>1, <1>3, <1>4, <1>6, <1>8
<1>10. ASSUME NEW k \in 1..x PROVE all[c + k] = all[c + k - offset]
  <2>1. PICK j \in 1..l : j = d + k
    BY <1>3
  <2>2. c + k = a + j /\ c + k - offset = a + j - offset
    BY <2>1, <1>1, <1>4, <1>6
  <2>3. all[a + j] = all[a + j - offset]
    BY <1>1, <1>2, <1>3
  <2> QED
    BY <2>2, <2>3
<1>11. MatchToken(offset, x) \in Tokens /\ <<c, MatchToken(offset, x), c + x>> \in Copies(all)
  <2>1. c + x <= Len(all)
    BY <1>7, <1>9
  <2> HIDE DEF MaxOffset
  <2> QED
    BY <1>5, <1>9, <1>10, <2>1, MatchCopies
<1> QED
  BY <1>2, <1>4, <1>11, Zenon

Pieces(t) == [k \in DOMAIN split_length(t.length) |-> MatchToken(t.offset, split_length(t.length)[k])]

LEMMA PiecesLead ==
    ASSUME NEW all \in Seq(0..Bytes - 1), NEW a, NEW t, NEW b, <<a, t, b>> \in Copies(all), t.length >= 9
    PROVE  Pieces(t) \in Seq(Tokens) /\ Leads(Copies(all), a, Pieces(t), b)
<1> DEFINE n == t.length
           parts == split_length(n)
           s == Pieces(t)
           G == Copies(all)
<1>1. a \in Nat /\ t \in Tokens /\ b = a + n /\ n \in Nat /\ n >= 9
  BY CopyIs, TokenIs
<1>2. t.offset > 0
  BY <1>1, TokenIs
<1>3. parts \in Seq(2..8) /\ Leads(Lengths(n), 0, parts, n)
  <2> HIDE DEF n
  <2> QED
    BY <1>1, SplitFact
<1> HIDE DEF parts
<1>4. PICK m \in Nat : m = Len(parts) /\ DOMAIN parts = 1..m
  BY <1>3
<1>5. PICK at : Meets(at, Lengths(n), 0, parts, n)
  BY <1>3 DEF Leads
<1>6. /\ at \in [0..m -> Nat] /\ at[0] = 0 /\ at[m] = n
      /\ \A k \in 1..m : <<at[k - 1], parts[k], at[k]>> \in Lengths(n)
  BY <1>4, <1>5 DEF Meets
<1> DEFINE up == [k \in 0..m |-> a + at[k]]
<1>7. up \in [0..m -> Nat] /\ up[0] = a /\ up[m] = b
  <2>1. up[0] = a + 0 /\ a + 0 = a /\ up[m] = a + n
    BY <1>1, <1>6
  <2>2. \A k \in 0..m : a + at[k] \in Nat
    BY <1>1, <1>6
  <2>3. up \in [0..m -> Nat]
    BY <2>2
  <2> QED
    BY <2>1, <2>3, <1>1
<1>8. s = [k \in 1..m |-> s[k]] /\ \A k \in 1..m : s[k] = MatchToken(t.offset, parts[k])
  <2>1. s = [k \in 1..m |-> MatchToken(t.offset, parts[k])]
    BY <1>4 DEF Pieces, parts
  <2> HIDE DEF s
  <2> QED
    BY <2>1
<1> HIDE DEF s
<1>9. ASSUME NEW k \in 1..m PROVE s[k] \in Tokens /\ <<up[k - 1], s[k], up[k]>> \in G
  <2>1. PICK j \in 0..m : j = k - 1
    OBVIOUS
  <2>2. PICK d \in Nat : d = at[j]
    BY <1>6
  <2>3. PICK x \in 2..8 : x = parts[k]
    BY <1>3, <1>4
  <2>4. at[k] = d + x /\ at[k] <= n
    <3> DEFINE w == <<d, x, at[k]>>
    <3>1. w \in Lengths(n)
      BY <1>6, <2>1, <2>2, <2>3
    <3>2. w[1] = d /\ w[2] = x /\ w[3] = at[k]
      OBVIOUS
    <3> HIDE DEF w
    <3>3. w[3] = w[1] + w[2] /\ w[3] <= n
      BY <3>1 DEF Lengths
    <3> QED
      BY <3>2, <3>3
  <2>5. up[k - 1] = a + d /\ up[k] = a + d + x
    <3>1. up[k] = a + at[k] /\ up[j] = a + at[j]
      OBVIOUS
    <3>2. a + (d + x) = a + d + x
      BY <1>1
    <3> HIDE DEF up
    <3> QED
      BY <3>1, <3>2, <2>1, <2>2, <2>4
  <2>6. d + x <= t.length
    BY <2>4
  <2>7. MatchToken(t.offset, x) \in Tokens /\ <<a + d, MatchToken(t.offset, x), a + d + x>> \in Copies(all)
    BY <1>2, <2>6, PieceCopies
  <2> HIDE DEF up
  <2> QED
    BY <2>3, <2>5, <2>7, <1>8
<1> HIDE DEF up, G
<1>10. s \in Seq(Tokens) /\ Leads(G, up[0], s, up[m])
  BY <1>7, <1>8, <1>9, LeadsBy
<1> QED
  BY <1>7, <1>10 DEF s, G

\* Long matches in pieces copy what they copied.
LEMMA AvoidFact ==
    ASSUME NEW all \in Seq(0..Bytes - 1), NEW tokens \in Seq(Tokens), NEW a \in Nat, NEW b \in Nat,
           Leads(Copies(all), a, tokens, b)
    PROVE  /\ avoid_single_symbol_length_tree(tokens) \in Seq(Tokens)
           /\ Leads(Copies(all), a, avoid_single_symbol_length_tree(tokens), b)
<1> DEFINE G == Copies(all)
           m == Len(tokens)
           X == Seq(Tokens)
           P(t) == IF t.length < 9 THEN <<t>> ELSE Pieces(t)
           R(g) == [k \in 0..m |-> IF k = 0 THEN <<>> ELSE g[k - 1] \o P(tokens[k])]
           acc == CHOOSE g : g = R(g)
           longs == {tokens[k].length : k \in {j \in DOMAIN tokens : tokens[j].length >= 9}}
<1>1. PICK at : Meets(at, G, a, tokens, b)
  BY DEF Leads
<1>2. /\ m \in Nat /\ at \in [0..m -> Nat] /\ at[0] = a /\ at[m] = b
      /\ \A k \in 1..m : <<at[k - 1], tokens[k], at[k]>> \in G
  BY <1>1 DEF Meets
<1>3. avoid_single_symbol_length_tree(tokens) = IF Cardinality(longs) # 1 THEN tokens ELSE acc[m]
  BY DEF avoid_single_symbol_length_tree, Folded, Pieces
<1> DEFINE S == [k \in 0..m |-> {s \in X : Leads(G, a, s, at[k])}]
           F == [t \in (1..m) \X X |-> t[2] \o P(tokens[t[1]])]
<1>4. \A k \in 0..m : S[k] = {s \in X : Leads(G, a, s, at[k])}
  OBVIOUS
<1>5. \A k \in 1..m : \A s \in X : F[<<k, s>>] = s \o P(tokens[k])
  OBVIOUS
<1> HIDE DEF S, F, acc, m, G
<1>6. <<>> \in S[0]
  <2>1. 0 \in 0..m /\ <<>> \in X
    BY <1>2
  <2>2. Leads(G, a, <<>>, at[0])
    BY <1>2, LeadsNone
  <2> HIDE DEF X
  <2> QED
    BY <2>1, <2>2, <1>4
<1>7. ASSUME NEW k \in 1..m, NEW s \in S[k - 1] PROVE s \in X /\ s \o P(tokens[k]) \in S[k]
  <2>1. PICK j \in 0..m : j = k - 1 /\ k \in 0..m
    BY <1>2
  <2> DEFINE t == tokens[k]
  <2>2. s \in X /\ Leads(G, a, s, at[j])
    <3>1. s \in S[j]
      BY <2>1
    <3> HIDE DEF X
    <3> QED
      BY <3>1, <1>4
  <2>3. PICK c \in Nat : c = at[j]
    BY <1>2
  <2>4. PICK d \in Nat : d = at[k]
    BY <2>1, <1>2
  <2>5. <<c, t, d>> \in G
    BY <2>1, <2>3, <2>4, <1>2
  <2> HIDE DEF t
  <2>6. P(t) \in X /\ Leads(G, c, P(t), d)
    <3>1. t \in Tokens /\ t.length \in Nat
      BY <2>5, CopyIs, TokenIs DEF G
    <3>2. CASE t.length < 9
      <4>1. P(t) = <<t>>
        BY <3>2
      <4>2. Leads(G, c, <<t>>, d) /\ <<t>> \in X
        <5>1. Leads(G, c, <<t>>, d)
          BY <2>5, LeadsOne
        <5>2. <<t>> \in X
          BY <3>1, OneFacts
        <5> QED
          BY <5>1, <5>2
      <4> HIDE DEF P, X
      <4> QED
        BY <4>1, <4>2
    <3>3. CASE ~(t.length < 9)
      <4>1. P(t) = Pieces(t)
        BY <3>3, Zenon
      <4>2. t.length >= 9
        BY <3>1, <3>3
      <4>3. Pieces(t) \in X /\ Leads(G, c, Pieces(t), d)
        BY <2>5, <4>2, PiecesLead DEF G
      <4> HIDE DEF P, X
      <4> QED
        BY <4>1, <4>3
    <3> HIDE DEF P, X
    <3> QED
      BY <3>2, <3>3
  <2> DEFINE v == P(t)
             u == s \o v
  <2>7. v \in Seq(Tokens) /\ s \in Seq(Tokens) /\ Leads(G, a, s, c) /\ Leads(G, c, v, d)
    BY <2>2, <2>3, <2>6
  <2> HIDE DEF v
  <2>8. u \in Seq(Tokens)
    BY <2>7, ConcatFacts
  <2>9. Leads(G, a, u, d)
    BY <2>7, LeadsOn
  <2> HIDE DEF u
  <2>10. u \in S[k]
    BY <2>1, <2>4, <2>8, <2>9, <1>4
  <2> QED
    BY <2>2, <2>10 DEF u, v, t
<1> HIDE DEF X, P
<1>8. Ascends(S, m, F)
  BY <1>5, <1>7 DEF Ascends
<1>9. ASSUME NEW f, Climbs(f, S, <<>>, m, F) PROVE Follows(acc, S, <<>>, m, F)
  <2>1. /\ f = [k \in 0..m |-> f[k]] /\ f[0] = <<>>
        /\ \A k \in 1..m : f[k - 1] \in S[k - 1] /\ f[k] = F[<<k, f[k - 1]>>]
        /\ \A k \in 0..m : k = 0 \/ k \in 1..m
    BY <1>2, <1>9, ClimbIs
  <2>2. \A k \in 0..m : f[k] = IF k = 0 THEN <<>> ELSE f[k - 1] \o P(tokens[k])
    BY <2>1, <1>5, <1>7
  <2>3. R(f) = [k \in 0..m |-> f[k]]
    BY <2>2
  <2>4. acc = R(acc)
    BY <2>1, <2>3 DEF acc
  <2>5. acc[0] = <<>> /\ \A k \in 1..m : acc[k] = acc[k - 1] \o P(tokens[k])
    <3>1. 0 \in 0..m /\ \A k \in 1..m : k \in 0..m /\ k # 0
      BY <1>2
    <3> QED
      BY <2>4, <3>1
  <2> QED
    BY <2>5, <1>5, <1>7 DEF Follows
<1>10. acc[m] \in X /\ Leads(G, a, acc[m], b)
  <2>1. m \in Nat /\ m \in 0..m
    BY <1>2
  <2>2. acc[m] \in S[m]
    BY <2>1, <1>6, <1>8, <1>9, FoldFact
  <2> QED
    BY <2>1, <2>2, <1>2, <1>4
<1>11. CASE Cardinality(longs) # 1
  <2> HIDE DEF longs
  <2>1. avoid_single_symbol_length_tree(tokens) = tokens
    BY <1>3, <1>11
  <2> QED
    BY <2>1
<1>12. CASE Cardinality(longs) = 1
  <2> HIDE DEF longs
  <2>1. avoid_single_symbol_length_tree(tokens) = acc[m]
    BY <1>3, <1>12
  <2> QED
    BY <2>1, <1>10 DEF X, G
<1> QED
  BY <1>11, <1>12

-----------------------------------------------------------------------------
(* What the decoder copies. *)

LEMMA Grows ==
    ASSUME NEW o \in Nat \ {0}, NEW u \in Int, NEW v \in Int, u > v
    PROVE  o * u >= o * v + o
<1>1. PICK w \in Nat : w = u - v - 1
  OBVIOUS
<1>2. o * w >= 0
  OBVIOUS
<1>3. u = v + w + 1
  BY <1>1
<1>4. o * (v + w + 1) = o * v + o * w + o
  OBVIOUS
<1>5. o * v \in Int /\ o * w \in Int
  OBVIOUS
<1> QED
  BY <1>2, <1>3, <1>4, <1>5

LEMMA ModSame ==
    ASSUME NEW o \in Nat \ {0}, NEW x \in Nat, x >= o
    PROVE  (x - o) % o = x % o
<1>1. PICK y \in Nat : y = x - o
  OBVIOUS
<1>2. PICK d \in Nat : d = x \div o
  OBVIOUS
<1>3. PICK e \in Nat : e = y \div o
  OBVIOUS
<1>4. PICK i \in Nat : i = x % o /\ i < o
  OBVIOUS
<1>5. PICK j \in Nat : j = y % o /\ j < o
  OBVIOUS
<1>6. x = o * d + i
  BY <1>2, <1>4
<1>7. y = o * e + j
  BY <1>3, <1>5
<1>8. PICK n \in Int : n = o * d
  OBVIOUS
<1>9. PICK m \in Int : m = o * e
  OBVIOUS
<1>10. PICK c \in Int : c = e + 1
  OBVIOUS
<1>11. o * c = m + o
  <2>1. o * (e + 1) = o * e + o
    OBVIOUS
  <2> QED
    BY <2>1, <1>9, <1>10
<1>12. n + i = m + o + j
  BY <1>1, <1>6, <1>7, <1>8, <1>9
<1>13. ~(d > c)
  <2>1. ASSUME d > c PROVE FALSE
    <3>1. n >= m + o + o
      <4>1. o * d >= o * c + o
        BY <2>1, Grows
      <4> QED
        BY <4>1, <1>8, <1>11
    <3> QED
      BY <3>1, <1>4, <1>5, <1>12
  <2> QED
    BY <2>1
<1>14. ~(c > d)
  <2>1. ASSUME c > d PROVE FALSE
    <3>1. m + o >= n + o
      <4>1. o * c >= o * d + o
        BY <2>1, Grows
      <4> QED
        BY <4>1, <1>8, <1>11
    <3> QED
      BY <3>1, <1>4, <1>5, <1>12
  <2> QED
    BY <2>1
<1>15. c = d
  BY <1>13, <1>14
<1>16. n = m + o
  BY <1>8, <1>11, <1>15
<1>17. i = j
  BY <1>12, <1>16
<1> QED
  BY <1>1, <1>4, <1>5, <1>17

\* From a on, each element is the one offset places before; so it is one of the last
\* offset places before a.
Periodic(all, a, offset, length) ==
    \A k \in 1..length : all[a + k] = all[a + k - offset]

Repeats(all, a, offset, length) ==
    \A k \in 1..length : all[a + k] = all[a - offset + 1 + ((k - 1) % offset)]

LEMMA PeriodFact ==
    ASSUME NEW all, NEW a \in Nat, NEW offset \in Nat \ {0}, offset <= a, NEW length \in Nat,
           Periodic(all, a, offset, length)
    PROVE  Repeats(all, a, offset, length)
<1> DEFINE Bad == {k \in 1..length : all[a + k] # all[a - offset + 1 + ((k - 1) % offset)]}
<1>1. ASSUME Bad # {} PROVE FALSE
  <2>1. PICK k \in Bad : \A y \in Bad : k <= y
    <3>1. Bad \subseteq Nat
      OBVIOUS
    <3> HIDE DEF Bad
    <3> QED
      BY <1>1, <3>1, LeastFact
  <2>2. k \in 1..length /\ all[a + k] # all[a - offset + 1 + ((k - 1) % offset)]
    BY <2>1
  <2>3. all[a + k] = all[a + k - offset]
    BY <2>2 DEF Periodic
  <2>4. PICK x \in Nat : x = k - 1
    BY <2>2
  <2>5. CASE x < offset
    <3>1. (k - 1) % offset = x
      BY <2>4, <2>5
    <3>2. a - offset + 1 + x = a + k - offset
      BY <2>2, <2>4
    <3> QED
      BY <2>2, <2>3, <3>1, <3>2
  <2>6. CASE x >= offset
    <3>1. PICK j \in 1..length : j = k - offset /\ j < k
      BY <2>2, <2>4, <2>6
    <3>2. j \notin Bad
      <4>1. ~(k <= j)
        BY <3>1, <2>2
      <4> HIDE DEF Bad
      <4> QED
        BY <2>1, <4>1
    <3>3. all[a + j] = all[a - offset + 1 + ((j - 1) % offset)]
      BY <3>2
    <3>4. (j - 1) % offset = (k - 1) % offset
      <4>1. j - 1 = x - offset
        BY <3>1, <2>4, <2>2
      <4>2. (x - offset) % offset = x % offset
        BY <2>6, ModSame
      <4> QED
        BY <2>4, <4>1, <4>2
    <3>5. a + j = a + k - offset
      BY <3>1, <2>2
    <3> QED
      BY <2>2, <2>3, <3>3, <3>4, <3>5
  <2> QED
    BY <2>4, <2>5, <2>6
<1> QED
  BY <1>1 DEF Repeats

\* The bytes a decoder with the first a of all copies for a match.
CopyReady(Y, n, all, a, out, offset, length) ==
    /\ n \in Nat /\ all \in [1..n -> Y] /\ a \in Nat /\ out \in [1..a -> Y]
    /\ \A j \in 1..a : out[j] = all[j]
    /\ offset \in Nat \ {0} /\ offset <= a
    /\ length \in Nat /\ a + length <= n
    /\ \A k \in 1..length : all[a + k] = all[a + k - offset]

CopyDone(all, a, out, offset, length) ==
    \A k \in 1..length : out[a - offset + 1 + ((k - 1) % offset)] = all[a + k]

LEMMA CopyMade ==
    ASSUME NEW Y, NEW n, NEW all, NEW a, NEW out, NEW offset, NEW length,
           CopyReady(Y, n, all, a, out, offset, length)
    PROVE  CopyDone(all, a, out, offset, length)
<1>00. /\ n \in Nat /\ all \in [1..n -> Y] /\ a \in Nat /\ out \in [1..a -> Y]
       /\ \A j \in 1..a : out[j] = all[j]
       /\ offset \in Nat \ {0} /\ offset <= a
       /\ length \in Nat /\ a + length <= n
       /\ \A k \in 1..length : all[a + k] = all[a + k - offset]
  BY DEF CopyReady
<1>0. \A k \in 1..length : all[a + k] = all[a - offset + 1 + ((k - 1) % offset)]
  <2>1. a \in Nat /\ offset \in Nat \ {0} /\ offset <= a /\ length \in Nat
    BY <1>00
  <2>2. Periodic(all, a, offset, length)
    BY <1>00 DEF Periodic
  <2>3. Repeats(all, a, offset, length)
    BY <2>1, <2>2, PeriodFact, Zenon
  <2> QED
    BY <2>3 DEF Repeats
<1>1. ASSUME NEW k \in 1..length PROVE out[a - offset + 1 + ((k - 1) % offset)] = all[a + k]
  <2>0. PICK y \in Nat : y = k - 1
    BY <1>00
  <2>01. y % offset \in Nat /\ y % offset < offset
    BY <1>00
  <2>1. PICK x \in Nat : x = (k - 1) % offset /\ x < offset
    BY <1>00, <2>0, <2>01
  <2>2. PICK j \in 1..a : j = a - offset + 1 + x
    BY <1>00, <2>1
  <2>3. all[a + k] = all[a - offset + 1 + ((k - 1) % offset)]
    BY <1>0
  <2>4. all[a + k] = all[j]
    BY <2>1, <2>2, <2>3
  <2>5. a - offset + 1 + ((k - 1) % offset) = j
    BY <1>00, <2>1, <2>2
  <2> QED
    BY <1>00, <2>2, <2>4, <2>5
<1> QED
  BY <1>1 DEF CopyDone

-----------------------------------------------------------------------------
(* Symbols. *)

Rs == [1..3 -> 1..MaxOffset]

\* What TypeOK says of a symbol.
Sound(symbol) ==
    /\ symbol.main \in 0..MainLen - 1 /\ symbol.long \in -1..LengthSyms - 1
    /\ symbol.bits = 0 \/ symbol.bits \in 1..2^FooterBits[(symbol.main - Bytes) \div 8] - 1

LEMMA EncodedLiteral ==
    ASSUME NEW t \in Tokens, NEW q \in Rs, t.offset = 0
    PROVE  /\ Encoded(t, q).r = q
           /\ Encoded(t, q).symbol = [main |-> t.byte, long |-> -1, bits |-> 0]
<1>1. ~IsMatch(t)
  BY DEF IsMatch
<1>2. Encoded(t, q) = [symbol |-> [main |-> t.byte, long |-> -1, bits |-> 0], r |-> q]
  BY <1>1, Zenon DEF Encoded
<1> QED
  BY <1>2

\* How the symbol of a match is made up: of a slot, a header, a long length and bits.
Slotted(t, q, slot, header, long, bits, next) ==
    /\ slot \in 0..PositionSlots - 1 /\ header \in 0..7 /\ long \in -1..LengthSyms - 1 /\ bits \in Nat
    /\ bits = 0 \/ bits \in 1..2^FooterBits[slot] - 1
    /\ t.length = IF header = 7 THEN 9 + long ELSE header + 2
    /\ \/ slot < 3 /\ q[slot + 1] = t.offset /\ next = Swapped(q, slot + 1)
       \/ slot >= 3 /\ BasePosition[slot] + bits - 2 = t.offset /\ next = Pushed(q, t.offset)

LEMMA EncodedMatch ==
    ASSUME NEW t \in Tokens, NEW q \in Rs, t.offset > 0
    PROVE  \E slot, header, long, bits :
                /\ Slotted(t, q, slot, header, long, bits, Encoded(t, q).r)
                /\ Encoded(t, q).symbol = [main |-> Bytes + 8 * slot + header, long |-> long, bits |-> bits]
<1> DEFINE known  == {i \in 1..3 : q[i] = t.offset}
           i      == CHOOSE k \in known : \A j \in known : k <= j
           slot   == IF known # {} THEN i - 1 ELSE position_slot_for(t.offset)
           header == IF t.length >= 9 THEN 7 ELSE t.length - 2
           long   == IF t.length >= 9 THEN t.length - 9 ELSE -1
           bits   == IF known # {} THEN 0 ELSE t.offset + 2 - BasePosition[slot]
           next   == IF known # {} THEN Swapped(q, i) ELSE Pushed(q, t.offset)
<1>1. Encoded(t, q).r = next /\ Encoded(t, q).symbol = [main |-> Bytes + 8 * slot + header, long |-> long, bits |-> bits]
  <2>1. IsMatch(t)
    BY DEF IsMatch
  <2>2. Encoded(t, q) = [symbol |-> [main |-> Bytes + 8 * slot + header, long |-> long, bits |-> bits], r |-> next]
    BY <2>1, Zenon DEF Encoded
  <2> HIDE DEF slot, header, long, bits, next
  <2> QED
    BY <2>2
<1>2. PICK l \in Nat : l = t.length /\ l >= 2 /\ l <= MaxMatch
  BY TokenIs
<1>3. header \in 0..7 /\ long \in -1..LengthSyms - 1 /\ t.length = IF header = 7 THEN 9 + long ELSE header + 2
  <2>0. MaxMatch \in Nat /\ LengthSyms \in Nat /\ MaxMatch - 9 < LengthSyms
    BY LzxAssumption
  <2>1. CASE l >= 9
    <3>1. header = 7 /\ long = l - 9
      BY <1>2, <2>1
    <3>2. l - 9 \in -1..LengthSyms - 1 /\ 9 + (l - 9) = l
      BY <1>2, <2>0, <2>1
    <3> HIDE DEF header, long
    <3> QED
      BY <1>2, <3>1, <3>2
  <2>2. CASE ~(l >= 9)
    <3>1. header = l - 2 /\ long = -1
      BY <1>2, <2>2
    <3>2. l - 2 \in 0..6 /\ l - 2 + 2 = l
      BY <1>2, <2>2
    <3>3. -1 \in -1..LengthSyms - 1
      BY <2>0
    <3> HIDE DEF header, long
    <3> QED
      BY <1>2, <3>1, <3>2, <3>3
  <2> QED
    BY <2>1, <2>2
<1>4. PICK offset \in 1..MaxOffset : offset = t.offset
  <2>1. MaxOffset \in Nat
    BY OffsetsFact
  <2> HIDE DEF MaxOffset
  <2>2. t.offset \in Nat /\ t.offset <= MaxOffset /\ t.offset > 0
    BY TokenIs
  <2> QED
    BY <2>1, <2>2
<1> HIDE DEF header, long
<1>5. CASE known # {}
  <2>1. i \in known /\ i \in 1..3
    <3>1. \E k \in known : \A j \in known : k <= j
      <4>1. known \subseteq Nat
        OBVIOUS
      <4> HIDE DEF known
      <4> QED
        BY <4>1, <1>5, LeastFact
    <3>2. i \in known
      <4> HIDE DEF known
      <4> QED
        BY <3>1
    <3> HIDE DEF i
    <3> QED
      BY <3>2
  <2> HIDE DEF i
  <2>2. q[i] = t.offset
    BY <2>1
  <2> HIDE DEF known
  <2>3. slot = i - 1 /\ bits = 0 /\ next = Swapped(q, i)
    BY <1>5
  <2> HIDE DEF slot, bits, next
  <2>4. slot \in 0..PositionSlots - 1 /\ slot < 3 /\ slot + 1 = i /\ ~(slot >= 3)
    <3>1. PositionSlots \in 4..50
      BY BaseSteps
    <3> QED
      BY <3>1, <2>1, <2>3
  <2>5. Slotted(t, q, slot, header, long, bits, next)
    <3>1. bits \in Nat /\ bits = 0
      BY <2>3
    <3>2. slot < 3 /\ q[slot + 1] = t.offset /\ next = Swapped(q, slot + 1)
      BY <2>2, <2>3, <2>4
    <3> QED
      BY <1>3, <2>4, <3>1, <3>2, Zenon DEF Slotted
  <2> QED
    BY <1>1, <2>5, Zenon
<1>6. CASE known = {}
  <2> HIDE DEF i, known
  <2>1. slot = position_slot_for(offset) /\ bits = offset + 2 - BasePosition[slot] /\ next = Pushed(q, t.offset)
    BY <1>4, <1>6
  <2> HIDE DEF slot, bits, next, MaxOffset
  <2>2. /\ slot \in 3..PositionSlots - 1 /\ BasePosition[slot] \in Nat
        /\ BasePosition[slot] <= offset + 2 /\ offset + 2 < BasePosition[slot] + 2^FooterBits[slot]
    BY <2>1, SlotFact
  <2>3. slot \in 0..PositionSlots - 1 /\ slot >= 3 /\ PositionSlots \in Nat
    BY <2>2, BaseSteps
  <2>4. PICK p \in Nat : p = 2^FooterBits[slot]
    BY <2>3, BaseSteps
  <2>5. PICK b \in Nat : b = BasePosition[slot]
    BY <2>2
  <2>6. offset \in Nat
    BY OffsetsFact
  <2>7. bits = offset + 2 - b /\ b <= offset + 2 /\ offset + 2 < b + p
    BY <2>1, <2>2, <2>4, <2>5
  <2>8. bits \in Nat /\ (bits = 0 \/ bits \in 1..p - 1) /\ b + bits - 2 = offset
    BY <2>6, <2>7
  <2>9. Slotted(t, q, slot, header, long, bits, next)
    <3>1. bits \in Nat /\ (bits = 0 \/ bits \in 1..2^FooterBits[slot] - 1) /\ BasePosition[slot] + bits - 2 = t.offset
      BY <1>4, <2>4, <2>5, <2>8
    <3> QED
      BY <1>3, <2>1, <2>3, <3>1, Zenon DEF Slotted
  <2> QED
    BY <1>1, <2>9, Zenon
<1> QED
  BY <1>5, <1>6

LEMMA MainFact ==
    ASSUME NEW slot \in 0..PositionSlots - 1, NEW header \in 0..7
    PROVE  LET main == Bytes + 8 * slot + header
           IN  /\ main \in 0..MainLen - 1 /\ ~(main < Bytes)
               /\ (main - Bytes) \div 8 = slot /\ (main - Bytes) % 8 = header
<1>1. Bytes \in Nat /\ PositionSlots \in Nat
  BY LzxAssumption
<1>2. PICK d \in Nat : d = 8 * slot + header
  BY <1>1
<1>3. d \div 8 = slot /\ d % 8 = header /\ d <= 8 * PositionSlots - 1
  BY <1>1, <1>2
<1>4. PICK main \in Nat : main = Bytes + d
  BY <1>1
<1>5. Bytes + 8 * slot + header = main
  BY <1>1, <1>2, <1>4
<1>6. main - Bytes = d /\ ~(main < Bytes) /\ main <= Bytes + 8 * PositionSlots - 1
  BY <1>1, <1>3, <1>4
<1>7. main \in 0..MainLen - 1
  BY <1>1, <1>6 DEF MainLen
<1> QED
  BY <1>3, <1>5, <1>6, <1>7

Syms == {s \in [main : 0..MainLen - 1, long : -1..LengthSyms - 1, bits : Nat] : Sound(s)}

LEMMA MainLenFact ==
    MainLen \in Nat /\ MainLen > Bytes /\ Bytes \in Nat /\ LengthSyms \in Nat
<1>1. Bytes \in Nat /\ PositionSlots \in 4..50 /\ LengthSyms \in Nat
  BY LzxAssumption
<1> QED
  BY <1>1 DEF MainLen

\* The symbols of tokens are ones the trees have, the offsets ones of the window.
LEMMA SymbolFact ==
    ASSUME NEW t \in Tokens, NEW q \in Rs
    PROVE  Encoded(t, q).symbol \in Syms /\ Encoded(t, q).r \in Rs
<1>0. PICK ml \in Nat : ml = MainLen /\ ml > Bytes /\ Bytes \in Nat /\ LengthSyms \in Nat
  BY MainLenFact
<1>1. CASE t.offset = 0
  <2> DEFINE s == [main |-> t.byte, long |-> -1, bits |-> 0]
  <2>1. Encoded(t, q).r = q /\ Encoded(t, q).symbol = s
    BY <1>1, EncodedLiteral
  <2>2. t.byte \in 0..ml - 1 /\ -1 \in -1..LengthSyms - 1
    <3>1. t.byte \in 0..Bytes - 1
      BY TokenIs
    <3> QED
      BY <1>0, <3>1
  <2>3. s \in [main : 0..MainLen - 1, long : -1..LengthSyms - 1, bits : Nat]
    BY <1>0, <2>2
  <2>4. s.main = t.byte /\ s.long = -1 /\ s.bits = 0
    OBVIOUS
  <2> HIDE DEF s
  <2>5. Sound(s)
    BY <1>0, <2>2, <2>4, Zenon DEF Sound
  <2> QED
    BY <2>1, <2>3, <2>5 DEF Syms
<1>2. CASE t.offset > 0
  <2>1. PICK slot, header, long, bits :
                /\ Slotted(t, q, slot, header, long, bits, Encoded(t, q).r)
                /\ Encoded(t, q).symbol = [main |-> Bytes + 8 * slot + header, long |-> long, bits |-> bits]
    BY <1>2, EncodedMatch
  <2>2. slot \in 0..PositionSlots - 1 /\ header \in 0..7 /\ long \in -1..LengthSyms - 1 /\ bits \in Nat
        /\ (bits = 0 \/ bits \in 1..2^FooterBits[slot] - 1)
    BY <2>1, Zenon DEF Slotted
  <2> DEFINE main == Bytes + 8 * slot + header
             s == [main |-> main, long |-> long, bits |-> bits]
  <2>3. main \in 0..MainLen - 1 /\ (main - Bytes) \div 8 = slot
    BY <2>2, MainFact
  <2> HIDE DEF main
  <2>4. s \in [main : 0..MainLen - 1, long : -1..LengthSyms - 1, bits : Nat]
        /\ s.main = main /\ s.long = long /\ s.bits = bits
    BY <2>2, <2>3
  <2> HIDE DEF s
  <2>5. Sound(s)
    BY <2>2, <2>3, <2>4, Zenon DEF Sound
  <2>6. s \in Syms
    BY <2>4, <2>5 DEF Syms
  <2>7. Encoded(t, q).symbol = s
    BY <2>1 DEF s, main
  <2> DEFINE next == Encoded(t, q).r
  <2>8. \/ slot < 3 /\ next = Swapped(q, slot + 1)
        \/ slot >= 3 /\ next = Pushed(q, t.offset)
    BY <2>1, Zenon DEF Slotted
  <2>9. t.offset \in 1..MaxOffset
    <3>1. MaxOffset \in Nat
      BY OffsetsFact
    <3> HIDE DEF MaxOffset
    <3>2. t.offset \in Nat /\ t.offset <= MaxOffset /\ t.offset > 0
      BY <1>2, TokenIs
    <3> QED
      BY <3>1, <3>2
  <2> HIDE DEF next
  <2>10. next \in Rs
    <3>1. CASE slot < 3 /\ next = Swapped(q, slot + 1)
      <4>1. PICK i \in 1..3 : i = slot + 1
        BY <3>1, <2>2
      <4>2. Swapped(q, i) \in Rs
        BY <2>9, SwapFacts DEF Rs
      <4> QED
        BY <3>1, <4>1, <4>2
    <3>2. CASE slot >= 3 /\ next = Pushed(q, t.offset)
      <4>1. PICK i \in 1..3 : i = 1
        OBVIOUS
      <4>2. Pushed(q, t.offset) \in Rs
        BY <2>9, SwapFacts DEF Rs
      <4> QED
        BY <3>2, <4>2
    <3> QED
      BY <2>8, <3>1, <3>2
  <2> QED
    BY <2>6, <2>7, <2>10 DEF next
<1>3. t.offset = 0 \/ t.offset > 0
  BY TokenIs
<1> QED
  BY <1>1, <1>2, <1>3

-----------------------------------------------------------------------------
(* The decoder reads a symbol. *)

Heard(q, main, length, out) == [r |-> q, main |-> main, length |-> length, out |-> out, lost |-> FALSE]

\* The first a of all.
Fronts(all, a) == {s \in Seq(0..Bytes - 1) : Len(s) = a /\ \A j \in 1..a : s[j] = all[j]}

LEMMA FrontGrows ==
    ASSUME NEW all \in Seq(0..Bytes - 1), NEW a \in Nat, NEW out \in Fronts(all, a),
           NEW c \in Nat, a + c <= Len(all)
    PROVE  out \o [k \in 1..c |-> all[a + k]] \in Fronts(all, a + c)
<1> DEFINE Y == 0..Bytes - 1
           u == out \o [k \in 1..c |-> all[a + k]]
<1>1. out \in Seq(Y) /\ Len(out) = a /\ \A j \in 1..a : out[j] = all[j]
  BY DEF Fronts
<1>2. PICK n \in Nat : n = Len(all)
  OBVIOUS
<1>3. all \in Seq(Y)
  OBVIOUS
<1>4. a + c <= n
  BY <1>2
<1> HIDE DEF Y
<1>30. all \in [1..n -> Y]
  BY <1>2, <1>3
<1>5. PICK d \in Nat : d = Len(out) /\ d = a
  BY <1>1
<1>6. u \in Seq(Y) /\ Len(u) = d + c /\ \A j \in 1..d + c : u[j] = all[j]
  <2> DEFINE w == out \o [j \in 1..c |-> all[d + j]]
  <2>1. d + c <= n /\ \A j \in 1..d : out[j] = all[j]
    BY <1>1, <1>4, <1>5
  <2>2. d = Len(out) /\ out \in Seq(Y)
    BY <1>1, <1>5
  <2>3. w \in Seq(Y) /\ Len(w) = d + c /\ \A j \in 1..d + c : w[j] = all[j]
    BY <1>30, <2>1, <2>2, PieceFact
  <2>4. u = w
    BY <1>5
  <2> HIDE DEF u, w
  <2> QED
    BY <2>3, <2>4
<1>7. u \in Seq(Y) /\ Len(u) = a + c /\ \A j \in 1..a + c : u[j] = all[j]
  BY <1>5, <1>6
<1> HIDE DEF u
<1>8. u \in Fronts(all, a + c)
  BY <1>7 DEF Fronts, Y
<1> QED
  BY <1>8 DEF u

\* The two ways in which the decoder goes on.
Told(state, out) == [state EXCEPT !.out = out]
Moved(state, q, out) == [state EXCEPT !.r = q, !.out = out]

LEMMA HeardMore ==
    ASSUME NEW q, NEW main, NEW length, NEW out, NEW lost, NEW next, NEW more
    PROVE  /\ Told([r |-> q, main |-> main, length |-> length, out |-> out, lost |-> lost], more)
                = [r |-> q, main |-> main, length |-> length, out |-> more, lost |-> lost]
           /\ Moved([r |-> q, main |-> main, length |-> length, out |-> out, lost |-> lost], next, more)
                = [r |-> next, main |-> main, length |-> length, out |-> more, lost |-> lost]
<1> DEFINE s == [r |-> q, main |-> main, length |-> length, out |-> out, lost |-> lost]
           T == [r : {q, next}, main : {main}, length : {length}, out : {out, more}, lost : {lost}]
           a == Told(s, more)
           b == Moved(s, next, more)
<1>1. s \in T /\ s.r = q /\ s.main = main /\ s.length = length /\ s.out = out /\ s.lost = lost
  OBVIOUS
<1> HIDE DEF s
<1>2. a \in T /\ a.r = q /\ a.main = main /\ a.length = length /\ a.out = more /\ a.lost = lost
  BY <1>1 DEF Told
<1>3. b \in T /\ b.r = next /\ b.main = main /\ b.length = length /\ b.out = more /\ b.lost = lost
  BY <1>1 DEF Moved
<1> HIDE DEF a, b
<1>4. a = [r |-> q, main |-> main, length |-> length, out |-> more, lost |-> lost]
  BY <1>2
<1>5. b = [r |-> next, main |-> main, length |-> length, out |-> more, lost |-> lost]
  BY <1>3
<1> QED
  BY <1>4, <1>5 DEF a, b, s

LEMMA HeardOn ==
    ASSUME NEW q, NEW main, NEW length, NEW out, NEW next, NEW more
    PROVE  /\ Told(Heard(q, main, length, out), more) = Heard(q, main, length, more)
           /\ Moved(Heard(q, main, length, out), next, more) = Heard(next, main, length, more)
<1> DEFINE Rec(a, b, lost) == [r |-> a, main |-> main, length |-> length, out |-> b, lost |-> lost]
<1>1. PICK no : no = FALSE
  OBVIOUS
<1>2. \A a, b : Heard(a, main, length, b) = Rec(a, b, no)
  BY <1>1, Zenon DEF Heard
<1>3. /\ Told(Rec(q, out, no), more) = Rec(q, more, no)
      /\ Moved(Rec(q, out, no), next, more) = Rec(next, more, no)
  BY HeardMore
<1> HIDE DEF Rec
<1> QED
  BY <1>2, <1>3, Zenon

LEMMA HeardTold ==
    ASSUME NEW q, NEW main, NEW length, NEW out, NEW more
    PROVE  Told(Heard(q, main, length, out), more) = Heard(q, main, length, more)
<1>1. PICK next : next = q
  OBVIOUS
<1>2. /\ Told(Heard(q, main, length, out), more) = Heard(q, main, length, more)
      /\ Moved(Heard(q, main, length, out), next, more) = Heard(next, main, length, more)
  BY HeardOn
<1> QED
  BY <1>2

LEMMA StepLiteral ==
    ASSUME NEW q, NEW main, NEW length, NEW out, NEW symbol, symbol.main < Bytes
    PROVE  Step(Heard(q, main, length, out), symbol) = Heard(q, main, length, Append(out, symbol.main))
<1> DEFINE state == Heard(q, main, length, out)
<1>1. state = [r |-> q, main |-> main, length |-> length, out |-> out, lost |-> FALSE]
      /\ state.lost = FALSE /\ state.out = out
  BY DEF Heard
<1> HIDE DEF state
<1> DEFINE more == Append(state.out, symbol.main)
<1>2. Step(state, symbol) = Told(state, more)
  BY <1>1, Zenon DEF Step, Told, Moved
<1>20. more = Append(out, symbol.main)
  BY <1>1
<1> HIDE DEF more
<1>3. Told(state, more) = Heard(q, main, length, more)
  BY HeardTold DEF state
<1> QED
  BY <1>2, <1>20, <1>3 DEF state

LEMMA StepMatch ==
    ASSUME NEW q, NEW main, NEW length, NEW out, NEW symbol
    PROVE  LET slot   == (symbol.main - Bytes) \div 8
               header == (symbol.main - Bytes) % 8
               l      == IF header = 7 THEN 9 + symbol.long ELSE header + 2
               offset == IF slot < 3 THEN q[slot + 1] ELSE BasePosition[slot] + symbol.bits - 2
               next   == IF slot < 3 THEN Swapped(q, slot + 1) ELSE Pushed(q, offset)
           IN  ~(symbol.main < Bytes) /\ ~(offset > Len(out)) =>
                Step(Heard(q, main, length, out), symbol)
                = Heard(next, main, length,
                        out \o [k \in 1..l |-> out[Len(out) - offset + 1 + ((k - 1) % offset)]])
<1> DEFINE slot   == (symbol.main - Bytes) \div 8
           header == (symbol.main - Bytes) % 8
           l      == IF header = 7 THEN 9 + symbol.long ELSE header + 2
           state  == Heard(q, main, length, out)
           offset == IF slot < 3 THEN state.r[slot + 1] ELSE BasePosition[slot] + symbol.bits - 2
           next   == IF slot < 3 THEN Swapped(state.r, slot + 1) ELSE Pushed(state.r, offset)
           more   == state.out \o [k \in 1..l |-> state.out[Len(state.out) - offset + 1 + ((k - 1) % offset)]]
<1>1. state = [r |-> q, main |-> main, length |-> length, out |-> out, lost |-> FALSE]
      /\ state.lost = FALSE /\ state.out = out /\ state.r = q
  BY DEF Heard
<1> HIDE DEF state
<1>2. Step(state, symbol) = IF state.lost THEN state
                            ELSE IF symbol.main < Bytes THEN Told(state, Append(state.out, symbol.main))
                            ELSE IF offset > Len(state.out) THEN [state EXCEPT !.lost = TRUE]
                            ELSE Moved(state, next, more)
  BY Zenon DEF Step, Told, Moved
<1> DEFINE offset0 == IF slot < 3 THEN q[slot + 1] ELSE BasePosition[slot] + symbol.bits - 2
           next0   == IF slot < 3 THEN Swapped(q, slot + 1) ELSE Pushed(q, offset0)
           more0   == out \o [k \in 1..l |-> out[Len(out) - offset0 + 1 + ((k - 1) % offset0)]]
<1>3. SUFFICES ASSUME ~(symbol.main < Bytes), ~(offset0 > Len(out))
               PROVE  Step(state, symbol) = Heard(next0, main, length, more0)
  BY Zenon DEF state
<1> HIDE DEF slot, l
<1>4. offset = offset0
  BY <1>1
<1> HIDE DEF offset0
<1>5. next = next0
  BY <1>1, <1>4 DEF next
<1> HIDE DEF offset
<1>6. more = more0
  BY <1>1, <1>4
<1> HIDE DEF more, next, more0, next0
<1>7. Step(state, symbol) = Moved(state, next, more)
  BY <1>1, <1>2, <1>3, <1>4, Zenon
<1>8. Moved(state, next, more) = Heard(next, main, length, more)
  BY HeardOn DEF state
<1> QED
  BY <1>5, <1>6, <1>7, <1>8

\* What a decoder that has the first b of all is.
GotBack(all, b, q, main, length, state) == \E more \in Fronts(all, b) : state = Heard(q, main, length, more)

\* The decoder makes of a symbol what its token copies, and has the encoder's offsets after it.
LEMMA StepFact ==
    ASSUME NEW all \in Seq(0..Bytes - 1), NEW a, NEW t, NEW b, <<a, t, b>> \in Copies(all),
           NEW q \in Rs, NEW main, NEW length, NEW out \in Fronts(all, a)
    PROVE  GotBack(all, b, Encoded(t, q).r, main, length, Step(Heard(q, main, length, out), Encoded(t, q).symbol))
<1>0. SUFFICES \E more \in Fronts(all, b) :
                  Step(Heard(q, main, length, out), Encoded(t, q).symbol)
                  = Heard(Encoded(t, q).r, main, length, more)
  BY Zenon DEF GotBack
<1> DEFINE symbol == Encoded(t, q).symbol
           next == Encoded(t, q).r
<1>1. /\ a \in Nat /\ t \in Tokens /\ b \in Nat
      /\ b = a + t.length /\ b <= Len(all)
      /\ t.offset = 0 => all[a + 1] = t.byte
      /\ t.offset > 0 =>
            /\ t.offset <= a
            /\ \A k \in 1..t.length : all[a + k] = all[a + k - t.offset]
  BY CopyIs
<1>2. PICK l \in Nat \ {0} : l = t.length /\ (t.offset = 0 => l = 1)
  BY <1>1, TokenIs
<1>3. b = a + l /\ a + l <= Len(all)
  BY <1>1, <1>2, Zenon
<1>4. out \in Seq(0..Bytes - 1) /\ Len(out) = a /\ \A j \in 1..a : out[j] = all[j]
  BY DEF Fronts
<1> DEFINE more == out \o [k \in 1..l |-> all[a + k]]
<1>5. more \in Fronts(all, b)
  <2>1. l \in Nat /\ a \in Nat /\ a + l <= Len(all)
    BY <1>1, <1>3
  <2>2. more \in Fronts(all, a + l)
    BY <2>1, FrontGrows
  <2> HIDE DEF more
  <2> QED
    BY <2>2, <1>3
<1>6. CASE t.offset = 0
  <2>1. next = q /\ symbol = [main |-> t.byte, long |-> -1, bits |-> 0]
    BY <1>1, <1>6, EncodedLiteral
  <2> HIDE DEF symbol, next
  <2>2. symbol.main = t.byte /\ symbol.main < Bytes
    <3>1. t.byte \in 0..Bytes - 1 /\ Bytes \in Nat
      BY <1>1, TokenIs, MainLenFact
    <3>2. symbol.main = t.byte
      BY <2>1
    <3> QED
      BY <3>1, <3>2
  <2>3. Step(Heard(q, main, length, out), symbol) = Heard(q, main, length, Append(out, symbol.main))
    BY <2>2, StepLiteral
  <2>4. more = Append(out, symbol.main)
    <3> DEFINE Y == 0..Bytes - 1
               v == [k \in 1..l |-> all[a + k]]
    <3>1. all[a + 1] \in Y
      <4>1. t.byte \in Y
        BY <1>1, TokenIs
      <4> QED
        BY <4>1, <1>1, <1>6
    <3>2. v = <<all[a + 1]>>
      <4>1. l = 1
        BY <1>2, <1>6
      <4>2. v = [k \in 1..1 |-> all[a + k]]
        BY <4>1
      <4> DEFINE x == all[a + 1]
                 u == [k \in 1..1 |-> all[a + k]]
      <4>3. u[1] = x /\ u \in Seq({x}) /\ Len(u) = 1
        OBVIOUS
      <4> HIDE DEF x, u, v
      <4>4. <<x>> \in Seq({x}) /\ Len(<<x>>) = 1 /\ <<x>>[1] = x
        BY OneFacts
      <4>5. \A k \in 1..Len(u) : u[k] = <<x>>[k]
        BY <4>3, <4>4
      <4>6. u = <<x>>
        BY <4>3, <4>4, <4>5, SeqSame
      <4> QED
        BY <4>2, <4>6 DEF u, x
    <3>3. out \in Seq(Y)
      BY <1>4
    <3> HIDE DEF Y, v
    <3>4. Append(out, all[a + 1]) = out \o <<all[a + 1]>>
      BY <3>1, <3>3, AppendFacts
    <3>5. symbol.main = all[a + 1]
      BY <2>2, <1>1, <1>6
    <3> QED
      BY <3>2, <3>4, <3>5 DEF v
  <2> HIDE DEF more
  <2> QED
    BY <1>5, <2>1, <2>3, <2>4 DEF symbol, next
<1>7. CASE t.offset > 0
  <2>1. PICK slot, header, long, bits :
                /\ Slotted(t, q, slot, header, long, bits, next)
                /\ symbol = [main |-> Bytes + 8 * slot + header, long |-> long, bits |-> bits]
    BY <1>1, <1>7, EncodedMatch
  <2> HIDE DEF symbol, next
  <2>2. slot \in 0..PositionSlots - 1 /\ header \in 0..7
        /\ t.length = IF header = 7 THEN 9 + long ELSE header + 2
    BY <2>1, Zenon DEF Slotted
  <2>3. symbol.main = Bytes + 8 * slot + header /\ symbol.long = long /\ symbol.bits = bits
    BY <2>1
  <2>4. ~(symbol.main < Bytes) /\ (symbol.main - Bytes) \div 8 = slot /\ (symbol.main - Bytes) % 8 = header
    <3>1. LET m == Bytes + 8 * slot + header
          IN  ~(m < Bytes) /\ (m - Bytes) \div 8 = slot /\ (m - Bytes) % 8 = header
      BY <2>2, MainFact
    <3> QED
      BY <3>1, <2>3, Zenon
  <2>5. PICK offset : offset = t.offset
    OBVIOUS
  <2>6. offset = IF slot < 3 THEN q[slot + 1] ELSE BasePosition[slot] + symbol.bits - 2
    <3>1. \/ slot < 3 /\ q[slot + 1] = offset
          \/ slot >= 3 /\ BasePosition[slot] + symbol.bits - 2 = offset
      BY <2>1, <2>3, <2>5, Zenon DEF Slotted
    <3>2. slot >= 3 => ~(slot < 3)
      BY <2>2
    <3> QED
      BY <3>1, <3>2, Zenon
  <2>7. next = IF slot < 3 THEN Swapped(q, slot + 1) ELSE Pushed(q, offset)
    <3>1. \/ slot < 3 /\ next = Swapped(q, slot + 1)
          \/ slot >= 3 /\ next = Pushed(q, offset)
      BY <2>1, <2>5, Zenon DEF Slotted
    <3>2. slot >= 3 => ~(slot < 3)
      BY <2>2
    <3> QED
      BY <3>1, <3>2, Zenon
  <2>8. l = IF header = 7 THEN 9 + symbol.long ELSE header + 2
    BY <1>2, <2>2, <2>3, Zenon
  <2>9. offset \in Nat \ {0} /\ offset <= a /\ \A k \in 1..l : all[a + k] = all[a + k - offset]
    <3>1. t.offset \in Nat
      BY <1>1, TokenIs
    <3>2. t.offset \in Nat \ {0}
      BY <3>1, <1>7
    <3>3. t.offset <= a /\ \A k \in 1..t.length : all[a + k] = all[a + k - t.offset]
      BY <1>1, <1>7, Zenon
    <3> QED
      BY <3>2, <3>3, <1>2, <2>5, Zenon
  <2>10. ~(offset > Len(out))
    <3>1. a \in Nat /\ offset \in Nat
      BY <1>1, <2>9
    <3>2. ~(offset > a)
      BY <3>1, <2>9
    <3> QED
      BY <3>2, <1>4
  <2> DEFINE copied == out \o [k \in 1..l |-> out[Len(out) - offset + 1 + ((k - 1) % offset)]]
  <2>11. Step(Heard(q, main, length, out), symbol) = Heard(next, main, length, copied)
    BY <2>4, <2>6, <2>7, <2>8, <2>10, StepMatch
  <2>12. copied = more
    <3> DEFINE Y == 0..Bytes - 1
    <3>1. PICK n \in Nat : n = Len(all)
      OBVIOUS
    <3>2. out \in Seq(Y) /\ all \in Seq(Y) /\ Len(out) = a
      BY <1>4
    <3> HIDE DEF Y
    <3>3. all \in [1..n -> Y] /\ a + l <= n /\ a \in Nat /\ l \in Nat
      BY <3>1, <3>2, <1>1, <1>3
    <3>4. \A j \in 1..a : out[j] = all[j]
      BY <1>4
    <3>5. out \in [1..a -> Y] /\ offset \in Nat \ {0} /\ offset <= a
      BY <3>2, <2>9
    <3>6. \A k \in 1..l : all[a + k] = all[a + k - offset]
      BY <2>9
    <3>7. \A k \in 1..l : out[a - offset + 1 + ((k - 1) % offset)] = all[a + k]
      <4>1. CopyReady(Y, n, all, a, out, offset, l)
        BY <3>3, <3>4, <3>5, <3>6, Zenon DEF CopyReady
      <4>2. CopyDone(all, a, out, offset, l)
        BY <4>1, CopyMade, Zenon
      <4> QED
        BY <4>2, Zenon DEF CopyDone
    <3>8. [k \in 1..l |-> out[a - offset + 1 + ((k - 1) % offset)]] = [k \in 1..l |-> all[a + k]]
      BY <3>7
    <3> QED
      BY <3>2, <3>8, Zenon
  <2> HIDE DEF copied, more
  <2> QED
    BY <1>5, <2>11, <2>12, Zenon DEF symbol, next
<1>8. t.offset = 0 \/ t.offset > 0
  BY <1>1, TokenIs
<1> QED
  BY <1>6, <1>7, <1>8, Zenon

-----------------------------------------------------------------------------
(* The symbols of a block. *)

\* The offsets before and after each token.
Turns(tokens, q, rs) ==
    /\ rs \in [0..Len(tokens) -> Rs] /\ rs[0] = q
    /\ \A k \in 1..Len(tokens) : rs[k] = Encoded(tokens[k], rs[k - 1]).r

LEMMA TurnsExist ==
    ASSUME NEW tokens \in Seq(Tokens), NEW q \in Rs
    PROVE  \E rs : Turns(tokens, q, rs)
<1>0. PICK m \in Nat : m = Len(tokens)
  OBVIOUS
<1> DEFINE S == [k \in 0..m |-> Rs]
           F == [t \in (1..m) \X Rs |-> Encoded(tokens[t[1]], t[2]).r]
<1>1. \A k \in 0..m : S[k] = Rs
  OBVIOUS
<1>2. \A k \in 1..m : \A x \in Rs : F[<<k, x>>] = Encoded(tokens[k], x).r
  OBVIOUS
<1>3. \A k \in 1..m : tokens[k] \in Tokens
  BY <1>0
<1>4. \A k \in 1..m : k - 1 \in 0..m /\ k \in 0..m
  OBVIOUS
<1>5. 0 \in 0..m
  OBVIOUS
<1> HIDE DEF S, F
<1>6. ASSUME NEW k \in 1..m, NEW x \in S[k - 1] PROVE F[<<k, x>>] \in S[k]
  <2>1. x \in Rs
    BY <1>1, <1>4
  <2>2. tokens[k] \in Tokens
    BY <1>3
  <2>3. Encoded(tokens[k], x).r \in Rs
    BY <2>1, <2>2, SymbolFact
  <2> QED
    BY <2>1, <2>3, <1>1, <1>2, <1>4
<1>7. Ascends(S, m, F)
  BY <1>6 DEF Ascends
<1>8. q \in S[0]
  BY <1>1, <1>5
<1>9. PICK f : Climbs(f, S, q, m, F)
  BY <1>7, <1>8, ClimbExists
<1>10. /\ f = [k \in 0..m |-> f[k]] /\ f[0] = q
       /\ \A k \in 0..m : f[k] \in Rs
       /\ \A k \in 1..m : f[k] = F[<<k, f[k - 1]>>]
  BY <1>9, <1>1 DEF Climbs
<1>11. \A k \in 1..m : f[k] = Encoded(tokens[k], f[k - 1]).r
  BY <1>2, <1>4, <1>10
<1>12. f \in [0..m -> Rs]
  BY <1>10
<1> QED
  BY <1>0, <1>10, <1>11, <1>12 DEF Turns

\* The first k symbols.
Coded(tokens, rs, k) == [j \in 1..k |-> Encoded(tokens[j], rs[j - 1]).symbol]

Coding(tokens, rs, k) == [symbols |-> Coded(tokens, rs, k), r |-> rs[k]]

LEMMA CodedFact ==
    ASSUME NEW tokens \in Seq(Tokens), NEW q \in Rs, NEW rs, Turns(tokens, q, rs)
    PROVE  /\ \A k \in 0..Len(tokens) : Coded(tokens, rs, k) \in Seq(Syms) /\ Len(Coded(tokens, rs, k)) = k
           /\ \A k \in 1..Len(tokens) :
                /\ Encoded(tokens[k], rs[k - 1]).symbol \in Syms
                /\ Coded(tokens, rs, k) = Append(Coded(tokens, rs, k - 1), Encoded(tokens[k], rs[k - 1]).symbol)
<1>0. PICK m \in Nat : m = Len(tokens)
  OBVIOUS
<1> DEFINE e(k) == Encoded(tokens[k], rs[k - 1]).symbol
<1>1. \A k \in 1..m : e(k) \in Syms
  <2> TAKE k \in 1..m
  <2>1. tokens[k] \in Tokens /\ rs[k - 1] \in Rs
    <3>1. k - 1 \in 0..m
      OBVIOUS
    <3> QED
      BY <3>1, <1>0 DEF Turns
  <2> QED
    BY <2>1, SymbolFact
<1>2. \A k : Coded(tokens, rs, k) = [j \in 1..k |-> e(j)]
  BY DEF Coded
<1> HIDE DEF e
<1>3. \A k \in 0..m : Coded(tokens, rs, k) \in Seq(Syms) /\ Len(Coded(tokens, rs, k)) = k
  <2> TAKE k \in 0..m
  <2> DEFINE s == [j \in 1..k |-> e(j)]
  <2>1. \A j \in 1..k : e(j) \in Syms
    BY <1>1
  <2>2. s \in Seq(Syms) /\ Len(s) = k
    BY <2>1
  <2> QED
    BY <1>2, <2>2
<1>4. \A k \in 0..m : \A j \in 1..k : Coded(tokens, rs, k)[j] = e(j)
  BY <1>2
<1>5. ASSUME NEW k \in 1..m PROVE Coded(tokens, rs, k) = Append(Coded(tokens, rs, k - 1), e(k))
  <2>1. PICK i \in 0..m : i = k - 1 /\ i + 1 = k /\ k \in 0..m
    OBVIOUS
  <2> DEFINE a == Coded(tokens, rs, i)
             b == Coded(tokens, rs, k)
  <2>2. a \in Seq(Syms) /\ Len(a) = i /\ \A j \in 1..i : a[j] = e(j)
    BY <1>3, <1>4
  <2>3. b \in Seq(Syms) /\ Len(b) = k /\ \A j \in 1..k : b[j] = e(j)
    BY <1>3, <1>4, <2>1
  <2> HIDE DEF a, b
  <2>4. e(k) \in Syms
    BY <1>1
  <2> DEFINE c == Append(a, e(k))
  <2>5. c \in Seq(Syms) /\ Len(c) = i + 1 /\ (\A j \in 1..i : c[j] = a[j]) /\ c[i + 1] = e(k)
    <3> DEFINE x == e(k)
    <3>1. x \in Syms
      BY <2>4
    <3> HIDE DEF x
    <3>2. /\ Append(a, x) \in Seq(Syms) /\ Len(Append(a, x)) = Len(a) + 1
          /\ \A j \in 1..Len(a) : Append(a, x)[j] = a[j]
          /\ Append(a, x)[Len(a) + 1] = x
      BY <2>2, <3>1, AppendFacts
    <3> QED
      BY <3>2, <2>2 DEF x
  <2> HIDE DEF c
  <2>6. \A j \in 1..Len(b) : b[j] = c[j]
    <3> TAKE j \in 1..Len(b)
    <3>1. j \in 1..k /\ (j \in 1..i \/ j = i + 1)
      BY <2>1, <2>3
    <3> QED
      BY <3>1, <2>1, <2>2, <2>3, <2>5
  <2>7. Len(b) = Len(c)
    BY <2>1, <2>3, <2>5
  <2>8. b = c
    BY <2>3, <2>5, <2>6, <2>7, SeqSame
  <2> QED
    BY <2>1, <2>8 DEF a, b, c
<1> QED
  BY <1>0, <1>1, <1>3, <1>5 DEF e

\* What a block of tokens is encoded as.
LEMMA AllEncodedFact ==
    ASSUME NEW tokens \in Seq(Tokens), NEW q \in Rs, NEW rs, Turns(tokens, q, rs)
    PROVE  AllEncoded(tokens, q) = Coding(tokens, rs, Len(tokens))
<1> DEFINE m == Len(tokens)
           E(a, k) == [symbols |-> Append(a.symbols, Encoded(tokens[k], a.r).symbol), r |-> Encoded(tokens[k], a.r).r]
           start == [symbols |-> <<>>, r |-> q]
           R(g) == [k \in 0..m |-> IF k = 0 THEN start ELSE E(g[k - 1], k)]
           acc == CHOOSE g : g = R(g)
<1>1. m \in Nat /\ rs \in [0..m -> Rs] /\ rs[0] = q
      /\ \A k \in 1..m : rs[k] = Encoded(tokens[k], rs[k - 1]).r
  BY DEF Turns
<1>2. AllEncoded(tokens, q) = acc[m]
  BY DEF AllEncoded, Folded
<1> DEFINE X == {Coding(tokens, rs, k) : k \in 0..m}
           S == [k \in 0..m |-> {Coding(tokens, rs, k)}]
           F == [t \in (1..m) \X X |-> E(t[2], t[1])]
<1>3. \A k \in 0..m : S[k] = {Coding(tokens, rs, k)} /\ Coding(tokens, rs, k) \in X
  OBVIOUS
<1>4. \A k \in 1..m : \A x \in X : F[<<k, x>>] = E(x, k)
  OBVIOUS
<1>40. \A k, x : E(x, k) = [symbols |-> Append(x.symbols, Encoded(tokens[k], x.r).symbol), r |-> Encoded(tokens[k], x.r).r]
  OBVIOUS
<1> HIDE DEF S, F, X, E, acc, m
<1>5. Coding(tokens, rs, 0) = start
  <2>1. Coded(tokens, rs, 0) = <<>>
    BY DEF Coded
  <2> QED
    BY <2>1, <1>1 DEF Coding
<1> HIDE DEF start
<1>6. start \in S[0]
  <2>1. 0 \in 0..m
    BY <1>1
  <2> QED
    BY <2>1, <1>3, <1>5
<1>7. ASSUME NEW k \in 1..m, NEW x \in S[k - 1] PROVE x \in X /\ E(x, k) \in S[k]
  <2>1. PICK i \in 0..m : i = k - 1 /\ k \in 0..m
    BY <1>1
  <2>2. x = Coding(tokens, rs, i) /\ x \in X
    BY <2>1, <1>3
  <2>3. x.symbols = Coded(tokens, rs, i) /\ x.r = rs[i]
    BY <2>2 DEF Coding
  <2>4. E(x, k) = [symbols |-> Append(Coded(tokens, rs, i), Encoded(tokens[k], rs[i]).symbol), r |-> Encoded(tokens[k], rs[i]).r]
    BY <2>3, <1>40, Zenon
  <2>5. Append(Coded(tokens, rs, i), Encoded(tokens[k], rs[i]).symbol) = Coded(tokens, rs, k)
    BY <2>1, CodedFact DEF m
  <2>6. Encoded(tokens[k], rs[i]).r = rs[k]
    BY <2>1, <1>1
  <2>7. E(x, k) = Coding(tokens, rs, k)
    BY <2>4, <2>5, <2>6, Zenon DEF Coding
  <2> QED
    BY <2>1, <2>2, <2>7, <1>3
<1>8. Ascends(S, m, F)
  BY <1>4, <1>7 DEF Ascends
<1>9. ASSUME NEW f, Climbs(f, S, start, m, F) PROVE Follows(acc, S, start, m, F)
  <2>1. /\ f = [k \in 0..m |-> f[k]] /\ f[0] = start
        /\ \A k \in 1..m : f[k - 1] \in S[k - 1] /\ f[k] = F[<<k, f[k - 1]>>]
        /\ \A k \in 0..m : k = 0 \/ k \in 1..m
    BY <1>1, <1>9, ClimbIs
  <2>2. \A k \in 0..m : f[k] = IF k = 0 THEN start ELSE E(f[k - 1], k)
    BY <2>1, <1>4, <1>7
  <2>3. R(f) = [k \in 0..m |-> f[k]]
    BY <2>2
  <2>4. acc = R(acc)
    BY <2>1, <2>3 DEF acc
  <2>5. acc[0] = start /\ \A k \in 1..m : acc[k] = E(acc[k - 1], k)
    <3>1. 0 \in 0..m /\ \A k \in 1..m : k \in 0..m /\ k # 0
      BY <1>1
    <3> QED
      BY <2>4, <3>1
  <2> QED
    BY <2>5, <1>4, <1>7 DEF Follows
<1>10. acc[m] \in S[m]
  BY <1>1, <1>6, <1>8, <1>9, FoldFact
<1>11. acc[m] = Coding(tokens, rs, m)
  <2>1. m \in 0..m
    BY <1>1
  <2> QED
    BY <2>1, <1>3, <1>10
<1> QED
  BY <1>2, <1>11 DEF m

-----------------------------------------------------------------------------
(* The decoder reads a block. *)

LEMMA FrontFacts ==
    ASSUME NEW pre \in Seq(0..Bytes - 1), NEW bytes \in Seq(0..Bytes - 1)
    PROVE  /\ pre \in Fronts(pre \o bytes, Len(pre))
           /\ Fronts(pre, Len(pre)) = {pre}
<1> DEFINE Y == 0..Bytes - 1
<1>1. pre \in Seq(Y) /\ bytes \in Seq(Y)
  OBVIOUS
<1>2. \A all, a, s : s \in Fronts(all, a) <=> s \in Seq(Y) /\ Len(s) = a /\ \A j \in 1..a : s[j] = all[j]
  BY DEF Fronts
<1> HIDE DEF Y
<1>3. pre \in Fronts(pre \o bytes, Len(pre))
  <2>1. \A j \in 1..Len(pre) : (pre \o bytes)[j] = pre[j]
    BY <1>1, ConcatFacts
  <2> QED
    BY <1>1, <1>2, <2>1
<1>4. pre \in Fronts(pre, Len(pre))
  BY <1>1, <1>2
<1>5. ASSUME NEW s \in Fronts(pre, Len(pre)) PROVE s = pre
  <2>1. s \in Seq(Y) /\ Len(s) = Len(pre) /\ \A j \in 1..Len(pre) : s[j] = pre[j]
    BY <1>2
  <2>2. Len(s) = Len(pre) /\ \A j \in 1..Len(s) : s[j] = pre[j]
    BY <2>1
  <2> QED
    BY <1>1, <2>1, <2>2, SeqSame
<1> QED
  BY <1>3, <1>4, <1>5

Hears(state, symbols) == Folded(Step, state, symbols)

\* The symbols of tokens that copy all between a and b, for a decoder that has the first a of it.
LEMMA HeardAll ==
    ASSUME NEW all \in Seq(0..Bytes - 1), NEW a, NEW b, NEW tokens \in Seq(Tokens), NEW q \in Rs, NEW rs,
           Turns(tokens, q, rs), Leads(Copies(all), a, tokens, b),
           NEW main, NEW length, NEW out \in Fronts(all, a)
    PROVE  GotBack(all, b, rs[Len(tokens)], main, length,
                   Hears(Heard(q, main, length, out), Coded(tokens, rs, Len(tokens))))
<1> DEFINE m == Len(tokens)
           G == Copies(all)
           symbols == Coded(tokens, rs, m)
           e(k) == Encoded(tokens[k], rs[k - 1]).symbol
           start == Heard(q, main, length, out)
           R(g) == [k \in 0..m |-> IF k = 0 THEN start ELSE Step(g[k - 1], symbols[k])]
           acc == CHOOSE g : g = R(g)
<1>1. m \in Nat /\ rs \in [0..m -> Rs] /\ rs[0] = q
      /\ \A k \in 1..m : rs[k] = Encoded(tokens[k], rs[k - 1]).r
  BY DEF Turns
<1>2. Len(symbols) = m /\ \A k \in 1..m : symbols[k] = e(k)
  <2>1. m \in 0..m
    BY <1>1
  <2>2. Len(symbols) = m
    BY <2>1, CodedFact
  <2>3. \A k \in 1..m : symbols[k] = e(k)
    BY DEF Coded
  <2> QED
    BY <2>2, <2>3
<1>3. Folded(Step, start, symbols) = acc[m]
  <2> HIDE DEF symbols, m, start
  <2>1. Folded(Step, start, symbols)
        = (CHOOSE g : g = [k \in 0..Len(symbols) |-> IF k = 0 THEN start ELSE Step(g[k - 1], symbols[k])])[Len(symbols)]
    BY DEF Folded
  <2> QED
    BY <2>1, <1>2, Zenon
<1>4. PICK at : Meets(at, G, a, tokens, b)
  BY DEF Leads
<1>5. /\ at \in [0..m -> Nat] /\ at[0] = a /\ at[m] = b
      /\ \A k \in 1..m : <<at[k - 1], tokens[k], at[k]>> \in G
  BY <1>4 DEF Meets
<1> DEFINE H(k) == {Heard(rs[k], main, length, o) : o \in Fronts(all, at[k])}
           X == UNION {H(k) : k \in 0..m}
           S == [k \in 0..m |-> H(k)]
           F == [t \in (1..m) \X X |-> Step(t[2], symbols[t[1]])]
<1>6. \A k \in 0..m : S[k] = H(k) /\ H(k) \subseteq X
  OBVIOUS
<1>7. \A k \in 1..m : \A x \in X : F[<<k, x>>] = Step(x, symbols[k])
  OBVIOUS
<1>8. \A k, x : x \in H(k) <=> \E o \in Fronts(all, at[k]) : x = Heard(rs[k], main, length, o)
  OBVIOUS
<1> HIDE DEF S, F, X, H, acc, m, symbols
<1>9. start \in S[0]
  <2>1. 0 \in 0..m
    BY <1>1
  <2>2. start \in H(0)
    BY <1>1, <1>5, <1>8, Zenon
  <2> HIDE DEF start
  <2> QED
    BY <2>1, <2>2, <1>6
<1>10. ASSUME NEW k \in 1..m, NEW x \in S[k - 1] PROVE x \in X /\ Step(x, symbols[k]) \in S[k]
  <2>1. PICK i \in 0..m : i = k - 1 /\ k \in 0..m
    BY <1>1
  <2>2. x \in H(i) /\ x \in X
    BY <2>1, <1>6
  <2>3. PICK o \in Fronts(all, at[i]) : x = Heard(rs[i], main, length, o)
    BY <2>2, <1>8, Zenon
  <2>4. <<at[i], tokens[k], at[k]>> \in G
    BY <2>1, <1>5
  <2>5. rs[i] \in Rs
    BY <1>1
  <2>6. symbols[k] = Encoded(tokens[k], rs[i]).symbol /\ rs[k] = Encoded(tokens[k], rs[i]).r
    BY <2>1, <1>1, <1>2
  <2>7. PICK c, t, d : c = at[i] /\ t = tokens[k] /\ d = at[k]
    OBVIOUS
  <2>8. <<c, t, d>> \in Copies(all) /\ o \in Fronts(all, c)
    BY <2>3, <2>4, <2>7 DEF G
  <2>9. GotBack(all, d, Encoded(t, rs[i]).r, main, length, Step(Heard(rs[i], main, length, o), Encoded(t, rs[i]).symbol))
    BY <2>5, <2>8, StepFact, Zenon
  <2>10. PICK more \in Fronts(all, at[k]) : Step(x, symbols[k]) = Heard(rs[k], main, length, more)
    BY <2>3, <2>6, <2>7, <2>9, Zenon DEF GotBack
  <2>11. Step(x, symbols[k]) \in H(k)
    BY <2>10, <1>8, Zenon
  <2> QED
    BY <2>1, <2>2, <2>11, <1>6
<1> HIDE DEF start
<1>11. Ascends(S, m, F)
  BY <1>7, <1>10 DEF Ascends
<1>12. ASSUME NEW f, Climbs(f, S, start, m, F) PROVE Follows(acc, S, start, m, F)
  <2>1. /\ f = [k \in 0..m |-> f[k]] /\ f[0] = start
        /\ \A k \in 1..m : f[k - 1] \in S[k - 1] /\ f[k] = F[<<k, f[k - 1]>>]
        /\ \A k \in 0..m : k = 0 \/ k \in 1..m
    BY <1>1, <1>12, ClimbIs
  <2>2. \A k \in 0..m : f[k] = IF k = 0 THEN start ELSE Step(f[k - 1], symbols[k])
    BY <2>1, <1>7, <1>10
  <2>3. R(f) = [k \in 0..m |-> f[k]]
    BY <2>2
  <2>4. acc = R(acc)
    BY <2>1, <2>3 DEF acc
  <2>5. acc[0] = start /\ \A k \in 1..m : acc[k] = Step(acc[k - 1], symbols[k])
    <3>1. 0 \in 0..m /\ \A k \in 1..m : k \in 0..m /\ k # 0
      BY <1>1
    <3> QED
      BY <2>4, <3>1
  <2> QED
    BY <2>5, <1>7, <1>10 DEF Follows
<1>13. acc[m] \in H(m)
  <2>1. m \in 0..m
    BY <1>1
  <2>2. acc[m] \in S[m]
    BY <1>1, <1>9, <1>11, <1>12, FoldFact
  <2> QED
    BY <2>1, <2>2, <1>6
<1>14. PICK more \in Fronts(all, at[m]) : acc[m] = Heard(rs[m], main, length, more)
  BY <1>8, <1>13, Zenon
<1> QED
  BY <1>3, <1>5, <1>14, Zenon DEF m, symbols, start, Hears, GotBack

-----------------------------------------------------------------------------
(* The trees of a block. *)

LEMMA NoTreeFact ==
    ASSUME NEW n \in Nat
    PROVE  NoTree(n) \in [1..n -> 0..MaxCodeLen] /\ NoTree(n) \in [1..n -> Nat]
<1>1. MaxCodeLen \in Nat
  BY CodeLenAssumption
<1> QED
  BY <1>1 DEF NoTree

LEMMA FrequenciesFact ==
    ASSUME NEW n \in Nat, NEW values \in Seq(-1..n - 1)
    PROVE  Frequencies(n, values) \in [1..n -> Nat]
<1> DEFINE m == Len(values)
           X == [1..n -> Nat]
           E(g, v) == IF v < 0 THEN g ELSE [g EXCEPT ![v + 1] = @ + 1]
           start == NoTree(n)
           R(g) == [k \in 0..m |-> IF k = 0 THEN start ELSE E(g[k - 1], values[k])]
           acc == CHOOSE g : g = R(g)
<1>1. m \in Nat /\ \A k \in 1..m : values[k] \in -1..n - 1
  OBVIOUS
<1>2. Frequencies(n, values) = acc[m]
  BY DEF Frequencies, Folded
<1> DEFINE S == [k \in 0..m |-> X]
           F == [t \in (1..m) \X X |-> E(t[2], values[t[1]])]
<1>3. \A k \in 0..m : S[k] = X
  OBVIOUS
<1>4. \A k \in 1..m : \A x \in X : F[<<k, x>>] = E(x, values[k])
  OBVIOUS
<1>5. start \in X
  BY NoTreeFact
<1>6. \A v \in -1..n - 1 : \A x \in X : E(x, v) \in X
  <2> TAKE v \in -1..n - 1
  <2> TAKE x \in X
  <2>1. CASE v < 0
    BY <2>1
  <2>2. CASE ~(v < 0)
    <3>1. PICK i \in 1..n : i = v + 1
      BY <2>2
    <3>2. [x EXCEPT ![i] = @ + 1] \in X
      OBVIOUS
    <3> QED
      BY <2>2, <3>1, <3>2
  <2> QED
    BY <2>1, <2>2
<1> HIDE DEF S, F, X, E, acc, m, start
<1>7. start \in S[0]
  <2>1. 0 \in 0..m
    BY <1>1
  <2> QED
    BY <2>1, <1>3, <1>5
<1>8. ASSUME NEW k \in 1..m, NEW x \in S[k - 1] PROVE x \in X /\ E(x, values[k]) \in S[k]
  <2>1. k - 1 \in 0..m /\ k \in 0..m
    BY <1>1
  <2>2. x \in X
    BY <2>1, <1>3
  <2>3. E(x, values[k]) \in X
    BY <2>2, <1>1, <1>6
  <2> QED
    BY <2>1, <2>2, <2>3, <1>3
<1>9. Ascends(S, m, F)
  BY <1>4, <1>8 DEF Ascends
<1>10. ASSUME NEW f, Climbs(f, S, start, m, F) PROVE Follows(acc, S, start, m, F)
  <2>1. /\ f = [k \in 0..m |-> f[k]] /\ f[0] = start
        /\ \A k \in 1..m : f[k - 1] \in S[k - 1] /\ f[k] = F[<<k, f[k - 1]>>]
        /\ \A k \in 0..m : k = 0 \/ k \in 1..m
    BY <1>1, <1>10, ClimbIs
  <2>2. \A k \in 0..m : f[k] = IF k = 0 THEN start ELSE E(f[k - 1], values[k])
    BY <2>1, <1>4, <1>8
  <2>3. R(f) = [k \in 0..m |-> f[k]]
    BY <2>2
  <2>4. acc = R(acc)
    BY <2>1, <2>3 DEF acc
  <2>5. acc[0] = start /\ \A k \in 1..m : acc[k] = E(acc[k - 1], values[k])
    <3>1. 0 \in 0..m /\ \A k \in 1..m : k \in 0..m /\ k # 0
      BY <1>1
    <3> QED
      BY <2>4, <3>1
  <2> QED
    BY <2>5, <1>4, <1>8 DEF Follows
<1>11. acc[m] \in X
  <2>1. m \in 0..m
    BY <1>1
  <2>2. acc[m] \in S[m]
    BY <1>1, <1>7, <1>9, <1>10, FoldFact
  <2> QED
    BY <2>1, <2>2, <1>3
<1> QED
  BY <1>2, <1>11 DEF X

\* The sequence with its elements evaluated is the sequence.
LEMMA EvaluatedFact ==
    ASSUME NEW X, NEW s \in Seq(X)
    PROVE  Evaluated(s) = s
<1>1. <<>> \in Seq(X) /\ Len(<<>>) = 0
  OBVIOUS
<1>2. PICK e : e = <<>> /\ e \in Seq(X) /\ Len(e) = 0
  BY <1>1
<1> DEFINE t == s \o e
<1>3. t \in Seq(X) /\ Len(t) = Len(s) + Len(e) /\ Len(s) \in Nat /\ \A k \in 1..Len(s) : t[k] = s[k]
  BY <1>2, ConcatFacts
<1> HIDE DEF t
<1>4. Len(t) = Len(s) /\ \A k \in 1..Len(t) : t[k] = s[k]
  BY <1>2, <1>3
<1>5. t = s
  BY <1>3, <1>4, SeqSame
<1>6. s \o e = s
  BY <1>5 DEF t
<1> QED
  BY <1>2, <1>6, Zenon DEF Evaluated

PathLengths(n) == [1..n -> 0..MaxCodeLen]

\* The lengths of the sections.
Extent == <<Bytes, 8 * PositionSlots, LengthSyms>>

LEMMA LensFact ==
    /\ Bytes \in Nat /\ 8 * PositionSlots \in Nat /\ LengthSyms \in Nat /\ MainLen \in Nat
    /\ MainLen = Bytes + 8 * PositionSlots
    /\ \A s \in 1..3 : Extent[s] \in Nat
<1>1. Bytes \in Nat /\ LengthSyms \in Nat /\ PositionSlots \in 4..50
  BY LzxAssumption
<1>2. 8 * PositionSlots \in Nat
  BY <1>1
<1>3. MainLen = Bytes + 8 * PositionSlots
  BY DEF MainLen
<1>4. \A s \in 1..3 : Extent[s] \in Nat
  <2> DEFINE e == 8 * PositionSlots
  <2>1. e \in Nat
    BY <1>2
  <2>2. Extent = <<Bytes, e, LengthSyms>>
    BY DEF Extent
  <2> HIDE DEF e
  <2>3. <<Bytes, e, LengthSyms>>[1] \in Nat /\ <<Bytes, e, LengthSyms>>[2] \in Nat /\ <<Bytes, e, LengthSyms>>[3] \in Nat
    BY <1>1, <2>1
  <2> QED
    BY <2>2, <2>3
<1> QED
  BY <1>1, <1>2, <1>3, <1>4

LEMMA SectionsFact ==
    ASSUME NEW main \in PathLengths(MainLen), NEW length \in PathLengths(LengthSyms)
    PROVE  /\ \A s \in 1..3 : Sections(main, length)[s] \in PathLengths(Extent[s])
           /\ Sections(main, length) \in Seq(Seq(0..MaxCodeLen)) /\ Len(Sections(main, length)) = 3
           /\ Sections(main, length)[1] \o Sections(main, length)[2] = main
           /\ Sections(main, length)[3] = length
<1> DEFINE X == 0..MaxCodeLen
           e == 8 * PositionSlots
           a == SubSeq(main, 1, Bytes)
           b == SubSeq(main, Bytes + 1, MainLen)
<1>1. Bytes \in Nat /\ e \in Nat /\ LengthSyms \in Nat /\ MainLen \in Nat /\ MainLen = Bytes + e
  BY LensFact
<1>2. \A n \in Nat : PathLengths(n) = [1..n -> X]
  BY DEF PathLengths
<1>3. Extent[1] = Bytes /\ Extent[2] = e /\ Extent[3] = LengthSyms
  BY DEF Extent
<1>4. Sections(main, length) = <<a, b, length>>
  BY DEF Sections
<1> HIDE DEF X, e
<1>5. main \in Seq(X) /\ Len(main) = MainLen /\ length \in Seq(X)
  BY <1>1, <1>2
<1>6. a \in Seq(X) /\ b \in Seq(X) /\ Len(a) = Bytes /\ Len(b) = e /\ a \o b = main
  <2>1. PICK p \in 1..(Len(main) + 1) : p = Bytes + 1 /\ p - 1 = Bytes
    BY <1>1, <1>5
  <2>2. /\ SubSeq(main, 1, p - 1) \in Seq(X) /\ SubSeq(main, p, Len(main)) \in Seq(X)
        /\ Len(SubSeq(main, 1, p - 1)) = p - 1 /\ Len(SubSeq(main, p, Len(main))) = Len(main) - p + 1
        /\ SubSeq(main, 1, p - 1) \o SubSeq(main, p, Len(main)) = main
    BY <1>5, Cut
  <2>3. a = SubSeq(main, 1, p - 1) /\ b = SubSeq(main, p, Len(main))
    BY <2>1, <1>5
  <2>4. Len(main) - p + 1 = e
    BY <2>1, <1>1, <1>5
  <2> HIDE DEF a, b
  <2> QED
    BY <2>1, <2>2, <2>3, <2>4
<1> HIDE DEF a, b
<1>7. <<a, b, length>> \in Seq(Seq(X)) /\ Len(<<a, b, length>>) = 3
      /\ <<a, b, length>>[1] = a /\ <<a, b, length>>[2] = b /\ <<a, b, length>>[3] = length
  BY <1>5, <1>6
<1> DEFINE t == <<a, b, length>>
<1> HIDE DEF t
<1>8. t \in Seq(Seq(X)) /\ Len(t) = 3 /\ t[1] = a /\ t[2] = b /\ t[3] = length /\ Sections(main, length) = t
  BY <1>4, <1>7 DEF t
<1>9. a \in [1..Bytes -> X] /\ b \in [1..e -> X] /\ length \in [1..LengthSyms -> X]
  BY <1>1, <1>2, <1>6
<1>10. \A s \in 1..3 : t[s] \in [1..Extent[s] -> X]
  BY <1>3, <1>8, <1>9
<1>11. \A s \in 1..3 : t[s] \in PathLengths(Extent[s])
  BY <1>2, <1>10, LensFact
<1>12. Seq(Seq(X)) = Seq(Seq(0..MaxCodeLen))
  BY DEF X
<1> QED
  BY <1>6, <1>8, <1>11, <1>12

LEMMA EvaluatedThree ==
    ASSUME NEW X, NEW n \in Nat, NEW g \in [1..n -> X]
    PROVE  Evaluated(g) = g
<1>1. g \in Seq(X)
  OBVIOUS
<1> QED
  BY <1>1, EvaluatedFact

LEMMA TreesWide ==
    ASSUME NEW n \in Nat, NEW t \in PathLengths(n)
    PROVE  t \in [1..n -> 0..16]
<1>1. \A x \in 0..MaxCodeLen : x \in 0..16
  BY CodeLenAssumption
<1> DEFINE X == 0..MaxCodeLen
           Y == 0..16
<1>2. t \in [1..n -> X] /\ \A x \in X : x \in Y
  BY <1>1 DEF PathLengths
<1> HIDE DEF X, Y
<1>3. t \in [1..n -> Y]
  BY <1>2
<1> QED
  BY <1>3 DEF Y

LEMMA SeqAsFunction ==
    ASSUME NEW X, NEW s \in Seq(X)
    PROVE  /\ s \in [1..Len(s) -> X] /\ s = [k \in 1..Len(s) |-> s[k]]
           /\ \A k \in 1..Len(s) : s[k] \in X
OBVIOUS

\* The ops that send two trees.
Sent(main, length, main2, length2, planned, trees) ==
    \A s \in 1..3 :
        /\ planned[s] = plan_symbols(Sections(main, length)[s], Sections(main2, length2)[s])
        /\ trees[s] = ensure_multi_symbol(planned[s], Sections(main, length)[s])
        /\ ~MakesRun(planned[s])

\* What the decoder makes of the ops of three sections.
LEMMA ReceivedFact ==
    ASSUME NEW main \in PathLengths(MainLen), NEW length \in PathLengths(LengthSyms),
           NEW main2 \in PathLengths(MainLen), NEW length2 \in PathLengths(LengthSyms),
           NEW planned, NEW trees,
           Sent(main, length, main2, length2, planned, trees)
    PROVE  Received(main, length, trees) = Sections(main2, length2)
<1> DEFINE old == Sections(main, length)
           new == Sections(main2, length2)
           g == [s \in 1..3 |-> Decoded(old[s], trees[s])]
           X == Seq(0..MaxCodeLen)
<1>1. /\ \A s \in 1..3 : old[s] \in PathLengths(Extent[s])
      /\ \A s \in 1..3 : new[s] \in PathLengths(Extent[s])
      /\ new \in Seq(X) /\ Len(new) = 3
  BY SectionsFact
<1>2. \A n \in Nat : \A t \in PathLengths(n) : t \in [1..n -> 0..16]
  BY TreesWide
<1>3. Received(main, length, trees) = Evaluated(g)
  BY DEF Received
<1>4. \A s \in 1..3 : g[s] = Decoded(old[s], trees[s])
  OBVIOUS
<1>40. g = [s \in 1..3 |-> g[s]]
  OBVIOUS
<1> HIDE DEF g, X
<1>5. ASSUME NEW s \in 1..3 PROVE g[s] = new[s]
  <2>1. PICK n \in Nat : n = Extent[s]
    BY LensFact
  <2> DEFINE o == old[s]
             w == new[s]
  <2>2. o \in [1..n -> 0..16] /\ w \in [1..n -> 0..16]
    BY <1>1, <1>2, <2>1
  <2>3. planned[s] = plan_symbols(o, w) /\ trees[s] = ensure_multi_symbol(planned[s], o) /\ ~MakesRun(planned[s])
    BY DEF Sent
  <2> HIDE DEF o, w
  <2>4. ~MakesRun(plan_symbols(o, w)) /\ trees[s] = ensure_multi_symbol(plan_symbols(o, w), o)
    BY <2>3
  <2>5. Decoded(o, ensure_multi_symbol(plan_symbols(o, w), o)) = w
    BY <2>2, <2>4, TreeComesBack
  <2> QED
    BY <2>4, <2>5, <1>4 DEF o, w
<1> HIDE DEF old, new
<1>6. new = [s \in 1..3 |-> new[s]] /\ \A s \in 1..3 : new[s] \in X
  BY <1>1, SeqAsFunction, Zenon
<1>7. g = new /\ new \in [1..3 -> X]
  BY <1>40, <1>5, <1>6
<1>8. Evaluated(new) = new
  <2>1. PICK n \in Nat : n = 3
    OBVIOUS
  <2>2. new \in [1..n -> X]
    BY <1>7, <2>1
  <2> QED
    BY <2>2, EvaluatedThree
<1> QED
  BY <1>3, <1>7, <1>8 DEF new

LEMMA BlockTreesFact ==
    ASSUME NEW symbols \in Seq(Syms)
    PROVE  LET mains   == Evaluated([k \in DOMAIN symbols |-> symbols[k].main])
               longs   == Evaluated([k \in DOMAIN symbols |-> symbols[k].long])
               freqs   == Evaluated(<<Frequencies(MainLen, mains), Frequencies(LengthSyms, longs)>>)
               lengths == Evaluated([t \in 1..2 |-> Evaluated(build_path_lengths(freqs[t]))])
           IN  lengths[1] \in PathLengths(MainLen) /\ lengths[2] \in PathLengths(LengthSyms)
<1> DEFINE ms      == [k \in DOMAIN symbols |-> symbols[k].main]
           ls      == [k \in DOMAIN symbols |-> symbols[k].long]
           mains   == Evaluated(ms)
           longs   == Evaluated(ls)
           fm      == Frequencies(MainLen, mains)
           fl      == Frequencies(LengthSyms, longs)
           fs      == <<fm, fl>>
           freqs   == Evaluated(fs)
           bl      == [t \in 1..2 |-> Evaluated(build_path_lengths(freqs[t]))]
           lengths == Evaluated(bl)
<1>0. MainLen \in Nat /\ LengthSyms \in Nat
  BY LensFact
<1>1. PICK m \in Nat : DOMAIN symbols = 1..m /\ \A k \in 1..m : symbols[k] \in Syms
  OBVIOUS
<1>2. \A k \in 1..m : symbols[k].main \in 0..MainLen - 1 /\ symbols[k].long \in -1..LengthSyms - 1
  BY <1>1 DEF Syms
<1>3. mains \in Seq(-1..MainLen - 1)
  <2> DEFINE Y == -1..MainLen - 1
  <2>1. \A k \in 1..m : symbols[k].main \in Y
    BY <1>0, <1>2
  <2> HIDE DEF Y
  <2>2. ms \in [1..m -> Y]
    BY <1>1, <2>1
  <2> HIDE DEF ms
  <2>3. ms \in Seq(Y)
    BY <2>2
  <2>4. Evaluated(ms) = ms
    BY <2>3, EvaluatedFact
  <2> QED
    BY <2>3, <2>4 DEF Y
<1>4. longs \in Seq(-1..LengthSyms - 1)
  <2> DEFINE Y == -1..LengthSyms - 1
  <2>1. \A k \in 1..m : symbols[k].long \in Y
    BY <1>2
  <2> HIDE DEF Y
  <2>2. ls \in [1..m -> Y]
    BY <1>1, <2>1
  <2> HIDE DEF ls
  <2>3. ls \in Seq(Y)
    BY <2>2
  <2>4. Evaluated(ls) = ls
    BY <2>3, EvaluatedFact
  <2> QED
    BY <2>3, <2>4 DEF Y
<1> HIDE DEF mains, longs, ms, ls
<1>5. fm \in [1..MainLen -> Nat] /\ fl \in [1..LengthSyms -> Nat]
  BY <1>0, <1>3, <1>4, FrequenciesFact
<1> HIDE DEF fm, fl
<1>6. freqs[1] = fm /\ freqs[2] = fl
  <2> DEFINE Y == {fm, fl}
  <2>1. fs \in Seq(Y) /\ fs[1] = fm /\ fs[2] = fl
    OBVIOUS
  <2> HIDE DEF fs, Y
  <2>2. Evaluated(fs) = fs
    BY <2>1, EvaluatedFact
  <2> QED
    BY <2>1, <2>2
<1> HIDE DEF fs, freqs
<1> DEFINE b1 == build_path_lengths(fm)
           b2 == build_path_lengths(fl)
<1>7. b1 \in PathLengths(MainLen) /\ b2 \in PathLengths(LengthSyms)
  <2>1. b1 \in [1..MainLen -> 0..MaxCodeLen]
    BY <1>0, <1>5, PathLengthsFact
  <2>2. b2 \in [1..LengthSyms -> 0..MaxCodeLen]
    BY <1>0, <1>5, PathLengthsFact
  <2> HIDE DEF b1, b2
  <2> QED
    BY <2>1, <2>2 DEF PathLengths
<1>8. bl = [t \in 1..2 |-> bl[t]] /\ bl[1] = Evaluated(b1) /\ bl[2] = Evaluated(b2)
  BY <1>6
<1> HIDE DEF b1, b2, bl
<1>9. Evaluated(b1) = b1 /\ Evaluated(b2) = b2
  <2>1. \A n \in Nat : \A g \in PathLengths(n) : Evaluated(g) = g
    BY EvaluatedThree, Zenon DEF PathLengths
  <2> QED
    BY <2>1, <1>0, <1>7
<1>10. Evaluated(bl) = bl
  <2> DEFINE Y == {bl[1], bl[2]}
  <2>1. \A t \in 1..2 : bl[t] \in Y
    OBVIOUS
  <2> HIDE DEF Y
  <2>2. PICK n \in Nat : n = 2
    OBVIOUS
  <2>3. bl \in [1..n -> Y]
    BY <1>8, <2>1, <2>2
  <2> QED
    BY <2>3, EvaluatedThree
<1>11. lengths[1] \in PathLengths(MainLen) /\ lengths[2] \in PathLengths(LengthSyms)
  BY <1>7, <1>8, <1>9, <1>10
<1> QED
  BY <1>11 DEF lengths, bl, freqs, fs, fm, fl, mains, longs, ms, ls

\* A verbatim block: its symbols, and its trees, which a decoder with the trees before it gets back.
LEMMA VerbatimFact ==
    ASSUME NEW tokens \in Seq(Tokens), main_prev \in PathLengths(MainLen), length_prev \in PathLengths(LengthSyms),
           NEW encoded, encoded = AllEncoded(avoid_single_symbol_length_tree(tokens), r),
           encoded.symbols \in Seq(Syms)
    PROVE  /\ Verbatim(tokens).type = "verbatim"
           /\ Verbatim(tokens).main \in PathLengths(MainLen) /\ Verbatim(tokens).length \in PathLengths(LengthSyms)
           /\ Verbatim(tokens).symbols = encoded.symbols /\ Verbatim(tokens).r = encoded.r
           /\ ~Verbatim(tokens).runs =>
                Received(main_prev, length_prev, Verbatim(tokens).trees)
                = Sections(Verbatim(tokens).main, Verbatim(tokens).length)
<1> DEFINE mains   == Evaluated([k \in DOMAIN encoded.symbols |-> encoded.symbols[k].main])
           longs   == Evaluated([k \in DOMAIN encoded.symbols |-> encoded.symbols[k].long])
           freqs   == Evaluated(<<Frequencies(MainLen, mains), Frequencies(LengthSyms, longs)>>)
           lengths == Evaluated([t \in 1..2 |-> Evaluated(build_path_lengths(freqs[t]))])
           main    == lengths[1]
           length  == lengths[2]
           old     == Sections(main_prev, length_prev)
           new     == Sections(main, length)
           pl      == [s \in 1..3 |-> plan_symbols(old[s], new[s])]
           planned == Evaluated(pl)
           tr      == [s \in 1..3 |-> ensure_multi_symbol(planned[s], old[s])]
           trees   == Evaluated(tr)
           runs    == \E s \in 1..3 : MakesRun(planned[s])
           block1  == [type |-> "verbatim", main |-> main, length |-> length, r |-> encoded.r,
                       trees |-> trees, runs |-> runs, symbols |-> encoded.symbols]
<1>1. Verbatim(tokens) = block1
  BY Zenon DEF Verbatim
<1>2. main \in PathLengths(MainLen) /\ length \in PathLengths(LengthSyms)
  <2> DEFINE symbols == encoded.symbols
  <2>1. symbols \in Seq(Syms)
    OBVIOUS
  <2> HIDE DEF symbols
  <2>2. LET ms == Evaluated([k \in DOMAIN symbols |-> symbols[k].main])
            ls == Evaluated([k \in DOMAIN symbols |-> symbols[k].long])
            fs == Evaluated(<<Frequencies(MainLen, ms), Frequencies(LengthSyms, ls)>>)
            bs == Evaluated([t \in 1..2 |-> Evaluated(build_path_lengths(fs[t]))])
        IN  bs[1] \in PathLengths(MainLen) /\ bs[2] \in PathLengths(LengthSyms)
    BY <2>1, BlockTreesFact
  <2> QED
    BY <2>2, Zenon DEF symbols
<1> HIDE DEF main, length
<1>3. \A s \in 1..3 : planned[s] = plan_symbols(old[s], new[s])
  <2> DEFINE Y == {pl[s] : s \in 1..3}
  <2>1. \A s \in 1..3 : pl[s] \in Y /\ pl[s] = plan_symbols(old[s], new[s])
    OBVIOUS
  <2>2. pl = [s \in 1..3 |-> pl[s]]
    OBVIOUS
  <2> HIDE DEF pl, Y
  <2>3. PICK n \in Nat : n = 3
    OBVIOUS
  <2>4. pl \in [1..n -> Y]
    BY <2>1, <2>2, <2>3
  <2>5. Evaluated(pl) = pl
    BY <2>4, EvaluatedThree
  <2> QED
    BY <2>1, <2>5
<1> HIDE DEF planned, pl
<1>4. \A s \in 1..3 : trees[s] = ensure_multi_symbol(planned[s], old[s])
  <2> DEFINE Y == {tr[s] : s \in 1..3}
  <2>1. \A s \in 1..3 : tr[s] \in Y /\ tr[s] = ensure_multi_symbol(planned[s], old[s])
    OBVIOUS
  <2>2. tr = [s \in 1..3 |-> tr[s]]
    OBVIOUS
  <2> HIDE DEF tr, Y
  <2>3. PICK n \in Nat : n = 3
    OBVIOUS
  <2>4. tr \in [1..n -> Y]
    BY <2>1, <2>2, <2>3
  <2>5. Evaluated(tr) = tr
    BY <2>4, EvaluatedThree
  <2> QED
    BY <2>1, <2>5
<1> HIDE DEF trees, tr
<1>5. ASSUME ~runs PROVE Received(main_prev, length_prev, trees) = Sections(main, length)
  <2>1. Sent(main_prev, length_prev, main, length, planned, trees)
    BY <1>3, <1>4, <1>5 DEF Sent
  <2> QED
    BY <1>2, <2>1, ReceivedFact
<1> DEFINE run == runs
<1>6. block1 = [type |-> "verbatim", main |-> main, length |-> length, r |-> encoded.r,
                trees |-> trees, runs |-> run, symbols |-> encoded.symbols]
  OBVIOUS
<1> HIDE DEF run, block1
<1>7. block1.type = "verbatim" /\ block1.main = main /\ block1.length = length /\ block1.r = encoded.r
      /\ block1.trees = trees /\ block1.runs = run /\ block1.symbols = encoded.symbols
  BY <1>6
<1>8. ~block1.runs => Received(main_prev, length_prev, trees) = Sections(main, length)
  BY <1>5, <1>7, Zenon DEF run
<1> QED
  BY <1>1, <1>2, <1>7, <1>8, Zenon

\* The decoder's state after the trees of a block, and after an uncompressed one.
Ready(state, main, length) == [state EXCEPT !.main = main, !.length = length]
Opened(state, out, q) == [state EXCEPT !.out = out, !.r = q]

LEMMA ReadyFact ==
    ASSUME NEW q, NEW main, NEW length, NEW out, NEW main2, NEW length2
    PROVE  Ready(Heard(q, main, length, out), main2, length2) = Heard(q, main2, length2, out)
<1> PICK no : no = FALSE
  OBVIOUS
<1> DEFINE T == [r : {q}, main : {main, main2}, length : {length, length2}, out : {out}, lost : {no}]
           Rec(a, b) == [r |-> q, main |-> a, length |-> b, out |-> out, lost |-> no]
           s == Rec(main, length)
           t == Ready(s, main2, length2)
<1>1. \A a, b : Heard(q, a, b, out) = Rec(a, b)
  BY DEF Heard
<1>2. s \in T /\ s.r = q /\ s.main = main /\ s.length = length /\ s.out = out /\ s.lost = no
  OBVIOUS
<1> HIDE DEF s
<1>3. t \in T /\ t.r = q /\ t.main = main2 /\ t.length = length2 /\ t.out = out /\ t.lost = no
  BY <1>2 DEF Ready
<1> HIDE DEF t
<1>4. t = Rec(main2, length2)
  BY <1>3
<1> QED
  BY <1>1, <1>4 DEF t, s

LEMMA AfterVerbatim ==
    ASSUME NEW q, NEW main \in PathLengths(MainLen), NEW length \in PathLengths(LengthSyms), NEW out, NEW b,
           b.type = "verbatim", b.main \in PathLengths(MainLen), b.length \in PathLengths(LengthSyms),
           Received(main, length, b.trees) = Sections(b.main, b.length)
    PROVE  AfterBlock(Heard(q, main, length, out), b) = Hears(Heard(q, b.main, b.length, out), b.symbols)
<1> DEFINE state == Heard(q, main, length, out)
           new   == Received(state.main, state.length, b.trees)
           ready == [state EXCEPT !.main = new[1] \o new[2], !.length = new[3]]
<1>1. state.lost = FALSE /\ state.main = main /\ state.length = length
  BY DEF Heard
<1>2. b.type # "uncompressed"
  OBVIOUS
<1>3. new = Sections(b.main, b.length)
  BY <1>1
<1>4. AfterBlock(state, b) = Folded(Step, ready, b.symbols)
  <2> HIDE DEF state
  <2> DEFINE U == [state EXCEPT !.out = @ \o b.bytes, !.r = Initial]
             L == [ready EXCEPT !.lost = TRUE]
             G == Folded(Step, ready, b.symbols)
  <2>1. AfterBlock(state, b) = IF state.lost THEN state
                               ELSE IF b.type = "uncompressed" THEN U
                               ELSE IF new # Sections(b.main, b.length) THEN L ELSE G
    BY Zenon DEF AfterBlock
  <2> HIDE DEF U, L, G, new, ready
  <2>2. AfterBlock(state, b) = G
    BY <1>1, <1>2, <1>3, <2>1
  <2> QED
    BY <2>2 DEF G
<1>5. Sections(b.main, b.length)[1] \o Sections(b.main, b.length)[2] = b.main /\ Sections(b.main, b.length)[3] = b.length
  BY SectionsFact
<1>6. ready = Heard(q, b.main, b.length, out)
  <2> DEFINE m2 == new[1] \o new[2]
             l2 == new[3]
  <2>1. m2 = b.main /\ l2 = b.length
    BY <1>3, <1>5
  <2> HIDE DEF m2, l2
  <2>2. Ready(Heard(q, main, length, out), m2, l2) = Heard(q, m2, l2, out)
    BY ReadyFact
  <2> QED
    BY <2>1, <2>2, Zenon DEF m2, l2, Ready
<1> QED
  BY <1>4, <1>6, Zenon DEF Hears

LEMMA OpenFact ==
    ASSUME NEW q, NEW main, NEW length, NEW out, NEW more, NEW next
    PROVE  Opened(Heard(q, main, length, out), more, next) = Heard(next, main, length, more)
<1> PICK no : no = FALSE
  OBVIOUS
<1> DEFINE T == [r : {q, next}, main : {main}, length : {length}, out : {out, more}, lost : {no}]
           Rec(a, b) == [r |-> a, main |-> main, length |-> length, out |-> b, lost |-> no]
           s == Rec(q, out)
           t == Opened(s, more, next)
<1>1. \A a, b : Heard(a, main, length, b) = Rec(a, b)
  BY DEF Heard
<1>2. s \in T /\ s.r = q /\ s.main = main /\ s.length = length /\ s.out = out /\ s.lost = no
  OBVIOUS
<1> HIDE DEF s
<1>3. t \in T /\ t.r = next /\ t.main = main /\ t.length = length /\ t.out = more /\ t.lost = no
  BY <1>2 DEF Opened
<1> HIDE DEF t
<1>4. t = Rec(next, more)
  BY <1>3
<1> QED
  BY <1>1, <1>4 DEF t, s

LEMMA AfterUncompressed ==
    ASSUME NEW q, NEW main, NEW length, NEW out, NEW bytes
    PROVE  AfterBlock(Heard(q, main, length, out), Uncompressed(bytes))
           = Heard(Initial, main, length, out \o bytes)
<1> DEFINE b == Uncompressed(bytes)
           state == Heard(q, main, length, out)
           more == out \o bytes
<1>1. b.type = "uncompressed" /\ b.bytes = bytes
  BY DEF Uncompressed
<1>2. state.lost = FALSE /\ state.out = out
  BY DEF Heard
<1> HIDE DEF b
<1>3. AfterBlock(state, b) = [state EXCEPT !.out = state.out \o bytes, !.r = Initial]
  <2> HIDE DEF state
  <2> QED
    BY <1>1, <1>2, Zenon DEF AfterBlock
<1>4. AfterBlock(state, b) = Heard(Initial, main, length, more)
  <2>1. Opened(state, more, Initial) = Heard(Initial, main, length, more)
    <3> HIDE DEF more
    <3> QED
      BY OpenFact
  <2> HIDE DEF state
  <2> QED
    BY <1>2, <1>3, <2>1, Zenon DEF Opened
<1> QED
  BY <1>4, Zenon DEF b, state

-----------------------------------------------------------------------------
(* The invariant. *)

Typed ==
    /\ strategy \in Strategies /\ slab \in Chunks \cup {<<>>}
    /\ r \in Rs /\ main_prev \in PathLengths(MainLen) /\ length_prev \in PathLengths(LengthSyms)
    /\ fed \in Seq(0..Bytes - 1)
    /\ block.type = "verbatim" => block.symbols \in Seq(Syms)

Window ==
    /\ history \in Seq(0..Bytes - 1) /\ base \in Nat
    /\ Len(history) < 2 * (MaxOffset + ChunkMax)
    /\ base = 0 \/ Len(history) >= MaxOffset
    /\ inserted \subseteq base + 1..base + Len(history)

InStep ==
    stale = {} =>
        /\ decoder = Heard(r, main_prev, length_prev, fed)
        /\ \E n \in 0..Len(fed) : history = SubSeq(fed, n + 1, Len(fed))

IInv == Typed /\ Window /\ InStep

-----------------------------------------------------------------------------
(* The window. *)

LEMMA TrimmedFact ==
    ASSUME NEW bytes \in Seq(0..Bytes - 1)
    PROVE  /\ Trimmed(bytes) \in 0..Len(bytes)
           /\ Len(bytes) - Trimmed(bytes) < 2 * (MaxOffset + ChunkMax)
           /\ Trimmed(bytes) # 0 => Len(bytes) - Trimmed(bytes) >= MaxOffset
<1>1. PICK keep \in Nat : keep = MaxOffset + ChunkMax /\ keep >= MaxOffset /\ keep > 0
  <2>1. MaxOffset \in Nat \ {0} /\ ChunkMax \in Nat
    BY OffsetsFact, LzxAssumption
  <2> HIDE DEF MaxOffset
  <2> QED
    BY <2>1
<1>2. PICK l \in Nat : l = Len(bytes)
  OBVIOUS
<1>3. MaxOffset \in Nat
  BY OffsetsFact
<1>4. Trimmed(bytes) = IF l >= 2 * keep THEN l - keep ELSE 0
  <2> DEFINE K == MaxOffset + ChunkMax
             L == Len(bytes)
  <2>1. Trimmed(bytes) = IF L >= 2 * K THEN L - K ELSE 0
    BY Zenon DEF Trimmed
  <2>2. L = l /\ K = keep
    BY <1>1, <1>2
  <2> HIDE DEF K, L
  <2> QED
    BY <2>1, <2>2, Zenon
<1> HIDE DEF MaxOffset
<1> DEFINE t == IF l >= 2 * keep THEN l - keep ELSE 0
<1>5. t \in Int /\ t = Trimmed(bytes) /\ t = IF l >= 2 * keep THEN l - keep ELSE 0
  BY <1>4
<1> HIDE DEF t
<1>6. t \in 0..l /\ l - t < 2 * keep /\ (t # 0 => l - t >= MaxOffset)
  BY <1>1, <1>3, <1>5
<1> QED
  BY <1>1, <1>2, <1>5, <1>6

\* The match finder goes on with the end of what it had and was given, and has still
\* what an offset can reach.
LEMMA FeedFact ==
    ASSUME Window, NEW input \in Seq(0..Bytes - 1), NEW chain,
           chain \subseteq 1..base + Len(history \o input), Feed(input, chain)
    PROVE  /\ Window'
           /\ \E d \in 0..Len(history \o input) :
                history' = SubSeq(history \o input, d + 1, Len(history \o input))
<1> DEFINE Y == 0..Bytes - 1
           bytes == history \o input
           drop == Trimmed(bytes)
<1>1. history \in Seq(Y) /\ base \in Nat /\ (base = 0 \/ Len(history) >= MaxOffset) /\ input \in Seq(Y)
  BY DEF Window
<1>2. history' = SubSeq(bytes, drop + 1, Len(bytes)) /\ base' = base + drop
      /\ inserted' = {q \in chain : q > base + drop}
  BY DEF Feed
<1>3. bytes \in Seq(Y) /\ Len(bytes) = Len(history) + Len(input) /\ Len(history) \in Nat /\ Len(input) \in Nat
  <2> HIDE DEF Y
  <2> QED
    BY <1>1, ConcatFacts
<1>4. /\ drop \in 0..Len(bytes)
      /\ Len(bytes) - drop < 2 * (MaxOffset + ChunkMax)
      /\ drop # 0 => Len(bytes) - drop >= MaxOffset
  <2>1. bytes \in Seq(0..Bytes - 1)
    BY <1>3
  <2> QED
    BY <2>1, TrimmedFact, Zenon
<1>5. MaxOffset \in Nat
  BY OffsetsFact
<1>6. chain \subseteq 1..base + Len(bytes)
  OBVIOUS
<1> HIDE DEF bytes, drop, MaxOffset, Y
<1>7. PICK l \in Nat : l = Len(bytes)
  BY <1>3
<1>8. history' \in Seq(Y) /\ Len(history') = l - drop
  <2>1. PICK p \in 1..(Len(bytes) + 1) : p = drop + 1
    BY <1>4, <1>7
  <2>2. SubSeq(bytes, p, Len(bytes)) \in Seq(Y) /\ Len(SubSeq(bytes, p, Len(bytes))) = Len(bytes) - p + 1
    BY <1>3, Cut
  <2>3. Len(bytes) - p + 1 = l - drop
    BY <2>1, <1>4, <1>7
  <2> QED
    BY <2>1, <2>2, <2>3, <1>2
<1>9. Len(history') < 2 * (MaxOffset + ChunkMax)
  BY <1>4, <1>7, <1>8
<1>10. base' \in Nat
  BY <1>1, <1>2, <1>4
<1>110. PICK d \in Nat, h \in Nat, b \in Nat, i \in Nat, h2 \in Nat :
        d = drop /\ h = Len(history) /\ b = base /\ i = Len(input) /\ h2 = Len(history')
        /\ l = h + i /\ h2 = l - d /\ base' = b + d /\ d <= l
  <2>1. drop \in Nat /\ Len(history) \in Nat /\ base \in Nat /\ Len(input) \in Nat
    BY <1>1, <1>3, <1>4, <1>7
  <2>2. l - drop \in Nat
    BY <1>4, <1>7
  <2>3. Len(history') \in Nat /\ l = Len(history) + Len(input) /\ drop <= l
    BY <1>3, <1>4, <1>7, <1>8, <2>2
  <2> QED
    BY <2>1, <2>3, <1>2, <1>8
<1>11. base' = 0 \/ Len(history') >= MaxOffset
  <2>1. b = 0 \/ h >= MaxOffset
    BY <1>1, <1>110
  <2>2. d # 0 => l - d >= MaxOffset
    BY <1>4, <1>7, <1>110
  <2>3. b + d = 0 \/ h2 >= MaxOffset
    BY <2>1, <2>2, <1>5, <1>110
  <2> QED
    BY <2>3, <1>110
<1>12. inserted' \subseteq base' + 1..base' + Len(history')
  <2>1. ASSUME NEW q \in inserted' PROVE q \in base' + 1..base' + Len(history')
    <3>1. q \in 1..b + l /\ q > b + d
      BY <1>2, <1>6, <1>7, <1>110
    <3>2. q \in b + d + 1..b + d + h2
      BY <3>1, <1>110
    <3> QED
      BY <3>2, <1>110
  <2> QED
    BY <2>1
<1>13. Window'
  BY <1>8, <1>9, <1>10, <1>11, <1>12 DEF Window, Y
<1>14. \E m \in 0..Len(bytes) : history' = SubSeq(bytes, m + 1, Len(bytes))
  BY <1>2, <1>4
<1> QED
  BY <1>13, <1>14 DEF bytes

\* h is what comes after the first n of all.
Ends(h, all, n) == Len(h) = Len(all) - n /\ \A k \in 1..Len(h) : h[k] = all[n + k]

LEMMA EndsFact ==
    ASSUME NEW Y, NEW all \in Seq(Y), NEW n \in 0..Len(all)
    PROVE  /\ SubSeq(all, n + 1, Len(all)) \in Seq(Y) /\ Ends(SubSeq(all, n + 1, Len(all)), all, n)
           /\ \A h \in Seq(Y) : Ends(h, all, n) => h = SubSeq(all, n + 1, Len(all))
<1> DEFINE w == SubSeq(all, n + 1, Len(all))
<1>1. PICK l \in Nat : l = Len(all)
  OBVIOUS
<1>2. w \in Seq(Y) /\ Len(w) = l - n /\ \A k \in 1..l - n : w[k] = all[n + k]
  BY <1>1
<1> HIDE DEF w
<1>3. ASSUME NEW h \in Seq(Y), Ends(h, all, n) PROVE h = w
  <2>1. Len(h) = l - n /\ \A k \in 1..Len(h) : h[k] = all[n + k]
    BY <1>1, <1>3 DEF Ends
  <2>2. Len(h) = Len(w) /\ \A k \in 1..Len(h) : h[k] = w[k]
    BY <2>1, <1>2
  <2> QED
    BY <2>2, <1>2, SeqSame
<1>4. Ends(w, all, n)
  BY <1>1, <1>2 DEF Ends
<1> QED
  BY <1>2, <1>3, <1>4 DEF w

TailOf(x, all) == \E m \in 0..Len(all) : x = SubSeq(all, m + 1, Len(all))

\* The end of an end.
LEMMA TailFact ==
    ASSUME NEW Y, NEW all \in Seq(Y), NEW input \in Seq(Y), NEW n \in 0..Len(all),
           NEW w \in Seq(Y), Ends(w, all, n), NEW d \in 0..Len(w \o input)
    PROVE  TailOf(SubSeq(w \o input, d + 1, Len(w \o input)), all \o input)
<1> DEFINE a == all \o input
           b == w \o input
<1>1. PICK l \in Nat, i \in Nat, c \in Nat :
        l = Len(all) /\ i = Len(input) /\ n \in Nat /\ l = n + c /\ c = Len(w)
  <2>1. Len(all) \in Nat /\ Len(input) \in Nat /\ n \in Nat /\ n <= Len(all) /\ Len(w) = Len(all) - n
    BY DEF Ends
  <2>2. Len(w) \in Nat /\ Len(all) = n + Len(w)
    BY <2>1
  <2> QED
    BY <2>1, <2>2
<1>11. n \in Nat /\ l = n + c
  BY <1>1
<1>2. w \in Seq(Y) /\ Len(w) = c /\ \A k \in 1..c : w[k] = all[n + k]
  BY <1>1 DEF Ends
<1>3. a \in Seq(Y) /\ Len(a) = l + i /\ (\A k \in 1..l : a[k] = all[k]) /\ \A k \in 1..i : a[l + k] = input[k]
  <2>1. a \in Seq(Y) /\ Len(a) = Len(all) + Len(input)
        /\ (\A k \in 1..Len(all) : a[k] = all[k]) /\ \A k \in 1..Len(input) : a[Len(all) + k] = input[k]
    BY ConcatFacts
  <2> HIDE DEF a
  <2> QED
    BY <1>1, <2>1
<1> HIDE DEF a
<1>4. b \in Seq(Y) /\ Len(b) = c + i /\ (\A k \in 1..c : b[k] = w[k]) /\ \A k \in 1..i : b[c + k] = input[k]
  <2>1. b \in Seq(Y) /\ Len(b) = Len(w) + Len(input)
        /\ (\A k \in 1..Len(w) : b[k] = w[k]) /\ \A k \in 1..Len(input) : b[Len(w) + k] = input[k]
    BY ConcatFacts
  <2> HIDE DEF b
  <2> QED
    BY <1>1, <2>1
<1> HIDE DEF b
<1>5. ASSUME NEW k \in 1..c + i PROVE b[k] = a[n + k]
  <2>1. CASE k <= c
    <3>1. k \in 1..c /\ n + k \in 1..l
      BY <2>1, <1>11
    <3> QED
      BY <3>1, <1>2, <1>3, <1>4
  <2>2. CASE k > c
    <3>1. PICK j \in 1..i : k = c + j /\ n + k = l + j
      BY <2>2, <1>11
    <3> QED
      BY <3>1, <1>3, <1>4
  <2> QED
    BY <2>1, <2>2, <1>11
<1>6. d \in 0..Len(b)
  BY DEF b
<1> DEFINE u == SubSeq(b, d + 1, Len(b))
           m == d + n
<1>61. PICK lb \in Nat, la \in Nat : lb = Len(b) /\ la = Len(a) /\ lb = c + i /\ la = l + i /\ la = lb + n
  <2>1. c + i \in Nat /\ l + i \in Nat /\ l + i = c + i + n
    BY <1>11
  <2> QED
    BY <2>1, <1>3, <1>4
<1>62. d \in 0..lb /\ la = lb + n /\ lb = c + i
  BY <1>6, <1>61
<1>7. u \in Seq(Y) /\ Len(u) = lb - d /\ \A k \in 1..lb - d : u[k] = b[d + k]
  <2>1. u \in Seq(Y) /\ Ends(u, b, d)
    BY <1>4, <1>6, EndsFact
  <2> HIDE DEF u
  <2>2. Len(u) = Len(b) - d /\ \A k \in 1..Len(u) : u[k] = b[d + k]
    BY <2>1 DEF Ends
  <2> QED
    BY <2>1, <2>2, <1>61
<1>8. m \in 0..Len(a) /\ la - m = lb - d
  <2>1. m \in 0..la /\ la - m = lb - d
    BY <1>11, <1>62
  <2> QED
    BY <2>1, <1>61
<1> HIDE DEF u
<1>9. Ends(u, a, m)
  <2>1. Len(u) = Len(a) - m
    BY <1>7, <1>8, <1>61
  <2>2. ASSUME NEW k \in 1..lb - d PROVE u[k] = a[m + k]
    <3>1. d + k \in 1..c + i /\ n + (d + k) = m + k
      BY <1>11, <1>62
    <3> HIDE DEF m
    <3> QED
      BY <3>1, <1>5, <1>7
  <2> HIDE DEF m
  <2> QED
    BY <2>1, <2>2, <1>7 DEF Ends
<1> HIDE DEF m
<1>10. u = SubSeq(a, m + 1, Len(a))
  BY <1>3, <1>7, <1>8, <1>9, EndsFact
<1> QED
  BY <1>8, <1>10 DEF u, a, b, TailOf

LEMMA ConcatAssoc ==
    ASSUME NEW Y, NEW a \in Seq(Y), NEW b \in Seq(Y), NEW c \in Seq(Y)
    PROVE  a \o (b \o c) = (a \o b) \o c /\ Len(a \o (b \o c)) = Len(a) + Len(b \o c)
           /\ Len(a \o b) = Len(a) + Len(b)
<1> DEFINE bc == b \o c
           ab == a \o b
           x == a \o bc
           y == ab \o c
<1>1. PICK i \in Nat, j \in Nat, k \in Nat : Len(a) = i /\ Len(b) = j /\ Len(c) = k
  OBVIOUS
<1>2. bc \in Seq(Y) /\ Len(bc) = j + k /\ (\A t \in 1..j : bc[t] = b[t]) /\ \A t \in 1..k : bc[j + t] = c[t]
  <2>1. bc \in Seq(Y) /\ Len(bc) = Len(b) + Len(c)
        /\ (\A t \in 1..Len(b) : bc[t] = b[t]) /\ \A t \in 1..Len(c) : bc[Len(b) + t] = c[t]
    BY ConcatFacts
  <2> HIDE DEF bc
  <2> QED
    BY <1>1, <2>1
<1>3. ab \in Seq(Y) /\ Len(ab) = i + j /\ (\A t \in 1..i : ab[t] = a[t]) /\ \A t \in 1..j : ab[i + t] = b[t]
  <2>1. ab \in Seq(Y) /\ Len(ab) = Len(a) + Len(b)
        /\ (\A t \in 1..Len(a) : ab[t] = a[t]) /\ \A t \in 1..Len(b) : ab[Len(a) + t] = b[t]
    BY ConcatFacts
  <2> HIDE DEF ab
  <2> QED
    BY <1>1, <2>1
<1> HIDE DEF bc, ab
<1>4. x \in Seq(Y) /\ Len(x) = Len(a) + Len(bc) /\ Len(x) = i + (j + k)
      /\ (\A t \in 1..i : x[t] = a[t]) /\ \A t \in 1..j + k : x[i + t] = bc[t]
  <2>1. x \in Seq(Y) /\ Len(x) = Len(a) + Len(bc)
        /\ (\A t \in 1..Len(a) : x[t] = a[t]) /\ \A t \in 1..Len(bc) : x[Len(a) + t] = bc[t]
    <3>1. bc \in Seq(Y)
      BY <1>2
    <3> QED
      BY <3>1, ConcatFacts
  <2> HIDE DEF x
  <2> QED
    BY <1>1, <1>2, <2>1
<1>5. y \in Seq(Y) /\ Len(y) = i + j + k
      /\ (\A t \in 1..i + j : y[t] = ab[t]) /\ \A t \in 1..k : y[i + j + t] = c[t]
  <2>1. y \in Seq(Y) /\ Len(y) = Len(ab) + Len(c)
        /\ (\A t \in 1..Len(ab) : y[t] = ab[t]) /\ \A t \in 1..Len(c) : y[Len(ab) + t] = c[t]
    <3>1. ab \in Seq(Y)
      BY <1>3
    <3> QED
      BY <3>1, ConcatFacts
  <2> HIDE DEF y
  <2> QED
    BY <1>1, <1>3, <2>1
<1> HIDE DEF x, y
<1>6. ASSUME NEW t \in 1..i + j + k PROVE x[t] = y[t]
  <2>1. CASE t <= i
    <3>1. t \in 1..i /\ t \in 1..i + j
      BY <2>1
    <3> QED
      BY <3>1, <1>3, <1>4, <1>5
  <2>2. CASE t > i /\ t <= i + j
    <3>1. PICK s \in 1..j : t = i + s /\ s \in 1..j + k /\ t \in 1..i + j
      BY <2>2
    <3>2. x[t] = bc[s] /\ bc[s] = b[s]
      BY <3>1, <1>2, <1>4
    <3>3. y[t] = ab[t] /\ ab[i + s] = b[s]
      BY <3>1, <1>3, <1>5
    <3> QED
      BY <3>1, <3>2, <3>3
  <2>3. CASE t > i + j
    <3>1. PICK s \in 1..k : t = i + j + s /\ j + s \in 1..j + k /\ i + (j + s) = t
      BY <2>3
    <3>2. x[i + (j + s)] = bc[j + s] /\ bc[j + s] = c[s]
      BY <3>1, <1>2, <1>4
    <3>3. y[i + j + s] = c[s]
      BY <3>1, <1>5
    <3> QED
      BY <3>1, <3>2, <3>3
  <2> QED
    BY <2>1, <2>2, <2>3
<1>7. x = y
  <2>1. i + (j + k) = i + j + k
    OBVIOUS
  <2>2. Len(x) = Len(y) /\ \A t \in 1..Len(x) : x[t] = y[t]
    BY <2>1, <1>4, <1>5, <1>6
  <2> QED
    BY <1>4, <1>5, <2>2, SeqSame
<1> QED
  BY <1>1, <1>3, <1>4, <1>7 DEF x, y, ab, bc

\* Tokens that copy the end of what was handed over copy it where it is.
LEMMA EndCopies ==
    ASSUME NEW all \in Seq(0..Bytes - 1), NEW input \in Seq(0..Bytes - 1), NEW n \in 0..Len(all),
           NEW tokens \in Seq(Tokens)
    PROVE  LET h == SubSeq(all, n + 1, Len(all))
           IN  Leads(Copies(h \o input), Len(h), tokens, Len(h \o input)) =>
                Leads(Copies(all \o input), Len(all), tokens, Len(all \o input))
<1> DEFINE Y == 0..Bytes - 1
           h == SubSeq(all, n + 1, Len(all))
           pre == SubSeq(all, 1, n)
           G == Leads(Copies(h \o input), Len(h), tokens, Len(h \o input))
<1>1. h \in Seq(Y) /\ pre \in Seq(Y) /\ pre \o h = all
  <2>1. PICK p \in 1..(Len(all) + 1) : p = n + 1 /\ p - 1 = n
    OBVIOUS
  <2>2. all \in Seq(Y)
    OBVIOUS
  <2> HIDE DEF Y
  <2>3. SubSeq(all, 1, p - 1) \in Seq(Y) /\ SubSeq(all, p, Len(all)) \in Seq(Y)
        /\ SubSeq(all, 1, p - 1) \o SubSeq(all, p, Len(all)) = all
    BY <2>2, Cut
  <2> QED
    BY <2>1, <2>3
<1> HIDE DEF h, pre, G
<1>2. input \in Seq(Y) /\ h \o input \in Seq(Y)
  <2>1. input \in Seq(Y)
    OBVIOUS
  <2> HIDE DEF Y
  <2> QED
    BY <1>1, <2>1, ConcatFacts
<1>3. pre \o (h \o input) = all \o input /\ Len(all \o input) = Len(pre) + Len(h \o input) /\ Len(all) = Len(pre) + Len(h)
  <2> HIDE DEF Y
  <2>1. pre \o (h \o input) = (pre \o h) \o input /\ Len(pre \o (h \o input)) = Len(pre) + Len(h \o input)
        /\ Len(pre \o h) = Len(pre) + Len(h)
    <3>1. pre \in Seq(Y) /\ h \in Seq(Y) /\ input \in Seq(Y)
      BY <1>1, <1>2
    <3> QED
      BY <3>1, ConcatAssoc
  <2> QED
    BY <1>1, <2>1, Zenon
<1>4. ASSUME G PROVE Leads(Copies(all \o input), Len(all), tokens, Len(all \o input))
  <2>1. PICK m \in Nat : m = Len(pre)
    BY <1>1
  <2> DEFINE bytes == h \o input
             a == Len(h)
             b == Len(bytes)
  <2>2. Leads(Copies(bytes), a, tokens, b)
    BY <1>4, Zenon DEF G
  <2>3. bytes \in Seq(0..Bytes - 1) /\ pre \in Seq(0..Bytes - 1)
    BY <1>1, <1>2
  <2> HIDE DEF bytes, a, b
  <2>4. Leads(Copies(pre \o bytes), m + a, tokens, m + b)
    BY <2>1, <2>2, <2>3, ShiftFact
  <2> QED
    BY <1>3, <2>1, <2>4 DEF bytes, a, b
<1> QED
  BY <1>4 DEF G, h

\* What a verbatim block does to the encoder, and to a decoder in step with it.
LEMMA VerbatimStep ==
    ASSUME NEW tokens \in Seq(Tokens), r \in Rs, main_prev \in PathLengths(MainLen), length_prev \in PathLengths(LengthSyms),
           NEW all \in Seq(0..Bytes - 1), NEW a \in Nat,
           Leads(Copies(all), a, tokens, Len(all))
    PROVE  /\ Verbatim(tokens).type = "verbatim"
           /\ Verbatim(tokens).main \in PathLengths(MainLen) /\ Verbatim(tokens).length \in PathLengths(LengthSyms)
           /\ Verbatim(tokens).symbols \in Seq(Syms) /\ Verbatim(tokens).r \in Rs
           /\ ~Verbatim(tokens).runs =>
                \A out \in Fronts(all, a) :
                    AfterBlock(Heard(r, main_prev, length_prev, out), Verbatim(tokens))
                    = Heard(Verbatim(tokens).r, Verbatim(tokens).main, Verbatim(tokens).length, all)
<1> DEFINE b == Len(all)
           tt == avoid_single_symbol_length_tree(tokens)
           encoded == AllEncoded(tt, r)
           v == Verbatim(tokens)
           m == Len(tt)
<1>0. b \in Nat
  OBVIOUS
<1> HIDE DEF b
<1>1. tt \in Seq(Tokens) /\ Leads(Copies(all), a, tt, b)
  <2>1. Leads(Copies(all), a, tokens, b)
    BY DEF b
  <2> QED
    BY <1>0, <2>1, AvoidFact
<1> HIDE DEF tt
<1>2. PICK rs : Turns(tt, r, rs)
  BY <1>1, TurnsExist
<1>3. encoded = Coding(tt, rs, m)
  BY <1>1, <1>2, AllEncodedFact
<1>4. m \in 0..m /\ rs[m] \in Rs
  <2>1. m \in Nat /\ rs \in [0..m -> Rs]
    BY <1>1, <1>2 DEF Turns
  <2> QED
    BY <2>1
<1>5. encoded.symbols = Coded(tt, rs, m) /\ encoded.r = rs[m]
  BY <1>3 DEF Coding
<1>6. Coded(tt, rs, m) \in Seq(Syms)
  BY <1>1, <1>2, <1>4, CodedFact
<1> HIDE DEF encoded, v, m
<1>7. /\ v.type = "verbatim"
      /\ v.main \in PathLengths(MainLen) /\ v.length \in PathLengths(LengthSyms)
      /\ v.symbols = encoded.symbols /\ v.r = encoded.r
      /\ ~v.runs => Received(main_prev, length_prev, v.trees) = Sections(v.main, v.length)
  <2>1. encoded = AllEncoded(avoid_single_symbol_length_tree(tokens), r)
    BY DEF encoded, tt
  <2>2. encoded.symbols \in Seq(Syms)
    BY <1>5, <1>6
  <2> QED
    BY <2>1, <2>2, VerbatimFact DEF v
<1>8. ASSUME ~v.runs, NEW out \in Fronts(all, a)
      PROVE  AfterBlock(Heard(r, main_prev, length_prev, out), v) = Heard(v.r, v.main, v.length, all)
  <2>1. Received(main_prev, length_prev, v.trees) = Sections(v.main, v.length)
    BY <1>7, <1>8
  <2>2. AfterBlock(Heard(r, main_prev, length_prev, out), v) = Hears(Heard(r, v.main, v.length, out), v.symbols)
    BY <1>7, <2>1, AfterVerbatim
  <2>3. v.symbols = Coded(tt, rs, Len(tt)) /\ v.r = rs[Len(tt)]
    BY <1>5, <1>7 DEF m
  <2>4. GotBack(all, b, rs[Len(tt)], v.main, v.length, Hears(Heard(r, v.main, v.length, out), Coded(tt, rs, Len(tt))))
    <3> DEFINE main == v.main
               length == v.length
    <3> HIDE DEF main, length
    <3>1. GotBack(all, b, rs[Len(tt)], main, length, Hears(Heard(r, main, length, out), Coded(tt, rs, Len(tt))))
      BY <1>1, <1>2, HeardAll, Zenon
    <3> QED
      BY <3>1 DEF main, length
  <2>5. Fronts(all, b) = {all}
    BY FrontFacts DEF b
  <2> QED
    BY <2>2, <2>3, <2>4, <2>5, Zenon DEF GotBack
<1> QED
  BY <1>4, <1>5, <1>6, <1>7, <1>8, Zenon DEF v

LEMMA NoTokens ==
    ASSUME r \in Rs
    PROVE  ~main_tree_is_nondegenerate(<<>>, r)
<1>1. PICK tokens : tokens = <<>>
  OBVIOUS
<1>2. tokens \in Seq(Tokens) /\ Len(tokens) = 0
  BY <1>1
<1>3. PICK rs : Turns(tokens, r, rs)
  BY <1>2, TurnsExist
<1>4. AllEncoded(tokens, r) = Coding(tokens, rs, 0)
  BY <1>2, <1>3, AllEncodedFact
<1>5. AllEncoded(tokens, r).symbols = Coded(tokens, rs, 0)
  BY <1>4 DEF Coding
<1>6. Coded(tokens, rs, 0) = <<>>
  BY DEF Coded
<1>7. Mains(<<>>) = {}
  BY DEF Mains
<1>8. Cardinality({}) = 0
  BY FS_EmptySet
<1>9. ~(Cardinality(Mains(AllEncoded(tokens, r).symbols)) > 1)
  BY <1>5, <1>6, <1>7, <1>8
<1> QED
  BY <1>1, <1>9 DEF main_tree_is_nondegenerate

-----------------------------------------------------------------------------
(* A chunk is encoded. *)

\* What process, or the strategy, makes of a chunk.
Chosen(input) == CASE strategy = "Greedy" -> Processed(input).tokens
                   [] strategy = "LiteralOnly" -> AsLiterals(input)
                   [] OTHER -> <<>>

LEMMA ChosenCases ==
    ASSUME strategy \in Strategies, NEW input
    PROVE  \/ strategy = "Greedy" /\ Chosen(input) = Processed(input).tokens
           \/ strategy = "LiteralOnly" /\ Chosen(input) = AsLiterals(input)
           \/ strategy # "Greedy" /\ Chosen(input) = <<>>
<1>1. strategy \in {"Uncompressed", "LiteralOnly", "Greedy"}
  BY LzxAssumption
<1>2. CASE strategy = "Greedy"
  BY <1>2 DEF Chosen
<1>3. CASE strategy = "LiteralOnly"
  <2>1. "LiteralOnly" # "Greedy"
    OBVIOUS
  <2>2. strategy # "Greedy"
    BY <1>3, <2>1
  <2>3. Chosen(input) = AsLiterals(input)
    BY <1>3, <2>2, Zenon DEF Chosen
  <2> QED
    BY <1>3, <2>3
<1>4. CASE strategy = "Uncompressed"
  <2>1. strategy # "Greedy" /\ strategy # "LiteralOnly"
    BY <1>4
  <2>2. Chosen(input) = <<>>
    BY <2>1, Zenon DEF Chosen
  <2> QED
    BY <2>1, <2>2
<1> QED
  BY <1>1, <1>2, <1>3, <1>4

LEMMA ChosenFact ==
    ASSUME IInv, NEW input \in Seq(0..Bytes - 1)
    PROVE  /\ Chosen(input) \in Seq(Tokens)
           /\ main_tree_is_nondegenerate(Chosen(input), r) =>
                /\ \E all \in Seq(0..Bytes - 1) : \E a \in Nat : Leads(Copies(all), a, Chosen(input), Len(all))
                /\ stale = {} /\ (strategy = "Greedy" \/ history = <<>>) =>
                        Leads(Copies(fed \o input), Len(fed), Chosen(input), Len(fed \o input))
           /\ Processed(input).chain \subseteq 1..base + Len(history \o input)
<1> DEFINE Y == 0..Bytes - 1
<1>1. /\ history \in Seq(Y) /\ base \in Nat /\ inserted \subseteq base + 1..base + Len(history)
      /\ fed \in Seq(Y) /\ strategy \in Strategies /\ r \in Rs /\ input \in Seq(Y)
  BY DEF IInv, Typed, Window
<1>2. inserted \subseteq 1..base + Len(history)
  <2>1. \A q \in base + 1..base + Len(history) : q \in 1..base + Len(history)
    BY <1>1
  <2> QED
    BY <2>1, <1>1
<1>3. /\ Processed(input).tokens \in Seq(Tokens)
      /\ Leads(Copies(history \o input), Len(history), Processed(input).tokens, Len(history \o input))
      /\ Processed(input).chain \subseteq 1..base + Len(history \o input)
  BY <1>1, <1>2, ProcessedFact
<1>4. history \o input \in Seq(Y) /\ Len(history) \in Nat
  <2> HIDE DEF Y
  <2> QED
    BY <1>1, ConcatFacts
<1>5. CASE strategy = "Greedy" /\ Chosen(input) = Processed(input).tokens
  <2> DEFINE tokens == Processed(input).tokens
  <2>1. tokens \in Seq(Tokens)
        /\ Leads(Copies(history \o input), Len(history), tokens, Len(history \o input))
    BY <1>3
  <2>2. ASSUME stale = {} PROVE Leads(Copies(fed \o input), Len(fed), tokens, Len(fed \o input))
    <3>1. PICK n \in 0..Len(fed) : history = SubSeq(fed, n + 1, Len(fed))
      BY <2>2 DEF IInv, InStep
    <3> HIDE DEF tokens
    <3>2. LET h == SubSeq(fed, n + 1, Len(fed))
          IN  Leads(Copies(h \o input), Len(h), tokens, Len(h \o input)) =>
                Leads(Copies(fed \o input), Len(fed), tokens, Len(fed \o input))
      BY <1>1, <2>1, EndCopies
    <3> QED
      BY <2>1, <3>1, <3>2, Zenon
  <2>3. Chosen(input) = tokens
    BY <1>5
  <2> DEFINE all == history \o input
             a == Len(history)
  <2>4. all \in Seq(Y) /\ a \in Nat /\ Leads(Copies(all), a, tokens, Len(all))
    BY <1>4, <2>1
  <2> HIDE DEF tokens, all, a
  <2>5. \E al \in Seq(Y) : \E b \in Nat : Leads(Copies(al), b, tokens, Len(al))
    BY <2>4, Zenon
  <2> QED
    BY <1>3, <2>1, <2>2, <2>3, <2>5, Zenon
<1>6. CASE strategy = "LiteralOnly" /\ Chosen(input) = AsLiterals(input)
  <2> DEFINE tokens == AsLiterals(input)
  <2>1. tokens \in Seq(Tokens) /\ Leads(Copies(fed \o input), Len(fed), tokens, Len(fed \o input))
    BY <1>1, LiteralsFact
  <2>2. fed \o input \in Seq(Y) /\ Len(fed) \in Nat
    <3> HIDE DEF Y
    <3> QED
      BY <1>1, ConcatFacts
  <2>3. Chosen(input) = tokens
    BY <1>6
  <2> DEFINE all == fed \o input
             a == Len(fed)
  <2>4. all \in Seq(Y) /\ a \in Nat /\ Leads(Copies(all), a, tokens, Len(all))
    BY <2>1, <2>2
  <2> HIDE DEF tokens, all, a
  <2>5. \E al \in Seq(Y) : \E b \in Nat : Leads(Copies(al), b, tokens, Len(al))
    BY <2>4, Zenon
  <2> QED
    BY <1>3, <2>1, <2>3, <2>5, Zenon
<1>7. CASE strategy # "Greedy" /\ Chosen(input) = <<>>
  <2>1. ~main_tree_is_nondegenerate(<<>>, r)
    BY <1>1, NoTokens
  <2>2. <<>> \in Seq(Tokens)
    OBVIOUS
  <2> QED
    BY <1>3, <1>7, <2>1, <2>2, Zenon
<1> QED
  BY <1>1, <1>5, <1>6, <1>7, ChosenCases, Zenon

\* What encoding a chunk does to the encoder; to a decoder in step; and to the history.
LEMMA EncodeStep ==
    ASSUME IInv, NEW input \in Seq(0..Bytes - 1), encode_chunk(input)
    PROVE  /\ r' \in Rs /\ main_prev' \in PathLengths(MainLen) /\ length_prev' \in PathLengths(LengthSyms)
           /\ block'.type = "verbatim" => block'.symbols \in Seq(Syms)
           /\ stale = {} /\ Lapses(block') = {} =>
                AfterBlock(decoder, block') = Heard(r', main_prev', length_prev', fed \o input)
<1> DEFINE tokens == Chosen(input)
           good == main_tree_is_nondegenerate(tokens, r)
           new == IF good THEN Verbatim(tokens) ELSE Uncompressed(input)
           all == fed \o input
<1>1. /\ block' = new
      /\ IF new.type = "verbatim"
         THEN r' = new.r /\ main_prev' = new.main /\ length_prev' = new.length
         ELSE UNCHANGED <<r, main_prev, length_prev>>
  BY Zenon DEF encode_chunk, Chosen
<1>2. r \in Rs /\ main_prev \in PathLengths(MainLen) /\ length_prev \in PathLengths(LengthSyms) /\ fed \in Seq(0..Bytes - 1)
  BY DEF IInv, Typed
<1>3. /\ tokens \in Seq(Tokens)
      /\ good =>
            /\ \E al \in Seq(0..Bytes - 1) : \E a \in Nat : Leads(Copies(al), a, tokens, Len(al))
            /\ stale = {} /\ (strategy = "Greedy" \/ history = <<>>) =>
                    Leads(Copies(all), Len(fed), tokens, Len(all))
  BY ChosenFact
<1> HIDE DEF tokens, good
<1>4. CASE good
  <2> DEFINE v == Verbatim(tokens)
  <2>1. block' = v
    BY <1>1, <1>4
  <2>2. PICK al \in Seq(0..Bytes - 1), a \in Nat : Leads(Copies(al), a, tokens, Len(al))
    BY <1>3, <1>4
  <2>3. /\ v.type = "verbatim"
        /\ v.main \in PathLengths(MainLen) /\ v.length \in PathLengths(LengthSyms)
        /\ v.symbols \in Seq(Syms) /\ v.r \in Rs
    BY <1>2, <1>3, <2>2, VerbatimStep
  <2> HIDE DEF v
  <2>4. r' = v.r /\ main_prev' = v.main /\ length_prev' = v.length
    BY <1>1, <1>4, <2>3 DEF v
  <2>5. ASSUME stale = {}, Lapses(block') = {}
        PROVE  AfterBlock(decoder, block') = Heard(r', main_prev', length_prev', all)
    <3>1. (strategy = "Greedy" \/ history = <<>>) /\ ~v.runs
      BY <2>1, <2>3, <2>5 DEF Lapses
    <3>2. decoder = Heard(r, main_prev, length_prev, fed)
      BY <2>5 DEF IInv, InStep
    <3>3. all \in Seq(0..Bytes - 1) /\ Len(fed) \in Nat
      <4> DEFINE Y == 0..Bytes - 1
      <4>1. fed \in Seq(Y) /\ input \in Seq(Y)
        BY <1>2
      <4> HIDE DEF Y
      <4>2. all \in Seq(Y) /\ Len(fed) \in Nat
        BY <4>1, ConcatFacts
      <4> QED
        BY <4>2 DEF Y
    <3>4. fed \in Fronts(all, Len(fed))
      BY <1>2, FrontFacts
    <3>5. Leads(Copies(all), Len(fed), tokens, Len(all))
      BY <1>3, <1>4, <2>5, <3>1, Zenon
    <3> HIDE DEF all
    <3>6. \A out \in Fronts(all, Len(fed)) :
            AfterBlock(Heard(r, main_prev, length_prev, out), v) = Heard(v.r, v.main, v.length, all)
      <4> DEFINE l == Len(fed)
      <4>1. l \in Nat /\ Leads(Copies(all), l, tokens, Len(all))
        BY <3>3, <3>5
      <4> HIDE DEF l
      <4>2. \A out \in Fronts(all, l) :
                AfterBlock(Heard(r, main_prev, length_prev, out), v) = Heard(v.r, v.main, v.length, all)
        BY <1>2, <1>3, <3>1, <3>3, <4>1, VerbatimStep DEF v
      <4> QED
        BY <4>2 DEF l
    <3> QED
      BY <2>1, <2>4, <3>2, <3>4, <3>6, Zenon
  <2> QED
    BY <2>1, <2>3, <2>4, <2>5, Zenon DEF all
<1>5. CASE ~good
  <2>1. block' = Uncompressed(input) /\ block'.type = "uncompressed"
    BY <1>1, <1>5 DEF Uncompressed
  <2>2. r' = r /\ main_prev' = main_prev /\ length_prev' = length_prev
    <3>1. new = block' /\ new.type # "verbatim"
      BY <1>1, <2>1
    <3> HIDE DEF new
    <3> QED
      BY <1>1, <3>1
  <2>3. ASSUME stale = {}, Lapses(block') = {}
        PROVE  AfterBlock(decoder, block') = Heard(r', main_prev', length_prev', all)
    <3>1. r = Initial
      BY <2>1, <2>3 DEF Lapses
    <3>2. decoder = Heard(r, main_prev, length_prev, fed)
      BY <2>3 DEF IInv, InStep
    <3>3. AfterBlock(Heard(r, main_prev, length_prev, fed), Uncompressed(input))
          = Heard(Initial, main_prev, length_prev, fed \o input)
      BY AfterUncompressed
    <3> QED
      BY <2>1, <2>2, <3>1, <3>2, <3>3, Zenon
  <2>4. block'.type # "verbatim"
    BY <2>1
  <2> QED
    BY <1>2, <2>2, <2>3, <2>4, Zenon DEF all
<1> QED
  BY <1>4, <1>5

LEMMA FinderStep ==
    ASSUME IInv, NEW input \in Seq(0..Bytes - 1), encode_chunk(input)
    PROVE  /\ Window'
           /\ stale = {} /\ Lapses(block') = {} =>
                \E m \in 0..Len(fed \o input) :
                    history' = SubSeq(fed \o input, m + 1, Len(fed \o input))
<1> DEFINE Y == 0..Bytes - 1
           all == fed \o input
<1>1. IF strategy = "Greedy" THEN Feed(input, Processed(input).chain) ELSE UNCHANGED finder
  BY Zenon DEF encode_chunk
<1>2. Window /\ history \in Seq(Y) /\ fed \in Seq(Y) /\ input \in Seq(Y)
  BY DEF IInv, Typed, Window
<1>3. CASE strategy = "Greedy"
  <2>1. Feed(input, Processed(input).chain)
    BY <1>1, <1>3
  <2>2. Processed(input).chain \subseteq 1..base + Len(history \o input)
    BY ChosenFact
  <2>3. Window' /\ \E d \in 0..Len(history \o input) :
                        history' = SubSeq(history \o input, d + 1, Len(history \o input))
    BY <1>2, <2>1, <2>2, FeedFact
  <2>4. ASSUME stale = {} PROVE \E m \in 0..Len(all) : history' = SubSeq(all, m + 1, Len(all))
    <3>1. PICK n \in 0..Len(fed) : history = SubSeq(fed, n + 1, Len(fed))
      BY <2>4 DEF IInv, InStep
    <3> HIDE DEF Y
    <3>2. Ends(history, fed, n)
      BY <1>2, <3>1, EndsFact, Zenon
    <3>3. PICK d \in 0..Len(history \o input) : history' = SubSeq(history \o input, d + 1, Len(history \o input))
      BY <2>3
    <3>4. TailOf(SubSeq(history \o input, d + 1, Len(history \o input)), fed \o input)
      BY <1>2, <3>2, TailFact
    <3> QED
      BY <3>3, <3>4, Zenon DEF TailOf
  <2> QED
    BY <2>3, <2>4, Zenon DEF all
<1>4. CASE strategy # "Greedy"
  <2>1. history' = history /\ base' = base /\ inserted' = inserted
    BY <1>1, <1>4 DEF finder
  <2>2. Window'
    BY <1>2, <2>1 DEF Window
  <2>3. ASSUME Lapses(block') = {} PROVE \E m \in 0..Len(all) : history' = SubSeq(all, m + 1, Len(all))
    <3>1. history = <<>>
      BY <1>4, <2>3 DEF Lapses
    <3> HIDE DEF Y
    <3>2. all \in Seq(Y)
      BY <1>2, ConcatFacts
    <3> HIDE DEF all
    <3>3. PICK m \in 0..Len(all) : m = Len(all)
      BY <3>2
    <3>4. SubSeq(all, m + 1, Len(all)) \in Seq(Y) /\ Len(SubSeq(all, m + 1, Len(all))) = 0
      <4> DEFINE t == SubSeq(all, m + 1, Len(all))
      <4>1. t \in Seq(Y) /\ Ends(t, all, m)
        BY <3>2, EndsFact
      <4> HIDE DEF t
      <4>2. Len(t) = Len(all) - m
        BY <4>1 DEF Ends
      <4>3. Len(all) - m = 0
        BY <3>2, <3>3
      <4>4. t \in Seq(Y) /\ Len(t) = 0
        BY <4>1, <4>2, <4>3
      <4> QED
        BY <4>4 DEF t
    <3>5. SubSeq(all, m + 1, Len(all)) = <<>>
      BY <3>4
    <3> QED
      BY <2>1, <3>1, <3>5
  <2> QED
    BY <2>2, <2>3, Zenon DEF all
<1> QED
  BY <1>3, <1>4

-----------------------------------------------------------------------------
(* The invariant holds, and what it gives. *)

LEMMA PendingFact ==
    ASSUME IInv, NEW input \in Pending
    PROVE  input \in Chunks /\ input \in Seq(0..Bytes - 1)
<1>1. slab \in Chunks \cup {<<>>}
  BY DEF IInv, Typed
<1>2. input \in Chunks
  BY <1>1 DEF Pending
<1> QED
  BY <1>2, LzxAssumption

LEMMA InitInv == Init => IInv
<1> SUFFICES ASSUME Init PROVE IInv
  OBVIOUS
<1>1. Typed
  <2>1. block.type # "verbatim"
    BY DEF Init, Uncompressed
  <2>2. NoTree(MainLen) \in PathLengths(MainLen) /\ NoTree(LengthSyms) \in PathLengths(LengthSyms)
    BY LensFact, NoTreeFact DEF PathLengths
  <2>3. Initial \in Rs
    BY OffsetsFact DEF Rs
  <2>4. <<>> \in Seq(0..Bytes - 1)
    OBVIOUS
  <2> QED
    BY <2>1, <2>2, <2>3, <2>4 DEF Init, Typed
<1>2. Window
  <2>1. MaxOffset \in Nat \ {0} /\ ChunkMax \in Nat
    BY OffsetsFact, LzxAssumption
  <2>2. history = <<>> /\ base = 0 /\ inserted = {}
    BY DEF Init
  <2> HIDE DEF MaxOffset
  <2>3. Len(<<>>) = 0 /\ <<>> \in Seq(0..Bytes - 1) /\ 0 < 2 * (MaxOffset + ChunkMax)
    BY <2>1
  <2> QED
    BY <2>2, <2>3 DEF Window
<1>3. InStep
  <2>1. decoder = Heard(r, main_prev, length_prev, fed)
    BY DEF Init, Heard
  <2>2. fed = <<>> /\ history = <<>>
    BY DEF Init
  <2>3. 0 \in 0..Len(<<>>) /\ <<>> = SubSeq(<<>>, 0 + 1, Len(<<>>))
    OBVIOUS
  <2> QED
    BY <2>1, <2>2, <2>3 DEF InStep
<1> QED
  BY <1>1, <1>2, <1>3 DEF IInv

LEMMA ChunkInv ==
    ASSUME IInv, NEW input \in Pending, encode_chunk(input), Written(input) \/ WriteFails(input)
    PROVE  IInv'
<1>1. input \in Chunks /\ input \in Seq(0..Bytes - 1)
  BY PendingFact
<1>2. /\ r' \in Rs /\ main_prev' \in PathLengths(MainLen) /\ length_prev' \in PathLengths(LengthSyms)
      /\ block'.type = "verbatim" => block'.symbols \in Seq(Syms)
      /\ stale = {} /\ Lapses(block') = {} =>
            AfterBlock(decoder, block') = Heard(r', main_prev', length_prev', fed \o input)
  BY <1>1, EncodeStep
<1>3. /\ Window'
      /\ stale = {} /\ Lapses(block') = {} =>
            \E m \in 0..Len(fed \o input) : history' = SubSeq(fed \o input, m + 1, Len(fed \o input))
  BY <1>1, FinderStep
<1>4. strategy \in Strategies /\ fed \in Seq(0..Bytes - 1)
  BY DEF IInv, Typed
<1>5. CASE Written(input)
  <2>1. decoder' = AfterBlock(decoder, block') /\ fed' = fed \o input /\ slab' = <<>>
        /\ stale' = stale \cup Lapses(block') /\ strategy' = strategy
    BY <1>5 DEF Written
  <2>2. fed' \in Seq(0..Bytes - 1)
    <3> DEFINE Y == 0..Bytes - 1
    <3>1. fed \in Seq(Y) /\ input \in Seq(Y)
      BY <1>1, <1>4
    <3> HIDE DEF Y
    <3>2. fed \o input \in Seq(Y)
      BY <3>1, ConcatFacts
    <3> QED
      BY <2>1, <3>2 DEF Y
  <2>3. Typed'
    BY <1>2, <1>4, <2>1, <2>2 DEF Typed
  <2>4. InStep'
    <3>1. stale' = {} => stale = {} /\ Lapses(block') = {}
      BY <2>1
    <3> QED
      BY <1>2, <1>3, <2>1, <3>1, Zenon DEF InStep
  <2> QED
    BY <1>3, <2>3, <2>4 DEF IInv
<1>6. CASE WriteFails(input)
  <2>1. slab' = input /\ stale' = stale \cup {"retry"} /\ strategy' = strategy /\ fed' = fed
    BY <1>6 DEF WriteFails
  <2>2. Typed'
    BY <1>1, <1>2, <1>4, <2>1 DEF Typed
  <2>3. InStep'
    BY <2>1 DEF InStep
  <2> QED
    BY <1>3, <2>2, <2>3 DEF IInv
<1> QED
  BY <1>5, <1>6

LEMMA NextInv == IInv /\ [Next]_vars => IInv'
<1> SUFFICES ASSUME IInv, [Next]_vars PROVE IInv'
  OBVIOUS
<1>1. CASE emit_chunk
  <2>1. PICK input \in Pending : encode_chunk(input) /\ (Written(input) \/ WriteFails(input))
    BY <1>1 DEF emit_chunk
  <2> QED
    BY <2>1, ChunkInv
<1>2. CASE set_strategy
  <2>1. strategy' \in Strategies /\ UNCHANGED <<encoder, slab, decoder, block, fed, stale, chunks>>
    BY <1>2 DEF set_strategy
  <2>2. r' = r /\ main_prev' = main_prev /\ length_prev' = length_prev /\ history' = history
        /\ base' = base /\ inserted' = inserted /\ slab' = slab /\ decoder' = decoder /\ block' = block
        /\ fed' = fed /\ stale' = stale
    BY <2>1 DEF encoder, finder
  <2> QED
    BY <2>1, <2>2 DEF IInv, Typed, Window, InStep
<1>3. CASE UNCHANGED vars
  <2>1. r' = r /\ main_prev' = main_prev /\ length_prev' = length_prev /\ history' = history
        /\ base' = base /\ inserted' = inserted /\ slab' = slab /\ decoder' = decoder /\ block' = block
        /\ fed' = fed /\ stale' = stale /\ strategy' = strategy
    BY <1>3 DEF vars, encoder, finder
  <2> QED
    BY <2>1 DEF IInv, Typed, Window, InStep
<1> QED
  BY <1>1, <1>2, <1>3 DEF Next

LEMMA SymbolsTyped ==
    ASSUME NEW symbols \in Seq(Syms), NEW k \in DOMAIN symbols
    PROVE  Sound(symbols[k])
<1>1. symbols[k] \in Syms
  OBVIOUS
<1> QED
  BY <1>1 DEF Syms

LEMMA TypeFollows == IInv => TypeOK
<1> SUFFICES ASSUME IInv PROVE TypeOK
  OBVIOUS
<1>1. strategy \in Strategies /\ slab \in Chunks \cup {<<>>} /\ \A i \in 1..3 : r[i] \in 1..MaxOffset
  BY DEF IInv, Typed, Rs
<1>2. /\ Len(history) < 2 * (MaxOffset + ChunkMax)
      /\ base = 0 \/ Len(history) >= MaxOffset
      /\ inserted \subseteq base + 1..base + Len(history)
  BY DEF IInv, Window
<1>3. ASSUME block.type = "verbatim", NEW k \in DOMAIN block.symbols PROVE Sound(block.symbols[k])
  <2> DEFINE symbols == block.symbols
  <2>1. symbols \in Seq(Syms) /\ k \in DOMAIN symbols
    BY <1>3 DEF IInv, Typed
  <2> HIDE DEF symbols
  <2>2. Sound(symbols[k])
    BY <2>1, SymbolsTyped
  <2> QED
    BY <2>2 DEF symbols
<1> QED
  BY <1>1, <1>2, <1>3, Zenon DEF TypeOK, Sound

\* Whatever the window, the chunks and the strategies: offsets are ones of the window,
\* symbols ones of the trees, and the match finder has every byte an offset can reach.
THEOREM LzxTypes == Spec => []TypeOK
<1>1. Init => IInv
  BY InitInv
<1>2. IInv /\ [Next]_vars => IInv'
  BY NextInv
<1>3. IInv => TypeOK
  BY TypeFollows
<1> QED
  BY <1>1, <1>2, <1>3, PTL DEF Spec

\* Whatever was encoded: a decoder that reads the stream gets back the bytes that were
\* handed over, as long as nothing has put encoder and stream out of step.
THEOREM StreamDecodes == Spec => []RoundTrip
<1>1. Init => IInv
  BY InitInv
<1>2. IInv /\ [Next]_vars => IInv'
  BY NextInv
<1>3. IInv => RoundTrip
  <2>1. Heard(r, main_prev, length_prev, fed).lost = FALSE /\ Heard(r, main_prev, length_prev, fed).out = fed
    BY DEF Heard
  <2> QED
    BY <2>1, Zenon DEF IInv, InStep, RoundTrip
<1> QED
  BY <1>1, <1>2, <1>3, PTL DEF Spec

=============================================================================
