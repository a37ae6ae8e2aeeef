----------------------------- MODULE MobileProofs -----------------------------
(***************************************************************************)
(* What a scan for mobile blobs finds, for every image size, number of     *)
(* slots, history of the console and block map a build may meet.           *)
(*                                                                         *)
(* A scan sees spare areas and pages, and not who wrote them.  What ties   *)
(* the two together is a set of runs: a run is a blob that was put on      *)
(* flash, whole or only its first pages.  Every page with a mobile type is *)
(* of one of the runs, and says which; that is FlashOK, and it holds of    *)
(* what the console leaves and of what a build makes.                      *)
(***************************************************************************)
EXTENDS Mobile, BlockMapProofs, SequenceTheorems

-----------------------------------------------------------------------------
(* Numbers. *)

\* Blocks and pages.
LEMMA Geometry ==
    ASSUME layout \in Layouts, NEW P, P = PagesPerBlock[layout]
    PROVE  /\ P \in Nat \ {0} /\ Unit <= P /\ P <= Byte
           /\ \A b \in Nat : FirstPage(b) \in Nat /\ FirstPage(b + 1) = FirstPage(b) + P
           /\ \A b, c \in Nat : b < c => FirstPage(b + 1) <= FirstPage(c)
           /\ \A q, b \in Nat : BlockOf(q) = b <=> FirstPage(b) <= q /\ q < FirstPage(b + 1)
           /\ \A q \in Nat : BlockOf(q) \in Nat
           /\ \A b \in Nat \ {0} : FirstPage(b) # 0
<1>1. P \in Nat \ {0} /\ Unit <= P /\ P <= Byte
  BY MobileAssumption
<1>2. /\ \A b : FirstPage(b) = b * P
      /\ \A q : BlockOf(q) = q \div P
  BY DEF FirstPage, BlockOf
<1>3. ASSUME NEW b \in Nat
      PROVE  FirstPage(b) \in Nat /\ FirstPage(b + 1) = FirstPage(b) + P
  <2>1. b * P \in Nat /\ (b + 1) * P = b * P + P
    BY <1>1
  <2> QED
    BY <1>2, <2>1
<1>4. ASSUME NEW b \in Nat, NEW c \in Nat, b < c
      PROVE  FirstPage(b + 1) <= FirstPage(c)
  <2> PICK d \in Nat : c = b + 1 + d
    <3>1. c - (b + 1) \in Nat /\ c = b + 1 + (c - (b + 1))
      BY <1>4
    <3> QED
      BY <3>1
  <2>1. c * P = (b + 1) * P + d * P /\ d * P \in Nat /\ (b + 1) * P \in Nat
    BY <1>1
  <2> QED
    BY <1>2, <2>1
<1>5. ASSUME NEW q \in Nat, NEW b \in Nat
      PROVE  BlockOf(q) = b <=> FirstPage(b) <= q /\ q < FirstPage(b + 1)
  <2> PICK d : d = q \div P
    OBVIOUS
  <2> PICK t : t = q % P
    OBVIOUS
  <2>1. d \in Nat /\ t \in 0..(P - 1) /\ q = d * P + t
    <3>1. d \in Nat /\ t \in 0..(P - 1)
      BY <1>1
    <3>2. q = P * d + t
      BY <1>1
    <3>3. P * d = d * P
      BY <1>1, <3>1
    <3> PICK x : x = P * d
      OBVIOUS
    <3>4. q = x + t /\ x = d * P
      BY <3>2, <3>3
    <3> QED
      BY <3>1, <3>4
  <2> PICK x \in Nat : x = d * P
    BY <1>1, <2>1
  <2>2. CASE d = b
    <3>1. FirstPage(b) = x /\ FirstPage(b + 1) = x + P
      BY <1>2, <1>3, <2>2
    <3> QED
      BY <1>1, <1>2, <2>1, <2>2, <3>1
  <2>3. CASE d < b
    <3>1. FirstPage(d + 1) = x + P /\ FirstPage(d + 1) <= FirstPage(b) /\ FirstPage(b) \in Nat
      BY <1>2, <1>3, <1>4, <2>1, <2>3
    <3>2. ~(FirstPage(b) <= q)
      BY <1>1, <2>1, <3>1
    <3> QED
      BY <1>2, <2>3, <2>1, <3>2
  <2>4. CASE b < d
    <3>1. FirstPage(b + 1) <= x /\ FirstPage(b + 1) \in Nat
      BY <1>2, <1>3, <1>4, <2>1, <2>4
    <3>2. ~(q < FirstPage(b + 1))
      BY <1>1, <2>1, <3>1
    <3> QED
      BY <1>2, <2>4, <2>1, <3>2
  <2> QED
    BY <2>1, <2>2, <2>3, <2>4
<1>6. \A q \in Nat : BlockOf(q) \in Nat
  BY <1>1, <1>2
<1>7. ASSUME NEW b \in Nat \ {0} PROVE FirstPage(b) # 0
  <2>1. FirstPage(b) = FirstPage(b - 1) + P /\ FirstPage(b - 1) \in Nat
    BY <1>3
  <2> QED
    BY <1>1, <2>1
<1> QED
  BY <1>1, <1>3, <1>4, <1>5, <1>6, <1>7

LEMMA PageFacts ==
    ASSUME layout \in Layouts
    PROVE  /\ FirstPage(N) \in Nat /\ Pages = 0..(FirstPage(N) - 1) /\ Pages \subseteq Nat
           /\ \A q \in Pages, p \in Nat : p <= q => p \in Pages
<1>1. FirstPage(N) \in Nat
  BY SizeAssumption, Geometry
<1> QED
  BY <1>1 DEF Pages

\* The page count byte and the size field agree for no length but their own.
LEMMA CountFacts ==
    ASSUME NEW n \in Nat \ {0}
    PROVE  /\ n <= Byte /\ n % SizePages # 0 /\ Encoded(n) \in 1..(2 * Unit)
                 /\ Decoded(Encoded(n)) = n % SizePages
              => n % SizePages = n
           /\ n < Unit /\ layout = "Bb" =>
                 n % SizePages = n /\ Encoded(n) \in 1..(2 * Unit) /\ Decoded(Encoded(n)) = n
<1> PICK U \in Nat \ {0} : U = Unit
  BY MobileAssumption
<1> PICK B \in Nat \ {0} : B = Byte
  BY MobileAssumption
<1> PICK S \in Nat \ {0} : S = SizePages
  BY MobileAssumption
<1>1. 2 * U <= S /\ S <= B
  BY MobileAssumption
<1>2. n <= B => n % B = IF n = B THEN 0 ELSE n
  OBVIOUS
<1>3. n < S => n % S = n
  OBVIOUS
<1> PICK c : c = Encoded(n)
  OBVIOUS
<1> PICK W : W = IF layout = "Bb" THEN 2 * U ELSE U
  OBVIOUS
<1>4. W \in {U, 2 * U} /\ c = IF W >= n % B THEN W - (n % B) ELSE 0
  BY DEF Encoded, Minus
<1>5. Decoded(c) = IF c = 0 THEN 0 ELSE IF c <= U THEN U - c
                   ELSE IF c <= 2 * U THEN 2 * U - c ELSE 0
  BY DEF Decoded
<1> PICK m : m = n % B
  OBVIOUS
<1> PICK z : z = n % S
  OBVIOUS
<1>6. ASSUME n <= B, z # 0, c \in 1..(2 * U), Decoded(c) = z PROVE z = n
  <2>1. m = IF n = B THEN 0 ELSE n
    BY <1>2, <1>6
  <2>2. CASE n = B
    BY <1>4, <1>5, <1>6, <2>1, <2>2
  <2>3. CASE n # B
    <3>1. m = n /\ W >= n /\ c = W - n
      BY <1>4, <1>6, <2>1, <2>3
    <3>2. n <= 2 * U
      BY <1>4, <3>1
    <3>3. n < 2 * U
      BY <1>4, <1>6, <3>1, <3>2
    <3>4. z = n
      BY <1>1, <1>3, <3>3
    <3> QED
      BY <3>4
  <2> QED
    BY <2>2, <2>3
<1>7. ASSUME n < U, layout = "Bb"
      PROVE  z = n /\ c \in 1..(2 * U) /\ Decoded(c) = n
  <2>1. z = n /\ m = n /\ W = 2 * U
    BY <1>1, <1>2, <1>3, <1>7
  <2>2. c = 2 * U - n
    BY <1>4, <1>7, <2>1
  <2> QED
    BY <1>5, <1>7, <2>1, <2>2
<1> QED
  BY <1>6, <1>7

-----------------------------------------------------------------------------
(* What is on flash. *)

Run == [slot : Slots, sequence : Nat \ {0}, start : Nat, data : Seq(PageData), done : Nat]

PagesOf(r) == r.start..(r.start + r.done - 1)
Complete(r) == r.done = Len(r.data)
BlobOf(r) == [sequence |-> r.sequence, start_page |-> r.start,
              data |-> [i \in 1..Len(r.data) |-> Padded[r.data[i]]]]
SpareOf(r, p) == Spare(p, r.slot, r.sequence, Len(r.data))

\* Short enough for the page count of a big-block layout.
Short(r) == Len(r.data) < Unit

FlashOK(R) ==
    /\ \A r \in R : r \in Run /\ r.done \in 1..Len(r.data) /\ PagesOf(r) \subseteq Pages
    /\ \A r, t \in R : r.slot = t.slot /\ r.sequence = t.sequence => r = t
    \* a page with a mobile type is of the run it names, and holds its data;
    /\ \A p \in Pages : spare[p].type # 0 =>
          \E r \in R : /\ p \in PagesOf(r) /\ spare[p] = SpareOf(r, p)
                       /\ Complete(r) /\ BlockOf(p) = BlockOf(r.start) =>
                             image[p] = Padded[r.data[p - r.start + 1]]
    \* a short run that was not interrupted has all its pages, in one block;
    /\ \A r \in R : Complete(r) /\ Short(r) =>
          \A p \in PagesOf(r) : spare[p] = SpareOf(r, p) /\ BlockOf(p) = BlockOf(r.start)
    \* what was written whole is known.
    /\ \A r \in R : Complete(r) => [slot |-> r.slot, blob |-> BlobOf(r)] \in whole
    /\ \A w \in whole : \E r \in R : Complete(r) /\ w = [slot |-> r.slot, blob |-> BlobOf(r)]

LEMMA SlotFacts == 0 \notin Slots /\ Slots \subseteq Nat /\ IsFiniteSet(Slots)
                   /\ Cardinality(Slots) \in Nat
<1>1. Cardinality(Slots) \in Nat /\ IsFiniteSet(Slots)
  BY MobileAssumption, FS_CardinalityType
<1>2. Slots = 1..Cardinality(Slots)
  BY MobileAssumption
<1> PICK n : n = Cardinality(Slots)
  OBVIOUS
<1>3. Slots = 1..n /\ n \in Nat
  BY <1>1, <1>2
<1> QED
  BY <1>1, <1>3

LEMMA PaddedFacts ==
    /\ \A d \in Seq(PageData) : \A i \in 1..Len(d) : Padded[d[i]] \in PageData
    /\ \A n \in Nat : n % SizePages \in Nat
    /\ \A n \in Nat : \A T : \A f \in [1..n -> T] : f \in Seq(T)
<1>1. ASSUME NEW d \in Seq(PageData), NEW i \in 1..Len(d) PROVE Padded[d[i]] \in PageData
  <2>1. d[i] \in PageData
    BY ElementOfSeq
  <2> QED
    BY <2>1, MobileAssumption
<1>2. ASSUME NEW n \in Nat PROVE n % SizePages \in Nat
  BY MobileAssumption
<1>3. \A n \in Nat : \A T : \A f \in [1..n -> T] : f \in Seq(T)
  BY SeqDef
<1> QED
  BY <1>1, <1>2, <1>3

\* Where a scan takes pages for a blob there is that blob.
LEMMA FoundIsThere ==
    ASSUME layout \in Layouts, NEW R, FlashOK(R), NEW p \in Pages, Starts(p), Whole(p),
           \A r \in R : r.slot = spare[p].type => Len(r.data) <= Byte
    PROVE  \E r \in R : /\ Complete(r) /\ r.start = p
                        /\ r.slot = spare[p].type /\ r.sequence = spare[p].sequence
                        /\ Len(r.data) = spare[p].size
                        /\ BlobOf(r).data = [i \in 1..spare[p].size |-> image[p + i - 1]]
<1> PICK s : s = spare[p]
  OBVIOUS
<1>1. /\ s.type \in Slots /\ s.size # 0 /\ s.count \in 1..(2 * Unit) /\ Decoded(s.count) = s.size
      /\ p + s.size - 1 \in Pages
  BY DEF Starts
<1>2. PICK r \in R : p \in PagesOf(r) /\ s = SpareOf(r, p)
  BY <1>1, SlotFacts DEF FlashOK
<1> PICK n : n = Len(r.data)
  OBVIOUS
<1>3. /\ r \in Run /\ r.done \in 1..n /\ PagesOf(r) \subseteq Pages
      /\ n \in Nat \ {0} /\ n <= Byte
      /\ s.type = r.slot /\ s.sequence = r.sequence /\ s.size = n % SizePages
      /\ s.count = Encoded(n) /\ s.block = BlockOf(p)
  BY <1>2 DEF FlashOK, SpareOf, Spare, Run
<1>4. s.size = n
  BY <1>1, <1>3, CountFacts
<1>5. p \in Nat /\ r.start \in Nat /\ r.done \in Nat /\ p >= r.start /\ Pages \subseteq Nat
  BY <1>2, <1>3 DEF PagesOf, Run, Pages
<1>6. ASSUME NEW q \in p..(p + n - 1)
      PROVE  /\ q \in PagesOf(r) /\ BlockOf(q) = BlockOf(p)
             /\ Complete(r) /\ BlockOf(q) = BlockOf(r.start) => image[q] = Padded[r.data[q - r.start + 1]]
  <2>1. q \in Pages
    <3>1. q \in Nat /\ q <= p + n - 1
      BY <1>3, <1>5
    <3>2. p + n - 1 \in Pages
      BY <1>1, <1>4
    <3> QED
      BY <3>1, <3>2, PageFacts
  <2>2. spare[q] = s
    BY <1>4 DEF Whole
  <2>3. PICK t \in R : /\ q \in PagesOf(t) /\ s = SpareOf(t, q)
                       /\ Complete(t) /\ BlockOf(q) = BlockOf(t.start) =>
                             image[q] = Padded[t.data[q - t.start + 1]]
    BY <1>1, <2>1, <2>2, SlotFacts DEF FlashOK
  <2>4. s.type = t.slot /\ s.sequence = t.sequence /\ s.block = BlockOf(q)
    BY <2>3 DEF SpareOf, Spare
  <2>5. t = r
    <3>1. t.slot = r.slot /\ t.sequence = r.sequence
      BY <1>3, <2>4
    <3>2. \A u, v \in R : u.slot = v.slot /\ u.sequence = v.sequence => u = v
      BY DEF FlashOK
    <3> QED
      BY <3>1, <3>2
  <2> QED
    BY <1>3, <2>3, <2>4, <2>5
<1>7. p = r.start /\ Complete(r)
  <2>1. p + n - 1 \in PagesOf(r)
    BY <1>3, <1>5, <1>6
  <2> QED
    BY <1>3, <1>5, <2>1 DEF PagesOf, Complete
<1>8. BlobOf(r).data = [i \in 1..n |-> image[p + i - 1]]
  <2>1. ASSUME NEW i \in 1..n PROVE Padded[r.data[i]] = image[p + i - 1]
    <3>1. p + i - 1 \in p..(p + n - 1) /\ (p + i - 1) - p + 1 = i
      BY <1>3, <1>5
    <3> QED
      BY <1>6, <1>7, <3>1
  <2> QED
    BY <2>1 DEF BlobOf
<1> QED
  BY <1>3, <1>4, <1>7, <1>8

\* A short blob is taken for one, on big blocks.
LEMMA ShortIsFound ==
    ASSUME layout \in Layouts, NEW R, FlashOK(R), NEW r \in R, Complete(r), Short(r),
           layout = "Bb"
    PROVE  /\ r.start \in Pages /\ Starts(r.start) /\ Whole(r.start)
           /\ spare[r.start] = SpareOf(r, r.start) /\ spare[r.start].size = Len(r.data)
           /\ spare[r.start].type = r.slot /\ spare[r.start].sequence = r.sequence
<1> PICK n : n = Len(r.data)
  OBVIOUS
<1> PICK p : p = r.start
  OBVIOUS
<1>1. /\ r \in Run /\ r.done = n /\ n \in Nat \ {0} /\ n < Unit /\ p \in Nat
      /\ PagesOf(r) = p..(p + n - 1) /\ PagesOf(r) \subseteq Pages
      /\ \A q \in PagesOf(r) : spare[q] = SpareOf(r, q) /\ BlockOf(q) = BlockOf(p)
  BY DEF FlashOK, Run, Complete, Short, PagesOf
<1>2. p \in PagesOf(r) /\ p + n - 1 \in PagesOf(r)
  BY <1>1
<1>3. \A q \in PagesOf(r) : spare[q] = SpareOf(r, p)
  BY <1>1 DEF SpareOf, Spare
<1>4. n % SizePages = n /\ Encoded(n) \in 1..(2 * Unit) /\ Decoded(Encoded(n)) = n
  BY <1>1, CountFacts
<1> PICK s : s = spare[p]
  OBVIOUS
<1>5. s.first = Byte - 1 /\ s.block = BlockOf(p) /\ s.type = r.slot /\ s.size = n
      /\ s.sequence = r.sequence /\ s.count = Encoded(n)
  BY <1>2, <1>3, <1>4 DEF SpareOf, Spare, FirstByte
<1>6. r.slot \in Slots /\ n <= PagesPerBlock[layout]
  <2> PICK P : P = PagesPerBlock[layout]
    OBVIOUS
  <2>1. P \in Nat /\ Unit <= P
    BY Geometry
  <2> QED
    BY <1>1, <2>1, MobileAssumption DEF Run
<1>7. Starts(p)
  BY <1>1, <1>2, <1>4, <1>5, <1>6 DEF Starts
<1>8. Whole(p)
  BY <1>1, <1>2, <1>3, <1>5 DEF Whole
<1> QED
  BY <1>1, <1>2, <1>3, <1>5, <1>7, <1>8

\* Taking one blob never passes over the start of a short one.
LEMMA NotPassedOver ==
    ASSUME NEW R, FlashOK(R), NEW p \in Pages, Starts(p), Whole(p),
           NEW t \in R, Complete(t), Short(t), t.start >= p, t.start < p + spare[p].size
    PROVE  /\ t.start = p /\ spare[p] = SpareOf(t, p)
<1>1. t \in Run /\ t.done \in 1..Len(t.data) /\ p \in Nat
  BY DEF FlashOK, Pages
<1>2. t.start \in Nat /\ t.done \in Nat \ {0} /\ t.slot \in Slots
  BY <1>1 DEF Run
<1>3. t.start \in PagesOf(t)
  BY <1>2 DEF PagesOf
<1>4. spare[t.start] = SpareOf(t, t.start)
  BY <1>3 DEF FlashOK
<1>5. spare[p].size \in Nat
  <2>1. p + spare[p].size - 1 \in Pages /\ spare[p].size # 0 /\ spare[p].type # 0
    BY SlotFacts DEF Starts
  <2>2. PICK r \in R : spare[p] = SpareOf(r, p)
    BY <2>1 DEF FlashOK
  <2>3. spare[p].size = Len(r.data) % SizePages /\ Len(r.data) \in Nat
    BY <2>2 DEF SpareOf, Spare, FlashOK, Run
  <2> QED
    BY <2>3, PaddedFacts
<1>6. spare[t.start] = spare[p]
  BY <1>1, <1>2, <1>5 DEF Whole
<1>7. spare[p].type = t.slot /\ spare[p].sequence = t.sequence
  BY <1>4, <1>6 DEF SpareOf, Spare
<1>8. spare[p].type # 0
  BY <1>2, <1>7, SlotFacts
<1>9. PICK r \in R : p \in PagesOf(r) /\ spare[p] = SpareOf(r, p)
  BY <1>8 DEF FlashOK
<1>10. r = t
  BY <1>7, <1>9 DEF SpareOf, Spare, FlashOK
<1> QED
  BY <1>1, <1>2, <1>9, <1>10 DEF PagesOf

-----------------------------------------------------------------------------
(* What depends on the layout alone does not change. *)

LEMMA LayoutKept ==
    ASSUME layout' = layout
    PROVE  /\ Pages' = Pages
           /\ \A p : BlockOf(p)' = BlockOf(p)
           /\ \A b : FirstPage(b)' = FirstPage(b)
           /\ \A p, k, s, n : Spare(p, k, s, n)' = Spare(p, k, s, n)
           /\ \A r, p : SpareOf(r, p)' = SpareOf(r, p)
<1>1. \A b : FirstPage(b)' = FirstPage(b)
  BY DEF FirstPage
<1>2. \A p : BlockOf(p)' = BlockOf(p)
  BY DEF BlockOf
<1>3. Pages' = Pages
  BY DEF Pages, FirstPage
<1>4. ASSUME NEW p, NEW k, NEW s, NEW n
      PROVE  Spare(p, k, s, n)' = Spare(p, k, s, n)
  BY <1>2 DEF Spare, FirstByte, Encoded
<1>5. \A r, p : SpareOf(r, p)' = SpareOf(r, p)
  BY <1>4 DEF SpareOf
<1> QED
  BY <1>1, <1>2, <1>3, <1>4, <1>5

LEMMA FlashKept ==
    ASSUME NEW R, FlashOK(R), UNCHANGED <<layout, image, spare, whole>>
    PROVE  FlashOK(R)'
<1>1. /\ Pages' = Pages
      /\ \A p : BlockOf(p)' = BlockOf(p)
      /\ \A r, p : SpareOf(r, p)' = SpareOf(r, p)
  BY LayoutKept
<1>2. image' = image /\ spare' = spare /\ whole' = whole
  OBVIOUS
<1> QED
  BY <1>1, <1>2 DEF FlashOK

\* FlashOK after a step, from what the step leaves.
LEMMA FlashNext ==
    ASSUME layout' = layout, NEW R,
           \A r \in R : r \in Run /\ r.done \in 1..Len(r.data) /\ PagesOf(r) \subseteq Pages,
           \A r, t \in R : r.slot = t.slot /\ r.sequence = t.sequence => r = t,
           \A p \in Pages : spare'[p].type # 0 =>
              \E r \in R : /\ p \in PagesOf(r) /\ spare'[p] = SpareOf(r, p)
                           /\ Complete(r) /\ BlockOf(p) = BlockOf(r.start) =>
                                 image'[p] = Padded[r.data[p - r.start + 1]],
           \A r \in R : Complete(r) /\ Short(r) =>
              \A p \in PagesOf(r) : spare'[p] = SpareOf(r, p) /\ BlockOf(p) = BlockOf(r.start),
           \A r \in R : Complete(r) => [slot |-> r.slot, blob |-> BlobOf(r)] \in whole',
           \A w \in whole' : \E r \in R : Complete(r) /\ w = [slot |-> r.slot, blob |-> BlobOf(r)]
    PROVE  FlashOK(R)'
<1>1. /\ Pages' = Pages
      /\ \A p : BlockOf(p)' = BlockOf(p)
      /\ \A r, p : SpareOf(r, p)' = SpareOf(r, p)
  BY LayoutKept
<1> QED
  BY <1>1 DEF FlashOK

-----------------------------------------------------------------------------
(* The console. *)

\* Where there is room the pages are erased, and all in one block.
LEMMA RoomFacts ==
    ASSUME layout \in Layouts, NEW b \in FirstUsable..(ReserveStart - 1),
           NEW n \in Nat \ {0}, NEW p \in Room(b, n)
    PROVE  /\ p \in Nat /\ FirstPage(b) <= p /\ p + n <= FirstPage(b + 1)
           /\ \A q \in p..(p + n - 1) : q \in Pages /\ image[q] = Erased /\ BlockOf(q) = b
<1>1. b \in Nat /\ N \in Nat /\ b < N
  BY SizeAssumption
<1> PICK low : low = FirstPage(b)
  OBVIOUS
<1> PICK last : last = FirstPage(b + 1)
  OBVIOUS
<1>2. /\ low \in Nat /\ last \in Nat /\ low <= last /\ last <= FirstPage(N)
      /\ FirstPage(N) \in Nat
      /\ \A q \in Nat : BlockOf(q) = b <=> low <= q /\ q < last
  <2> PICK P : P = PagesPerBlock[layout]
    OBVIOUS
  <2>1. low \in Nat /\ last = low + P /\ P \in Nat /\ FirstPage(N) \in Nat
    BY <1>1, Geometry
  <2>2. last <= FirstPage(N)
    BY <1>1, Geometry
  <2>3. \A q \in Nat : BlockOf(q) = b <=> low <= q /\ q < last
    BY <1>1, Geometry
  <2> QED
    BY <2>1, <2>2, <2>3
<1> DEFINE Fit(x) == /\ x = last \/ BlockOf(x) = b
                     /\ \A q \in x..(last - 1) : image[q] = Erased
                     /\ x > low => image[x - 1] # Erased
           S == {x \in low..last : \A q \in x..(last - 1) : image[q] = Erased}
           first == CHOOSE x \in Pages \cup {last} : Fit(x)
<1>3. p = first /\ first + n <= last
  BY DEF Room
<1>4. \E x \in Pages \cup {last} : Fit(x)
  <2>1. last \in S
    BY <1>2
  <2>2. S \subseteq Nat
    BY <1>2
  <2> PICK m : m = Least(S)
    OBVIOUS
  <2>3. m \in S /\ \A y \in S : m <= y
    BY <2>1, <2>2, LeastFact
  <2>4. m \in Nat /\ low <= m /\ m <= last
    BY <1>2, <2>3
  <2>5. m \in Pages \cup {last} /\ (m = last \/ BlockOf(m) = b)
    BY <1>2, <2>4 DEF Pages
  <2>6. ASSUME m > low, image[m - 1] = Erased PROVE FALSE
    <3>1. m - 1 \in low..last
      BY <1>2, <2>4, <2>6
    <3>2. \A q \in (m - 1)..(last - 1) : q = m - 1 \/ q \in m..(last - 1)
      BY <1>2, <2>4
    <3>3. m - 1 \in S
      BY <2>3, <2>6, <3>1, <3>2
    <3>4. ~(m <= m - 1)
      BY <2>4
    <3> QED
      BY <2>3, <3>3, <3>4
  <2> QED
    BY <2>3, <2>5, <2>6
<1>5. first \in Pages \cup {last} /\ Fit(first)
  <2> HIDE DEF Fit
  <2> QED
    BY <1>4
<1>6. /\ p \in Nat /\ low <= p /\ p + n <= last
      /\ \A q \in p..(last - 1) : image[q] = Erased
  <2>1. p \in Pages \cup {last} /\ (p = last \/ BlockOf(p) = b)
        /\ \A q \in p..(last - 1) : image[q] = Erased
    BY <1>3, <1>5
  <2>2. p \in Nat
    BY <1>2, <2>1 DEF Pages
  <2> QED
    BY <1>2, <1>3, <2>1, <2>2
<1>7. ASSUME NEW q \in p..(p + n - 1)
      PROVE  q \in Pages /\ image[q] = Erased /\ BlockOf(q) = b
  <2>1. q \in Nat /\ low <= q /\ q < last /\ q \in p..(last - 1)
    BY <1>2, <1>6
  <2> QED
    BY <1>2, <1>6, <2>1 DEF Pages
<1> QED
  BY <1>6, <1>7

-----------------------------------------------------------------------------
(* Types. *)

Types ==
    /\ layout \in Layouts
    /\ image \in [Pages -> PageData \cup {Blank, Erased}]
    /\ \A p \in Pages : spare[p].size \in Nat /\ spare[p].sequence \in Nat
    /\ sequence \in Nat
    /\ TypeOK
    /\ stage = "writing" =>
          /\ \A k \in Slots : store[k].data \in Seq(PageData)
          /\ \A b \in Blocks : b >= ReserveStart => block_map[b] # Free

\* The block write_logical takes.
LEMMA RoomFound ==
    ASSUME Types, stage = "writing", MapRoom # {}, NEW b, b = Least(MapRoom)
    PROVE  /\ b \in MapRoom /\ b \in FirstUsable..(ReserveStart - 1) /\ b \in Nat \ {0}
           /\ \A c \in MapRoom : c \in Nat /\ b <= c
           /\ FirstPage(b) \in Pages /\ FirstPage(b) # 0
<1>1. MapRoom \subseteq Blocks /\ Blocks \subseteq Nat
  BY WordFacts DEF MapRoom, FreeFrom
<1>2. b \in MapRoom /\ \A c \in MapRoom : c \in Nat /\ b <= c
  BY <1>1, LeastFact
<1>3. b \in Blocks /\ b >= FirstUsable /\ block_map[b] = Free
  BY <1>2 DEF MapRoom, FreeFrom
<1>4. b \in Nat /\ b < ReserveStart /\ ReserveStart <= N /\ ReserveStart \in Nat /\ N \in Nat
      /\ FirstUsable \in Nat \ {0}
  BY <1>1, <1>3, SizeAssumption DEF Types
<1>5. b \in Nat \ {0} /\ b \in FirstUsable..(ReserveStart - 1) /\ b < N
  BY <1>3, <1>4
<1> PICK P : P = PagesPerBlock[layout]
  OBVIOUS
<1>6. layout \in Layouts
  BY DEF Types
<1>7. P \in Nat \ {0} /\ FirstPage(b) \in Nat /\ FirstPage(b + 1) = FirstPage(b) + P
      /\ FirstPage(b) # 0
  BY <1>5, <1>6, Geometry
<1>8. FirstPage(b + 1) <= FirstPage(N) /\ FirstPage(N) \in Nat
  BY <1>4, <1>5, <1>6, Geometry
<1>9. FirstPage(b) \in Pages
  BY <1>7, <1>8 DEF Pages
<1> QED
  BY <1>2, <1>5, <1>7, <1>9

LEMMA ConsoleTypes ==
    ASSUME Types, NEW k \in Slots, NEW d \in Versions, NEW b \in FirstUsable..(ReserveStart - 1),
           NEW done \in 1..Len(d), ConsoleWrites(k, d, b, done)
    PROVE  Types'
<1>1. layout' = layout /\ layout \in Layouts
  BY DEF ConsoleWrites, Types
<1>2. Pages' = Pages /\ FirstPage(N)' = FirstPage(N)
  BY <1>1, LayoutKept
<1>3. d \in Seq(PageData) /\ Len(d) \in Nat \ {0}
  <2>1. d \in Seq(PageData) /\ d # <<>>
    BY MobileAssumption
  <2> QED
    BY <2>1, EmptySeq
<1>4. PICK p \in Room(b, Len(d)) :
         /\ image' = [q \in Pages |-> IF q \in p..(p + done - 1) THEN Padded[d[q - p + 1]]
                                      ELSE image[q]]
         /\ spare' = [q \in Pages |-> IF q \in p..(p + done - 1)
                                      THEN Spare(q, k, sequence + 1, Len(d)) ELSE spare[q]]
  BY DEF ConsoleWrites
<1>5. p \in Nat
  BY <1>1, <1>3, RoomFacts
<1>6. image' \in [Pages -> PageData \cup {Blank, Erased}]
  <2>1. ASSUME NEW q \in p..(p + done - 1) PROVE Padded[d[q - p + 1]] \in PageData
    <3>1. q - p + 1 \in 1..Len(d)
      BY <1>3, <1>5
    <3> QED
      BY <1>3, <3>1, PaddedFacts
  <2>2. \A q \in Pages : image[q] \in PageData \cup {Blank, Erased}
    BY DEF Types
  <2>3. image' = [q \in Pages |-> IF q \in p..(p + done - 1) THEN Padded[d[q - p + 1]]
                                  ELSE image[q]]
    BY <1>4
  <2>4. \A q \in Pages : (IF q \in p..(p + done - 1) THEN Padded[d[q - p + 1]] ELSE image[q])
                         \in PageData \cup {Blank, Erased}
    BY <2>1, <2>2
  <2> PICK T : T = PageData \cup {Blank, Erased}
    OBVIOUS
  <2> PICK g : g = [q \in Pages |-> IF q \in p..(p + done - 1) THEN Padded[d[q - p + 1]]
                                   ELSE image[q]]
    OBVIOUS
  <2>5. g \in [Pages -> T]
    BY <2>4, Zenon
  <2> QED
    BY <2>3, <2>5
<1>7. \A q \in Pages : spare'[q].size \in Nat /\ spare'[q].sequence \in Nat
  <2>1. Len(d) % SizePages \in Nat /\ sequence + 1 \in Nat
    BY <1>3, PaddedFacts DEF Types
  <2>2. \A q : Spare(q, k, sequence + 1, Len(d)).size \in Nat
               /\ Spare(q, k, sequence + 1, Len(d)).sequence \in Nat
    BY <2>1 DEF Spare
  <2>3. \A q \in Pages : spare[q].size \in Nat /\ spare[q].sequence \in Nat
    BY DEF Types
  <2> QED
    BY <1>4, <2>2, <2>3
<1>8. /\ stage' = stage /\ stage = "console" /\ store' = store /\ block_map' = block_map
      /\ at' = at /\ sequence' = sequence + 1
  BY DEF ConsoleWrites
<1>9. TypeOK'
  <2>1. \A q \in Pages' : image'[q] \in PageData \cup {Blank, Erased}
    BY <1>2, <1>6
  <2> QED
    BY <1>2, <1>8, <2>1 DEF Types, TypeOK
<1>10. sequence' \in Nat
  BY <1>8 DEF Types
<1> QED
  BY <1>1, <1>2, <1>6, <1>7, <1>8, <1>9, <1>10 DEF Types

LEMMA ScanTypes ==
    ASSUME Types, ScanPage
    PROVE  Types'
<1>1. layout' = layout /\ layout \in Layouts
  BY DEF ScanPage, Types
<1>2. Pages' = Pages /\ FirstPage(N)' = FirstPage(N)
  BY <1>1, LayoutKept
<1>3. FirstPage(N) \in Nat /\ Pages = 0..(FirstPage(N) - 1)
  BY <1>1, PageFacts
<1>4. /\ stage' = stage /\ stage \in {"scanning", "rescanning"} /\ at \in Pages
      /\ UNCHANGED <<image, spare, block_map, sequence>>
  BY DEF ScanPage
<1>5. store \in [Slots -> Blob] /\ image \in [Pages -> PageData \cup {Blank, Erased}]
      /\ spare[at].size \in Nat /\ spare[at].sequence \in Nat
  BY <1>4 DEF Types, TypeOK
<1>6. store' \in [Slots -> Blob] /\ at' \in 0..FirstPage(N)
  <2>1. CASE at' = at + 1 /\ store' = store
    BY <1>3, <1>4, <1>5, <2>1
  <2>2. CASE /\ Starts(at) /\ at' = at + spare[at].size
             /\ store' = IF Newer(spare[at].type, at)
                         THEN [store EXCEPT ![spare[at].type] =
                                 [sequence |-> spare[at].sequence, start_page |-> at,
                                  data |-> [i \in 1..spare[at].size |-> image[at + i - 1]]]]
                         ELSE store
    <3> PICK n : n = spare[at].size
      OBVIOUS
    <3>1. at + n - 1 \in Pages /\ spare[at].type \in Slots /\ n \in Nat /\ at \in Nat
      <4>1. at + n - 1 \in Pages /\ spare[at].type \in Slots
        BY <2>2 DEF Starts
      <4>2. n \in Nat
        BY <1>5
      <4>3. at \in Nat
        BY <1>3, <1>4
      <4> QED
        BY <4>1, <4>2, <4>3
    <3> PICK M : M = FirstPage(N)
      OBVIOUS
    <3>2. M \in Nat /\ at + n - 1 \in 0..(M - 1) /\ Pages = 0..(M - 1)
      BY <1>3, <3>1
    <3>3. at' = at + n
      BY <2>2
    <3>4. at' \in 0..FirstPage(N)
      <4>1. at \in Nat /\ n \in Nat
        BY <3>1
      <4>2. at + n \in 0..M
        BY <3>2, <4>1
      <4> QED
        BY <3>3, <4>2
    <3>5. [i \in 1..n |-> image[at + i - 1]] \in [1..n -> PageData \cup {Blank, Erased}]
      <4>1. \A i \in 1..n : at + i - 1 \in Pages
        <5> TAKE i \in 1..n
        <5>1. at \in Nat /\ n \in Nat
          BY <3>1
        <5> QED
          BY <3>2, <5>1
      <4> QED
        BY <1>5, <4>1
    <3>6. [i \in 1..n |-> image[at + i - 1]] \in Seq(PageData \cup {Blank, Erased})
      BY <3>1, <3>5, PaddedFacts
    <3>7. [sequence |-> spare[at].sequence, start_page |-> at,
           data |-> [i \in 1..n |-> image[at + i - 1]]] \in Blob
      BY <1>5, <3>1, <3>6 DEF Blob
    <3> QED
      BY <1>5, <2>2, <3>1, <3>4, <3>7
  <2> QED
    BY <2>1, <2>2 DEF ScanPage
<1> QED
  BY <1>1, <1>2, <1>4, <1>6 DEF Types, TypeOK

\* The slot that has the last word on a page.
LEMMA OwnerFact ==
    ASSUME NEW p, Covers(p) # {}
    PROVE  Owner(p) \in Covers(p) /\ \A i \in Covers(p) : i <= Owner(p)
<1> PICK n \in Nat : n = Cardinality(Slots)
  BY SlotFacts
<1>1. Covers(p) \subseteq 1..n
  BY MobileAssumption DEF Covers
<1> PICK S : S = {x \in Nat : \E k \in Covers(p) : x = n - k}
  OBVIOUS
<1>2. S # {} /\ S \subseteq Nat
  <2>1. PICK k : k \in Covers(p)
    OBVIOUS
  <2>2. n - k \in Nat
    BY <1>1, <2>1
  <2> QED
    BY <2>1, <2>2
<1>3. PICK m \in S : \A y \in S : m <= y
  BY <1>2, LeastFact
<1>4. PICK k \in Covers(p) : m = n - k
  BY <1>3
<1>5. ASSUME NEW i \in Covers(p) PROVE i <= k
  <2>1. n - i \in S
    BY <1>1
  <2>2. n - k <= n - i
    BY <1>3, <1>4, <2>1
  <2> QED
    BY <1>1, <2>2
<1> QED
  BY <1>5 DEF Owner

LEMMA BuildTypes ==
    ASSUME Types, Build
    PROVE  Types'
<1>1. layout' = layout /\ layout \in Layouts
  BY DEF Build, Types
<1>2. Pages' = Pages
  BY <1>1, LayoutKept
<1>3. /\ stage' = "writing" /\ at' = 1 /\ sequence' = 0 /\ block_map' \in Maps
      /\ image' = [p \in Pages |-> Blank] /\ spare' = [p \in Pages |-> ErasedSpare]
  BY DEF Build
<1>4. PICK folder \in Folders :
         store' = [k \in Slots |-> IF folder[k] = <<>> THEN NoBlob
                                   ELSE [sequence |-> 1, start_page |-> 0, data |-> folder[k]]]
  BY DEF Build
<1>5. /\ \A k \in Slots : folder[k] \in Seq(PageData)
      /\ <<>> \in Seq(PageData)
      /\ Seq(PageData) \subseteq Seq(PageData \cup {Blank, Erased})
  <2>1. folder \in [Slots -> Seq(PageData)]
    BY MobileAssumption
  <2>2. \A d \in Seq(PageData) : d \in Seq(PageData \cup {Blank, Erased})
    BY SeqMonotonic
  <2> QED
    BY <2>1, <2>2, EmptySeq
<1>6. /\ store' \in [Slots -> Blob]
      /\ \A k \in Slots : store'[k].data \in Seq(PageData) /\ store'[k].start_page = 0
  <2>1. ASSUME NEW k \in Slots
        PROVE  /\ store'[k] \in Blob
               /\ store'[k].data \in Seq(PageData) /\ store'[k].start_page = 0
    BY <1>4, <1>5 DEF Blob, NoBlob
  <2> QED
    BY <1>4, <2>1
<1>7. at' \in 1..(Cardinality(Slots) + 1)
  BY <1>3, SlotFacts
<1>8. /\ block_map' \in [Blocks -> Words]
      /\ \A b \in Blocks : b >= ReserveStart => block_map'[b] # Free
  BY <1>3, MobileAssumption
<1>9. \A p \in Pages : spare'[p].size \in Nat /\ spare'[p].sequence \in Nat
  BY <1>3 DEF ErasedSpare
<1>10. TypeOK'
  BY <1>2, <1>3, <1>6, <1>7, <1>8 DEF TypeOK
<1> QED
  BY <1>1, <1>2, <1>3, <1>6, <1>8, <1>9, <1>10 DEF Types

LEMMA WriteTypes ==
    ASSUME Types, WriteSlot
    PROVE  Types'
<1>1. layout' = layout /\ layout \in Layouts
  BY DEF WriteSlot, Types
<1>2. Pages' = Pages /\ \A b : FirstPage(b)' = FirstPage(b)
  BY <1>1, LayoutKept
<1>3. /\ stage' = stage /\ stage = "writing" /\ at \in Slots /\ at' = at + 1
      /\ spare' = spare /\ sequence' = sequence
  BY DEF WriteSlot
<1>4. /\ store \in [Slots -> Blob] /\ block_map \in [Blocks -> Words]
      /\ \A k \in Slots : store[k].data \in Seq(PageData)
      /\ \A b \in Blocks : b >= ReserveStart => block_map[b] # Free
      /\ image \in [Pages -> PageData \cup {Blank, Erased}]
      /\ \A k \in Slots : store[k].start_page # 0 =>
            \E b \in FirstUsable..(ReserveStart - 1) : store[k].start_page = FirstPage(b)
  BY <1>3 DEF Types, TypeOK
<1>5. at' \in 1..(Cardinality(Slots) + 1)
  <2> PICK n \in Nat : n = Cardinality(Slots)
    BY SlotFacts
  <2>1. at \in 1..n
    BY <1>3, MobileAssumption
  <2> QED
    BY <1>3, <2>1
<1>6. /\ image' \in [Pages -> PageData \cup {Blank, Erased}]
      /\ store' \in [Slots -> Blob] /\ block_map' \in [Blocks -> Words]
      /\ \A k \in Slots : store'[k].data \in Seq(PageData)
      /\ \A b \in Blocks : b >= ReserveStart => block_map'[b] # Free
      /\ \A k \in Slots : store'[k].start_page # 0 =>
            \E b \in FirstUsable..(ReserveStart - 1) : store'[k].start_page = FirstPage(b)
  <2> PICK d : d = store[at].data
    OBVIOUS
  <2> PICK b : b = Least(MapRoom)
    OBVIOUS
  <2> PICK p : p = FirstPage(b)
    OBVIOUS
  <2> PICK zeroed : zeroed = [q \in Pages |-> IF BlockOf(q) = b THEN Blank ELSE image[q]]
    OBVIOUS
  <2>1. CASE UNCHANGED <<image, store, block_map>>
    BY <1>4, <2>1
  <2>2. CASE /\ MapRoom # {}
             /\ block_map' = [block_map EXCEPT ![b] = Reserved]
             /\ store' = [store EXCEPT ![at].start_page = p]
             /\ image' = zeroed \/ image' = [q \in Pages |-> IF q \in p..(p + Len(d) - 1)
                                                             THEN Padded[d[q - p + 1]] ELSE zeroed[q]]
    <3>1. b \in FirstUsable..(ReserveStart - 1) /\ p \in Pages
      BY <1>3, <2>2, RoomFound
    <3>2. p \in Nat /\ d \in Seq(PageData) /\ Len(d) \in Nat
      <4>1. Pages \subseteq Nat
        BY <1>1, PageFacts
      <4> QED
        BY <1>3, <1>4, <3>1, <4>1, LenProperties
    <3>3. zeroed \in [Pages -> PageData \cup {Blank, Erased}]
      BY <1>4
    <3>4. ASSUME NEW q \in p..(p + Len(d) - 1) PROVE Padded[d[q - p + 1]] \in PageData
      <4>1. q - p + 1 \in 1..Len(d)
        BY <3>2
      <4> QED
        BY <3>2, <4>1, PaddedFacts
    <3>5. image' \in [Pages -> PageData \cup {Blank, Erased}]
      BY <2>2, <3>3, <3>4
    <3>6. block_map' \in [Blocks -> Words] /\ \A c \in Blocks : c >= ReserveStart => block_map'[c] # Free
      <4>1. block_map' = [block_map EXCEPT ![b] = Reserved] /\ Reserved \in Words /\ Reserved # Free
        BY <2>2 DEF Words, Reserved, Free
      <4>2. block_map' \in [Blocks -> Words]
        BY <1>4, <4>1
      <4>3. ASSUME NEW c \in Blocks, c >= ReserveStart PROVE block_map'[c] # Free
        BY <1>4, <4>1, <4>3
      <4> QED
        BY <4>2, <4>3
    <3>7. /\ store' \in [Slots -> Blob]
          /\ \A k \in Slots : store'[k].data = store[k].data
          /\ \A k \in Slots : store'[k].start_page = IF k = at THEN p ELSE store[k].start_page
      <4>1. store' = [store EXCEPT ![at].start_page = p] /\ store \in [Slots -> Blob]
        BY <1>4, <2>2
      <4>2. store[at] \in Blob /\ [store[at] EXCEPT !.start_page = p] \in Blob
        BY <1>3, <1>4, <3>2 DEF Blob
      <4>3. \A k \in Slots : store'[k] = IF k = at THEN [store[at] EXCEPT !.start_page = p]
                                         ELSE store[k]
        BY <4>1
      <4>4. store' \in [Slots -> Blob]
        BY <4>1, <4>2
      <4>5. [store[at] EXCEPT !.start_page = p].data = store[at].data
            /\ [store[at] EXCEPT !.start_page = p].start_page = p
        BY <1>3, <4>1 DEF Blob
      <4> QED
        BY <4>2, <4>3, <4>4, <4>5
    <3> QED
      BY <1>4, <3>1, <3>5, <3>6, <3>7
  <2> QED
    BY <2>1, <2>2 DEF WriteSlot
<1>7. TypeOK'
  BY <1>2, <1>3, <1>5, <1>6 DEF TypeOK
<1> QED
  BY <1>1, <1>2, <1>3, <1>6, <1>7 DEF Types

LEMMA FinalizeTypes ==
    ASSUME Types, Finalize
    PROVE  Types'
<1>1. layout' = layout /\ layout \in Layouts
  BY DEF Finalize, Types
<1>2. Pages' = Pages /\ \A b : FirstPage(b)' = FirstPage(b)
  BY <1>1, LayoutKept
<1>3. /\ stage' = "spare" /\ stage = "writing"
      /\ UNCHANGED <<store, block_map, at, sequence>>
      /\ image' = [p \in Pages |-> IF BlockOf(p) >= ReserveStart THEN Erased ELSE image[p]]
  BY DEF Finalize
<1>4. image' \in [Pages -> PageData \cup {Blank, Erased}]
  BY <1>3 DEF Types
<1>5. ASSUME NEW p \in Pages PROVE spare'[p].size \in Nat /\ spare'[p].sequence \in Nat
  <2>1. ErasedSpare.size \in Nat /\ ErasedSpare.sequence \in Nat
        /\ PlainSpare(p).size \in Nat /\ PlainSpare(p).sequence \in Nat
    BY DEF ErasedSpare, PlainSpare
  <2>2. ASSUME Covers(p) # {}, NEW k, k = Owner(p)
        PROVE  Spare(p, k, store[k].sequence, Len(store[k].data)).size \in Nat
               /\ Spare(p, k, store[k].sequence, Len(store[k].data)).sequence \in Nat
    <3>1. k \in Slots
      BY <2>2, OwnerFact DEF Covers
    <3>2. store[k].data \in Seq(PageData) /\ store[k].sequence \in Nat
      BY <1>3, <3>1 DEF Types, TypeOK, Blob
    <3>3. Len(store[k].data) \in Nat
      BY <3>2, LenProperties
    <3> QED
      BY <3>2, <3>3, PaddedFacts DEF Spare
  <2>3. spare' = [q \in Pages |->
                    IF BlockOf(q) >= ReserveStart THEN ErasedSpare
                    ELSE IF Covers(q) = {} THEN PlainSpare(q)
                    ELSE LET k == Owner(q)
                         IN  Spare(q, k, store[k].sequence, Len(store[k].data))]
    BY DEF Finalize
  <2> QED
    BY <2>1, <2>2, <2>3
<1>6. TypeOK'
  BY <1>2, <1>3, <1>4 DEF Types, TypeOK
<1> QED
  BY <1>1, <1>2, <1>3, <1>4, <1>5, <1>6 DEF Types

-----------------------------------------------------------------------------
(* The console leaves flash in order, wherever its power fails. *)

Console(R) == \A r \in R : /\ r.sequence <= sequence /\ r.data \in Versions
                           /\ Len(r.data) <= Byte

LEMMA ConsoleFlash ==
    ASSUME Types, NEW R, FlashOK(R), Console(R),
           NEW k \in Slots, NEW d \in Versions, NEW b \in FirstUsable..(ReserveStart - 1),
           NEW done \in 1..Len(d), ConsoleWrites(k, d, b, done)
    PROVE  \E Q : FlashOK(Q)' /\ Console(Q)'
<1>1. layout' = layout /\ layout \in Layouts
  BY DEF ConsoleWrites, Types
<1>2. /\ Pages' = Pages
      /\ \A p : BlockOf(p)' = BlockOf(p)
      /\ \A p, j, s, n : Spare(p, j, s, n)' = Spare(p, j, s, n)
      /\ \A r, p : SpareOf(r, p)' = SpareOf(r, p)
  BY <1>1, LayoutKept
<1>3. d \in Seq(PageData) /\ Len(d) \in Nat \ {0}
  <2>1. d \in Seq(PageData) /\ d # <<>>
    BY MobileAssumption
  <2> QED
    BY <2>1, EmptySeq
<1> PICK p \in Room(b, Len(d)) :
       /\ image' = [q \in Pages |-> IF q \in p..(p + done - 1) THEN Padded[d[q - p + 1]]
                                    ELSE image[q]]
       /\ spare' = [q \in Pages |-> IF q \in p..(p + done - 1)
                                    THEN Spare(q, k, sequence + 1, Len(d)) ELSE spare[q]]
       /\ whole' = IF done < Len(d) THEN whole ELSE whole \cup {OnFlash(k, sequence + 1, p, d)}
  BY DEF ConsoleWrites
<1>4. /\ p \in Nat /\ FirstPage(b) <= p /\ p + Len(d) <= FirstPage(b + 1)
      /\ \A q \in p..(p + Len(d) - 1) : q \in Pages /\ image[q] = Erased /\ BlockOf(q) = b
  BY <1>1, <1>3, RoomFacts
<1>5. sequence \in Nat /\ sequence' = sequence + 1
  BY DEF ConsoleWrites, Types
<1> PICK r : r = [slot |-> k, sequence |-> sequence + 1, start |-> p, data |-> d, done |-> done]
  OBVIOUS
<1> PICK Q : Q = R \cup {r}
  OBVIOUS
<1>6. /\ r \in Run /\ r.done \in 1..Len(r.data)
      /\ PagesOf(r) = p..(p + done - 1) /\ PagesOf(r) \subseteq p..(p + Len(d) - 1)
      /\ PagesOf(r) \subseteq Pages
      /\ \A q \in PagesOf(r) : BlockOf(q) = b /\ image[q] = Erased
      /\ BlockOf(r.start) = b
  <2>1. r \in Run
    BY <1>3, <1>4, <1>5 DEF Run
  <2>2. PagesOf(r) = p..(p + done - 1)
    BY DEF PagesOf
  <2>3. PagesOf(r) \subseteq p..(p + Len(d) - 1)
    BY <1>3, <1>4, <2>2
  <2>4. p \in p..(p + Len(d) - 1)
    BY <1>3, <1>4
  <2> QED
    BY <1>3, <1>4, <2>1, <2>2, <2>3, <2>4
<1>7. \A q \in PagesOf(r) : spare'[q] = SpareOf(r, q) /\ image'[q] = Padded[r.data[q - r.start + 1]]
  BY <1>6 DEF SpareOf
<1>8. \A q \in Pages : q \notin PagesOf(r) => spare'[q] = spare[q] /\ image'[q] = image[q]
  BY <1>6
<1>9. /\ \A t \in Q : t \in Run /\ t.done \in 1..Len(t.data) /\ PagesOf(t) \subseteq Pages
      /\ \A t, u \in Q : t.slot = u.slot /\ t.sequence = u.sequence => t = u
  <2>1. \A t \in R : t.sequence # r.sequence
    <3> TAKE t \in R
    <3>1. t.sequence \in Nat /\ t.sequence <= sequence
      BY DEF FlashOK, Run, Console
    <3>2. t.sequence # sequence + 1
      BY <1>5, <3>1
    <3> QED
      BY <3>2
  <2> QED
    BY <1>6, <2>1 DEF FlashOK
<1>10. ASSUME NEW q \in Pages, spare'[q].type # 0
       PROVE  \E t \in Q : /\ q \in PagesOf(t) /\ spare'[q] = SpareOf(t, q)
                           /\ Complete(t) /\ BlockOf(q) = BlockOf(t.start) =>
                                 image'[q] = Padded[t.data[q - t.start + 1]]
  <2>1. CASE q \in PagesOf(r)
    BY <1>7, <2>1
  <2>2. CASE q \notin PagesOf(r)
    <3>1. spare'[q] = spare[q] /\ image'[q] = image[q]
      BY <1>8, <2>2
    <3> QED
      BY <1>10, <3>1 DEF FlashOK
  <2> QED
    BY <2>1, <2>2
<1>11. ASSUME NEW t \in Q, Complete(t), Short(t), NEW q \in PagesOf(t)
       PROVE  spare'[q] = SpareOf(t, q) /\ BlockOf(q) = BlockOf(t.start)
  <2>1. CASE t = r
    BY <1>6, <1>7, <1>11, <2>1
  <2>2. CASE t \in R
    <3>1. spare[q] = SpareOf(t, q) /\ BlockOf(q) = BlockOf(t.start) /\ q \in Pages
      BY <1>11, <2>2 DEF FlashOK
    <3>2. t \in Run /\ t.done \in 1..Len(t.data)
      BY <2>2 DEF FlashOK
    <3>3. spare[q].type # 0
      BY <3>1, <3>2, SlotFacts DEF SpareOf, Spare, Run
    <3>4. PICK u \in R : /\ q \in PagesOf(u) /\ spare[q] = SpareOf(u, q)
                         /\ Complete(u) /\ BlockOf(q) = BlockOf(u.start) =>
                               image[q] = Padded[u.data[q - u.start + 1]]
      BY <3>1, <3>3 DEF FlashOK
    <3>5. u.slot = t.slot /\ u.sequence = t.sequence
      BY <3>1, <3>4 DEF SpareOf, Spare
    <3>6. u = t
      BY <2>2, <3>5 DEF FlashOK
    <3>7. image[q] = Padded[t.data[q - t.start + 1]]
      BY <1>11, <3>1, <3>4, <3>6
    <3>8. q - t.start + 1 \in 1..Len(t.data) /\ t.data \in Seq(PageData)
      BY <1>11, <3>2 DEF PagesOf, Complete, Run
    <3>9. image[q] # Erased
      BY <3>7, <3>8, PaddedFacts, MobileAssumption
    <3>10. q \notin PagesOf(r)
      BY <1>6, <3>9
    <3> QED
      BY <1>8, <3>1, <3>10
  <2> QED
    BY <2>1, <2>2
<1>12. OnFlash(k, sequence + 1, p, d) = [slot |-> r.slot, blob |-> BlobOf(r)]
       /\ (Complete(r) <=> ~(done < Len(d)))
  BY <1>3 DEF OnFlash, BlobOf, Complete
<1>13. /\ \A t \in Q : Complete(t) => [slot |-> t.slot, blob |-> BlobOf(t)] \in whole'
       /\ \A w \in whole' : \E t \in Q : Complete(t) /\ w = [slot |-> t.slot, blob |-> BlobOf(t)]
  <2>1. /\ \A t \in R : Complete(t) => [slot |-> t.slot, blob |-> BlobOf(t)] \in whole
        /\ \A w \in whole : \E t \in R : Complete(t) /\ w = [slot |-> t.slot, blob |-> BlobOf(t)]
    BY DEF FlashOK
  <2> PICK w1 : w1 = [slot |-> r.slot, blob |-> BlobOf(r)]
    OBVIOUS
  <2>2. whole' = IF Complete(r) THEN whole \cup {w1} ELSE whole
    BY <1>12
  <2>3. ASSUME NEW t \in Q, Complete(t) PROVE [slot |-> t.slot, blob |-> BlobOf(t)] \in whole'
    <3>1. CASE t = r
      BY <2>2, <2>3, <3>1
    <3>2. CASE t \in R
      BY <2>1, <2>2, <2>3, <3>2
    <3> QED
      BY <3>1, <3>2
  <2>4. ASSUME NEW w \in whole'
        PROVE  \E t \in Q : Complete(t) /\ w = [slot |-> t.slot, blob |-> BlobOf(t)]
    <3>1. CASE w \in whole
      BY <2>1, <3>1
    <3>2. CASE w \notin whole
      <4>1. w = w1 /\ Complete(r)
        BY <2>2, <2>4, <3>2
      <4> QED
        BY <4>1
    <3> QED
      BY <3>1, <3>2
  <2> QED
    BY <2>3, <2>4
<1>14. FlashOK(Q)'
  BY <1>1, <1>9, <1>10, <1>11, <1>13, FlashNext, ZenonT(30)
<1>15. Len(d) <= Byte
  <2> PICK P : P = PagesPerBlock[layout]
    OBVIOUS
  <2>1. b \in Nat
    BY SizeAssumption
  <2>2. P \in Nat /\ P <= Byte
    BY <1>1, Geometry
  <2>3. FirstPage(b) \in Nat /\ FirstPage(b + 1) = FirstPage(b) + P
    BY <1>1, <2>1, Geometry
  <2>4. Byte \in Nat
    BY MobileAssumption
  <2> QED
    BY <1>3, <1>4, <2>3, <2>4, <2>2
<1>16. ASSUME NEW t \in Q
       PROVE  t.sequence <= sequence' /\ t.data \in Versions /\ Len(t.data) <= Byte
  <2>1. CASE t = r
    BY <1>5, <1>15, <2>1
  <2>2. CASE t \in R
    <3>1. t.sequence \in Nat /\ t.sequence <= sequence /\ t.data \in Versions /\ Len(t.data) <= Byte
      BY <2>2 DEF FlashOK, Run, Console
    <3> QED
      BY <1>5, <3>1
  <2> QED
    BY <2>1, <2>2
<1>17. Console(Q)'
  BY <1>16 DEF Console
<1> QED
  BY <1>14, <1>17

-----------------------------------------------------------------------------
(* A build. *)

Placed(k) == store[k].start_page # 0
Fits(k) == store[k].start_page + Len(store[k].data) - 1 \in Pages
PagesFor(k) == store[k].start_page..(store[k].start_page + Len(store[k].data) - 1)

\* Slots get higher and higher blocks, so that the block a blob starts with
\* is not written to again.
Writing ==
    /\ \E folder \in Folders : \A k \in Slots : store[k].data = folder[k]
    /\ \A k \in Slots : store[k].data # <<>> => store[k].sequence = 1
    /\ \A k \in Slots : Placed(k) => k < at /\ store[k].data # <<>>
    /\ \A j, k \in Slots : Placed(j) /\ Placed(k) /\ j < k =>
                              store[j].start_page < store[k].start_page
    /\ \A k \in Slots, b \in MapRoom : Placed(k) => store[k].start_page < FirstPage(b)
    /\ \A k \in Slots : Placed(k) /\ Fits(k) =>
          \A q \in PagesFor(k) : BlockOf(q) = BlockOf(store[k].start_page) =>
             image[q] = Padded[store[k].data[q - store[k].start_page + 1]]
    /\ \A k \in Slots : Placed(k) /\ Fits(k) =>
          OnFlash(k, 1, store[k].start_page, store[k].data) \in whole
    /\ \A w \in whole : \E k \in Slots : /\ Placed(k) /\ Fits(k)
                                         /\ w = OnFlash(k, 1, store[k].start_page, store[k].data)

LEMMA BuildWriting ==
    ASSUME Types, Build
    PROVE  Writing'
<1>1. PICK folder \in Folders :
         store' = [k \in Slots |-> IF folder[k] = <<>> THEN NoBlob
                                   ELSE [sequence |-> 1, start_page |-> 0, data |-> folder[k]]]
  BY DEF Build
<1>2. \A k \in Slots : /\ store'[k].data = folder[k] /\ store'[k].start_page = 0
                       /\ store'[k].data # <<>> => store'[k].sequence = 1
  BY <1>1 DEF NoBlob
<1>3. whole' = {}
  BY DEF Build
<1>4. \A k \in Slots : ~Placed(k)'
  BY <1>2 DEF Placed
<1> QED
  BY <1>2, <1>3, <1>4 DEF Writing

LEMMA WritingNext ==
    ASSUME layout' = layout,
           \E folder \in Folders : \A k \in Slots : store'[k].data = folder[k],
           \A k \in Slots : store'[k].data # <<>> => store'[k].sequence = 1,
           \A k \in Slots : Placed(k)' => k < at' /\ store'[k].data # <<>>,
           \A j, k \in Slots : Placed(j)' /\ Placed(k)' /\ j < k =>
                              store'[j].start_page < store'[k].start_page,
           \A k \in Slots, b \in MapRoom' : Placed(k)' => store'[k].start_page < FirstPage(b),
           \A k \in Slots : Placed(k)' /\ Fits(k)' =>
              \A q \in PagesFor(k)' : BlockOf(q) = BlockOf(store'[k].start_page) =>
                 image'[q] = Padded[store'[k].data[q - store'[k].start_page + 1]],
           \A k \in Slots : Placed(k)' /\ Fits(k)' =>
              OnFlash(k, 1, store'[k].start_page, store'[k].data) \in whole',
           \A w \in whole' : \E k \in Slots :
              /\ Placed(k)' /\ Fits(k)'
              /\ w = OnFlash(k, 1, store'[k].start_page, store'[k].data)
    PROVE  Writing'
<1>1. /\ Pages' = Pages /\ \A b : FirstPage(b)' = FirstPage(b)
      /\ \A p : BlockOf(p)' = BlockOf(p)
  BY LayoutKept
<1>2. \A k \in Slots : BlockOf(store[k].start_page)' = BlockOf(store'[k].start_page)
  BY DEF BlockOf
<1>3. \A k \in Slots : OnFlash(k, 1, store[k].start_page, store[k].data)'
                       = OnFlash(k, 1, store'[k].start_page, store'[k].data)
  BY DEF OnFlash
<1> QED
  BY <1>1, <1>2, <1>3 DEF Writing

LEMMA WriteWriting ==
    ASSUME Types, Writing, WriteSlot
    PROVE  Writing'
<1>1. layout' = layout /\ layout \in Layouts
  BY DEF WriteSlot, Types
<1>2. /\ Pages' = Pages /\ \A b : FirstPage(b)' = FirstPage(b)
      /\ \A p : BlockOf(p)' = BlockOf(p)
  BY <1>1, LayoutKept
<1>3. stage = "writing" /\ at \in Slots /\ at' = at + 1 /\ Slots \subseteq Nat
  BY SlotFacts DEF WriteSlot
<1>4. CASE UNCHANGED <<image, store, block_map, whole>>
  <2>1. /\ \A k : Placed(k)' = Placed(k) /\ Fits(k)' = Fits(k) /\ PagesFor(k)' = PagesFor(k)
        /\ MapRoom' = MapRoom
    BY <1>2, <1>4 DEF Placed, Fits, PagesFor, MapRoom
  <2>2. \A k \in Slots : Placed(k) => k < at'
    <3> TAKE k \in Slots
    <3>1. Placed(k) => k < at
      BY DEF Writing
    <3> QED
      BY <1>3, <3>1
  <2>3. image' = image /\ store' = store /\ whole' = whole
    BY <1>4
  <2> QED
    BY <1>2, <2>1, <2>2, <2>3 DEF Writing
<1> PICK z \in Slots : z = at
  BY <1>3
<1> PICK d : d = store[z].data
  OBVIOUS
<1> PICK b : b = Least(MapRoom)
  OBVIOUS
<1> PICK p : p = FirstPage(b)
  OBVIOUS
<1>5. CASE /\ d # <<>> /\ MapRoom # {}
           /\ block_map' = [block_map EXCEPT ![b] = Reserved]
           /\ store' = [store EXCEPT ![z].start_page = p]
           /\ \/ /\ p + Len(d) - 1 \notin Pages
                 /\ image' = [q \in Pages |-> IF BlockOf(q) = b THEN Blank ELSE image[q]]
                 /\ UNCHANGED whole
              \/ /\ p + Len(d) - 1 \in Pages
                 /\ image' = [q \in Pages |-> IF q \in p..(p + Len(d) - 1)
                                              THEN Padded[d[q - p + 1]]
                                              ELSE IF BlockOf(q) = b THEN Blank ELSE image[q]]
                 /\ whole' = whole \cup {OnFlash(z, store[z].sequence, p, d)}
  <2>1. /\ b \in MapRoom /\ b \in FirstUsable..(ReserveStart - 1) /\ b \in Nat \ {0}
        /\ \A c \in MapRoom : c \in Nat /\ b <= c
        /\ p \in Pages /\ p # 0
    BY <1>3, <1>5, RoomFound
  <2>2. p \in Nat /\ Pages \subseteq Nat
    BY <1>1, <2>1, PageFacts
  <2>3. d \in Seq(PageData) /\ Len(d) \in Nat \ {0}
    <3>1. d \in Seq(PageData)
      BY <1>3 DEF Types
    <3> QED
      BY <1>5, <3>1, EmptySeq
  <2>4. /\ \A k \in Slots : store'[k].data = store[k].data /\ store'[k].sequence = store[k].sequence
        /\ \A k \in Slots : store'[k].start_page = IF k = z THEN p ELSE store[k].start_page
        /\ \A k \in Slots : k # z => store'[k] = store[k]
        /\ \A k \in Slots : store[k].start_page \in Nat
    <3>1. store \in [Slots -> Blob]
      BY DEF Types, TypeOK
    <3> QED
      BY <1>5, <3>1 DEF Blob
  <2>5. \A k \in Slots : Placed(k) => k < z /\ k # z /\ store[k].data # <<>>
    BY <1>3 DEF Writing
  <2>6. \A k \in Slots : Placed(k)' <=> (k = z \/ Placed(k))
    BY <2>1, <2>4 DEF Placed
  <2>7. \A k \in Slots : k # z => Fits(k)' = Fits(k) /\ PagesFor(k)' = PagesFor(k)
    BY <1>2, <2>4 DEF Fits, PagesFor
  <2>8. (Fits(z)' <=> p + Len(d) - 1 \in Pages) /\ PagesFor(z)' = p..(p + Len(d) - 1)
    <3>1. store'[z].start_page = p /\ store'[z].data = d
      BY <2>4
    <3> QED
      BY <1>2, <3>1 DEF Fits, PagesFor
  <2>9. /\ \E folder \in Folders : \A k \in Slots : store'[k].data = folder[k]
        /\ \A k \in Slots : store'[k].data # <<>> => store'[k].sequence = 1
    BY <2>4 DEF Writing
  <2>10. \A k \in Slots : Placed(k)' => k < at' /\ store'[k].data # <<>>
    <3> TAKE k \in Slots
    <3>1. k \in Nat /\ z \in Nat /\ at' = z + 1
      BY <1>3
    <3> QED
      BY <1>5, <2>4, <2>5, <2>6, <3>1
  <2>11. ASSUME NEW j \in Slots, NEW k \in Slots, Placed(j)', Placed(k)', j < k
         PROVE  store'[j].start_page < store'[k].start_page
    <3>1. j # z
      <4>1. j \in Nat /\ k \in Nat
        BY <1>3
      <4>2. k = z \/ k < z
        BY <2>5, <2>6, <2>11
      <4> QED
        BY <2>11, <4>1, <4>2
    <3>2. Placed(j)
      BY <2>6, <2>11, <3>1
    <3>3. CASE k = z
      BY <2>1, <2>4, <3>1, <3>2, <3>3 DEF Writing
    <3>4. CASE k # z
      BY <2>4, <2>6, <2>11, <3>1, <3>2, <3>4 DEF Writing
    <3> QED
      BY <3>3, <3>4
  <2>12. \A c \in Nat : c > b => p < FirstPage(c)
    <3> TAKE c \in Nat
    <3> PICK P : P = PagesPerBlock[layout]
      OBVIOUS
    <3>1. P \in Nat \ {0} /\ p \in Nat /\ FirstPage(b + 1) = p + P
      BY <1>1, <2>1, Geometry
    <3>2. b < c => FirstPage(b + 1) <= FirstPage(c) /\ FirstPage(c) \in Nat
      BY <1>1, <2>1, Geometry
    <3> QED
      BY <2>1, <3>1, <3>2
  <2>13. ASSUME NEW k \in Slots, NEW c \in MapRoom', Placed(k)'
         PROVE  store'[k].start_page < FirstPage(c)
    <3>1. c \in MapRoom /\ c # b
      <4>1. block_map \in [Blocks -> Words] /\ Reserved # Free
        BY DEF Types, TypeOK, Reserved, Free
      <4>2. block_map' = [block_map EXCEPT ![b] = Reserved]
        BY <1>5
      <4>3. c \in Blocks /\ c >= FirstUsable /\ c >= 0 /\ block_map'[c] = Free
        BY <2>13 DEF MapRoom, FreeFrom
      <4> QED
        BY <4>1, <4>2, <4>3 DEF MapRoom, FreeFrom
    <3>2. c \in Nat /\ c > b
      BY <2>1, <3>1
    <3> QED
      BY <2>4, <2>6, <2>12, <2>13, <3>1, <3>2 DEF Writing
  <2>14. ASSUME NEW k \in Slots, Placed(k)', Fits(k)', NEW q \in PagesFor(k)',
                BlockOf(q) = BlockOf(store'[k].start_page)
         PROVE  image'[q] = Padded[store'[k].data[q - store'[k].start_page + 1]]
    <3>1. CASE k = z
      <4>1. p + Len(d) - 1 \in Pages /\ q \in p..(p + Len(d) - 1)
        BY <2>8, <2>14, <3>1
      <4>2. q \in Pages
        BY <1>1, <2>2, <2>3, <4>1, PageFacts
      <4>3. image'[q] = Padded[d[q - p + 1]]
        BY <1>5, <4>1, <4>2
      <4>4. store'[k].data = d /\ store'[k].start_page = p
        BY <2>4, <3>1
      <4> QED
        BY <4>3, <4>4
    <3>2. CASE k # z
      <4> PICK s : s = store[k].start_page
        OBVIOUS
      <4>1. /\ Placed(k) /\ Fits(k) /\ q \in PagesFor(k) /\ store'[k] = store[k]
            /\ BlockOf(q) = BlockOf(s)
        BY <2>4, <2>6, <2>7, <2>14, <3>2
      <4>2. image[q] = Padded[store[k].data[q - s + 1]]
        BY <4>1 DEF Writing
      <4>3. q < p /\ q \in Nat
        <5>1. PICK c \in FirstUsable..(ReserveStart - 1) : s = FirstPage(c)
          BY <1>3, <4>1 DEF Placed, Types, TypeOK
        <5>2. c \in Nat
          BY <5>1, SizeAssumption
        <5>3. s < p
          BY <2>1, <4>1 DEF Writing
        <5>4. c < b
          <6>1. ~(b < c) /\ b # c
            <7>1. p \in Nat /\ s \in Nat /\ ~(p < s)
              BY <2>2, <2>4, <5>3
            <7> QED
              BY <2>12, <5>1, <5>2, <5>3, <7>1
          <6> QED
            BY <2>1, <5>2, <6>1
        <5>5. FirstPage(c + 1) <= p
          BY <1>1, <2>1, <5>2, <5>4, Geometry
        <5>6. s \in Nat /\ q \in Nat
          <6>1. s \in Nat /\ store[k].data \in Seq(PageData)
            BY <1>3, <2>4 DEF Types
          <6>2. Len(store[k].data) \in Nat
            BY <6>1, LenProperties
          <6> QED
            BY <4>1, <6>1, <6>2 DEF PagesFor
        <5>7. FirstPage(c + 1) \in Nat /\ s < FirstPage(c + 1)
          <6> PICK P : P = PagesPerBlock[layout]
            OBVIOUS
          <6>1. P \in Nat \ {0} /\ FirstPage(c + 1) = s + P
            BY <1>1, <5>1, <5>2, Geometry
          <6> QED
            BY <5>6, <6>1
        <5>8. BlockOf(s) = c
          BY <1>1, <5>1, <5>2, <5>6, <5>7, Geometry
        <5>9. q < FirstPage(c + 1)
          BY <1>1, <4>1, <5>2, <5>6, <5>8, Geometry
        <5> QED
          BY <2>2, <5>5, <5>6, <5>7, <5>9
      <4>4. q \in Pages /\ BlockOf(q) # b /\ q \notin p..(p + Len(d) - 1)
        <5>1. q \in Pages
          BY <1>1, <2>1, <2>2, <4>3, PageFacts
        <5>2. BlockOf(q) # b
          BY <1>1, <2>1, <2>2, <4>3, Geometry
        <5> QED
          BY <2>2, <2>3, <4>3, <5>1, <5>2
      <4>5. image'[q] = image[q]
        BY <1>5, <4>4
      <4> QED
        BY <4>1, <4>2, <4>5
    <3> QED
      BY <3>1, <3>2
  <2>15. ASSUME NEW k \in Slots, Placed(k)', Fits(k)'
         PROVE  OnFlash(k, 1, store'[k].start_page, store'[k].data) \in whole'
    <3>1. CASE k = z
      <4>1. store'[k].start_page = p /\ store'[k].data = d /\ store[z].sequence = 1
        BY <1>5, <2>4, <3>1 DEF Writing
      <4> QED
        BY <1>5, <2>8, <2>15, <3>1, <4>1
    <3>2. CASE k # z
      <4>1. Placed(k) /\ Fits(k) /\ store'[k] = store[k]
        BY <2>4, <2>6, <2>7, <2>15, <3>2
      <4>2. OnFlash(k, 1, store[k].start_page, store[k].data) \in whole
        BY <4>1 DEF Writing
      <4> QED
        BY <1>5, <4>1, <4>2
    <3> QED
      BY <3>1, <3>2
  <2>16. ASSUME NEW w \in whole'
         PROVE  \E k \in Slots : /\ Placed(k)' /\ Fits(k)'
                                 /\ w = OnFlash(k, 1, store'[k].start_page, store'[k].data)
    <3>1. CASE w \in whole
      <4>1. PICK k \in Slots : /\ Placed(k) /\ Fits(k)
                               /\ w = OnFlash(k, 1, store[k].start_page, store[k].data)
        BY <3>1 DEF Writing
      <4>2. k # z
        BY <2>5, <4>1
      <4> QED
        BY <2>4, <2>6, <2>7, <4>1, <4>2
    <3>2. CASE w \notin whole
      <4>1. w = OnFlash(z, store[z].sequence, p, d) /\ p + Len(d) - 1 \in Pages
        BY <1>5, <2>16, <3>2
      <4>2. store'[z].start_page = p /\ store'[z].data = d /\ store[z].sequence = 1
        BY <1>5, <2>4 DEF Writing
      <4> QED
        BY <2>6, <2>8, <4>1, <4>2
    <3> QED
      BY <3>1, <3>2
  <2> QED
    BY <1>1, <2>9, <2>10, <2>11, <2>13, <2>14, <2>15, <2>16, WritingNext
<1> QED
  BY <1>4, <1>5 DEF WriteSlot

\* What a build puts in an image: at most one run of each slot.
Rebuilt(R) == \A r \in R : r.sequence = 1 /\ \E folder \in Folders : r.data = folder[r.slot]

\* How many of n pages from page s on an image of M pages has.
Written(s, n, M) == IF s + n - 1 < M THEN n ELSE M - s

LEMMA WrittenFacts ==
    ASSUME NEW s \in Nat, NEW M \in Nat, NEW n \in Nat \ {0}, s < M
    PROVE  /\ Written(s, n, M) \in 1..n /\ (Written(s, n, M) = n <=> s + n - 1 < M)
           /\ \A q : q \in s..(s + Written(s, n, M) - 1) <=>
                        q \in 0..(M - 1) /\ q \in s..(s + n - 1)
           /\ s + n - 1 \in 0..(M - 1) <=> s + n - 1 < M
<1> PICK e : e = Written(s, n, M)
  OBVIOUS
<1>1. CASE s + n - 1 < M
  <2>1. e = n
    BY <1>1 DEF Written
  <2>2. \A q : q \in s..(s + n - 1) => q \in 0..(M - 1)
    BY <1>1
  <2> QED
    BY <1>1, <2>1, <2>2
<1>2. CASE ~(s + n - 1 < M)
  <2>1. e = M - s
    BY <1>2 DEF Written
  <2>2. \A q : q \in s..(s + (M - s) - 1) <=> q \in 0..(M - 1) /\ q \in s..(s + n - 1)
    BY <1>2
  <2>3. e \in 1..n /\ e # n
    BY <1>2, <2>1
  <2> QED
    BY <1>2, <2>1, <2>2, <2>3
<1>3. s + n - 1 \in 0..(M - 1) <=> s + n - 1 < M
  OBVIOUS
<1> QED
  BY <1>1, <1>2, <1>3

LEMMA FinalizeFlash ==
    ASSUME Types, Writing, Finalize
    PROVE  \E R : FlashOK(R)' /\ Rebuilt(R)
<1>1. layout' = layout /\ layout \in Layouts
  BY DEF Finalize, Types
<1>2. /\ stage = "writing" /\ whole' = whole
      /\ image' = [p \in Pages |-> IF BlockOf(p) >= ReserveStart THEN Erased ELSE image[p]]
      /\ spare' = [p \in Pages |->
                    IF BlockOf(p) >= ReserveStart THEN ErasedSpare
                    ELSE IF Covers(p) = {} THEN PlainSpare(p)
                    ELSE LET k == Owner(p)
                         IN  Spare(p, k, store[k].sequence, Len(store[k].data))]
  BY DEF Finalize
<1> PICK f : f = [k \in Slots |->
                    [slot |-> k, sequence |-> 1, start |-> store[k].start_page,
                     data |-> store[k].data,
                     done |-> Written(store[k].start_page, Len(store[k].data), FirstPage(N))]]
  OBVIOUS
<1> PICK R : R = {f[k] : k \in {j \in Slots : Placed(j)}}
  OBVIOUS
<1>3. FirstPage(N) \in Nat /\ Pages = 0..(FirstPage(N) - 1) /\ N \in Nat
      /\ ReserveStart \in Nat /\ ReserveStart <= N
  BY <1>1, PageFacts, SizeAssumption
<1>4. ASSUME NEW k \in Slots, Placed(k)
      PROVE  /\ f[k] \in Run /\ f[k].done \in 1..Len(f[k].data)
             /\ f[k].slot = k /\ f[k].sequence = 1 /\ f[k].start = store[k].start_page
             /\ f[k].data = store[k].data /\ store[k].sequence = 1
             /\ PagesOf(f[k]) \subseteq Pages
             /\ \A q : q \in PagesOf(f[k]) <=> q \in Pages /\ q \in PagesFor(k)
             /\ Complete(f[k]) <=> Fits(k)
             /\ store[k].data \in Seq(PageData)
             /\ \E c \in Nat : /\ f[k].start = FirstPage(c) /\ c < ReserveStart
                               /\ FirstPage(c) \in Pages
  <2>1. /\ store[k].data \in Seq(PageData) /\ Len(store[k].data) \in Nat \ {0}
        /\ store[k].sequence = 1
    <3>1. store[k].data \in Seq(PageData) /\ store[k].data # <<>> /\ store[k].sequence = 1
      BY <1>2, <1>4 DEF Types, Writing
    <3> QED
      BY <3>1, EmptySeq
  <2>2. PICK c \in FirstUsable..(ReserveStart - 1) : store[k].start_page = FirstPage(c)
    BY <1>2, <1>4 DEF Types, TypeOK, Placed
  <2>3. c \in Nat /\ c < ReserveStart /\ c < N
    BY <1>3, <2>2, SizeAssumption
  <2>4. FirstPage(c) \in Pages
    <3> PICK P : P = PagesPerBlock[layout]
      OBVIOUS
    <3>1. P \in Nat \ {0} /\ FirstPage(c) \in Nat /\ FirstPage(c + 1) = FirstPage(c) + P
      BY <1>1, <2>3, Geometry
    <3>2. FirstPage(c + 1) <= FirstPage(N)
      BY <1>1, <1>3, <2>3, Geometry
    <3> QED
      BY <1>3, <3>1, <3>2
  <2> PICK n \in Nat \ {0} : n = Len(store[k].data)
    BY <2>1
  <2> PICK s : s = store[k].start_page
    OBVIOUS
  <2> PICK M : M = FirstPage(N)
    OBVIOUS
  <2>5. s \in Nat /\ s < M /\ M \in Nat /\ Pages = 0..(M - 1)
    BY <1>3, <2>2, <2>4
  <2>6. /\ f[k].slot = k /\ f[k].sequence = 1 /\ f[k].start = s /\ f[k].data = store[k].data
        /\ f[k].done = Written(s, n, M)
    OBVIOUS
  <2>7. Fits(k) <=> s + n - 1 < M
    <3>1. Fits(k) <=> s + n - 1 \in Pages
      BY DEF Fits
    <3>2. s + n - 1 \in 0..(M - 1) <=> s + n - 1 < M
      BY <2>5, WrittenFacts, ZenonT(30)
    <3> QED
      BY <2>5, <3>1, <3>2
  <2> PICK e : e = f[k].done
    OBVIOUS
  <2>8. /\ e \in 1..n /\ (e = n <=> Fits(k))
        /\ \A q : q \in s..(s + e - 1) <=> q \in Pages /\ q \in s..(s + n - 1)
    <3>1. e = Written(s, n, M)
      BY <2>6
    <3>2. /\ e \in 1..n /\ (e = n <=> s + n - 1 < M)
          /\ \A q : q \in s..(s + e - 1) <=> q \in 0..(M - 1) /\ q \in s..(s + n - 1)
      <4>1. /\ Written(s, n, M) \in 1..n /\ (Written(s, n, M) = n <=> s + n - 1 < M)
            /\ \A q : q \in s..(s + Written(s, n, M) - 1) <=>
                         q \in 0..(M - 1) /\ q \in s..(s + n - 1)
        BY <2>5, WrittenFacts, ZenonT(30)
      <4> QED
        BY <3>1, <4>1
    <3> QED
      BY <2>5, <2>7, <3>2
  <2>9. f[k] \in Run
    <3>1. f[k] = [slot |-> k, sequence |-> 1, start |-> s, data |-> store[k].data,
                  done |-> f[k].done]
      OBVIOUS
    <3> QED
      BY <2>1, <2>5, <2>8, <3>1 DEF Run
  <2>10. \A q : q \in PagesOf(f[k]) <=> q \in Pages /\ q \in PagesFor(k)
    <3>1. PagesOf(f[k]) = s..(s + e - 1) /\ PagesFor(k) = s..(s + n - 1)
      BY <2>6 DEF PagesOf, PagesFor
    <3> QED
      BY <2>8, <3>1
  <2> QED
    BY <2>1, <2>2, <2>3, <2>4, <2>6, <2>8, <2>9, <2>10 DEF Complete
<1>5. \A p \in Pages : \A k \in Covers(p) : k \in Slots /\ Placed(k) /\ p \in PagesFor(k)
  BY DEF Covers, Placed, PagesFor
<1>6. ASSUME NEW p \in Pages, ~(BlockOf(p) >= ReserveStart), Covers(p) # {}, NEW k, k = Owner(p)
      PROVE  k \in Covers(p) /\ spare'[p] = SpareOf(f[k], p) /\ image'[p] = image[p]
  <2>1. k \in Covers(p)
    BY <1>6, OwnerFact
  <2>2. spare'[p] = Spare(p, k, store[k].sequence, Len(store[k].data)) /\ image'[p] = image[p]
    BY <1>2, <1>6
  <2> QED
    BY <1>4, <1>5, <2>1, <2>2 DEF SpareOf
<1>7. /\ \A r \in R : r \in Run /\ r.done \in 1..Len(r.data) /\ PagesOf(r) \subseteq Pages
      /\ \A r, t \in R : r.slot = t.slot /\ r.sequence = t.sequence => r = t
  BY <1>4
<1>8. ASSUME NEW p \in Pages, spare'[p].type # 0
      PROVE  \E r \in R : /\ p \in PagesOf(r) /\ spare'[p] = SpareOf(r, p)
                          /\ Complete(r) /\ BlockOf(p) = BlockOf(r.start) =>
                                image'[p] = Padded[r.data[p - r.start + 1]]
  <2>1. ~(BlockOf(p) >= ReserveStart) /\ Covers(p) # {}
    BY <1>2, <1>8 DEF ErasedSpare, PlainSpare
  <2> PICK k : k = Owner(p)
    OBVIOUS
  <2>2. k \in Covers(p) /\ spare'[p] = SpareOf(f[k], p) /\ image'[p] = image[p]
    BY <1>6, <2>1
  <2>3. k \in Slots /\ Placed(k) /\ p \in PagesFor(k)
    BY <1>5, <2>2
  <2>4. f[k] \in R /\ p \in PagesOf(f[k])
    BY <1>4, <2>3
  <2>5. ASSUME Complete(f[k]), BlockOf(p) = BlockOf(f[k].start)
        PROVE  image'[p] = Padded[f[k].data[p - f[k].start + 1]]
    <3>1. Fits(k) /\ f[k].start = store[k].start_page /\ f[k].data = store[k].data
      BY <1>4, <2>3, <2>5
    <3>2. image[p] = Padded[store[k].data[p - store[k].start_page + 1]]
      BY <2>3, <2>5, <3>1 DEF Writing
    <3> QED
      BY <2>2, <3>1, <3>2
  <2> QED
    BY <2>2, <2>4, <2>5
<1>9. ASSUME NEW r \in R, Complete(r), Short(r), NEW q \in PagesOf(r)
      PROVE  spare'[q] = SpareOf(r, q) /\ BlockOf(q) = BlockOf(r.start)
  <2>1. PICK k \in Slots : Placed(k) /\ r = f[k]
    OBVIOUS
  <2>2. PICK c \in Nat : r.start = FirstPage(c) /\ c < ReserveStart
    BY <1>4, <2>1
  <2>3. q \in Pages /\ q \in PagesFor(k) /\ q \in Nat
    BY <1>3, <1>4, <2>1
  <2>4. FirstPage(c) <= q /\ q < FirstPage(c + 1) /\ BlockOf(q) = c /\ BlockOf(r.start) = c
    <3> PICK P : P = PagesPerBlock[layout]
      OBVIOUS
    <3> PICK U : U = Unit
      OBVIOUS
    <3>1. P \in Nat \ {0} /\ U <= P /\ FirstPage(c) \in Nat /\ FirstPage(c + 1) = FirstPage(c) + P
      BY <1>1, <2>2, Geometry
    <3>2. r.done = Len(r.data) /\ r.done \in Nat /\ r.done < U /\ U \in Nat
      BY <1>7, <1>9, MobileAssumption DEF Complete, Short, Run
    <3>3. q \in FirstPage(c)..(FirstPage(c) + r.done - 1)
      BY <2>2 DEF PagesOf
    <3>4. FirstPage(c) <= q /\ q < FirstPage(c + 1)
      BY <3>1, <3>2, <3>3
    <3>5. BlockOf(q) = c
      BY <1>1, <2>2, <2>3, <3>4, Geometry
    <3>6. FirstPage(c) < FirstPage(c + 1)
      BY <3>1
    <3>7. BlockOf(FirstPage(c)) = c
      BY <1>1, <2>2, <3>1, <3>6, Geometry
    <3> QED
      BY <2>2, <3>4, <3>5, <3>7
  <2>5. k \in Covers(q) /\ ~(BlockOf(q) >= ReserveStart)
    BY <1>3, <2>1, <2>2, <2>3, <2>4 DEF Covers, Placed, PagesFor
  <2> PICK o : o = Owner(q)
    OBVIOUS
  <2>6. o \in Covers(q) /\ k <= o /\ spare'[q] = SpareOf(f[o], q)
    BY <1>6, <2>3, <2>5, OwnerFact
  <2>7. o = k
    <3>1. o \in Slots /\ Placed(o) /\ q \in PagesFor(o) /\ o \in Nat /\ k \in Nat
      BY <1>5, <2>3, <2>6, SlotFacts
    <3>2. SUFFICES ASSUME k < o PROVE FALSE
      BY <2>6, <3>1
    <3>3. store[k].start_page < store[o].start_page
      BY <2>1, <3>1, <3>2 DEF Writing
    <3>4. PICK e \in Nat : store[o].start_page = FirstPage(e) /\ FirstPage(e) \in Pages
      BY <1>4, <3>1
    <3>5. store[k].start_page = FirstPage(c)
      BY <1>4, <2>1, <2>2
    <3>6. FirstPage(e) <= q
      <4>1. q \in FirstPage(e)..(FirstPage(e) + Len(store[o].data) - 1)
        BY <3>1, <3>4 DEF PagesFor
      <4> QED
        BY <4>1
    <3>7. c < e
      <4>1. FirstPage(c) \in Nat /\ FirstPage(e) \in Nat /\ FirstPage(e + 1) \in Nat
            /\ FirstPage(e) <= FirstPage(e + 1)
        <5> PICK P : P = PagesPerBlock[layout]
          OBVIOUS
        <5>1. P \in Nat /\ FirstPage(e) \in Nat /\ FirstPage(e + 1) = FirstPage(e) + P
              /\ FirstPage(c) \in Nat
          BY <1>1, <2>2, <3>4, Geometry
        <5> QED
          BY <5>1
      <4>2. FirstPage(c) < FirstPage(e)
        BY <3>3, <3>4, <3>5
      <4>3. ~(e < c)
        <5>1. e < c => FirstPage(e + 1) <= FirstPage(c)
          BY <1>1, <2>2, <3>4, Geometry
        <5> QED
          BY <4>1, <4>2, <5>1
      <4>4. e # c
        BY <4>1, <4>2
      <4> QED
        BY <2>2, <3>4, <4>3, <4>4
    <3>8. FirstPage(c + 1) <= FirstPage(e) /\ FirstPage(c + 1) \in Nat /\ FirstPage(e) \in Nat
      BY <1>1, <2>2, <3>4, <3>7, Geometry
    <3> QED
      BY <2>3, <2>4, <3>6, <3>8
  <2> QED
    BY <2>1, <2>4, <2>6, <2>7
<1>10. \A k \in Slots : Placed(k) =>
          OnFlash(k, 1, store[k].start_page, store[k].data) = [slot |-> f[k].slot, blob |-> BlobOf(f[k])]
  BY <1>4 DEF OnFlash, BlobOf
<1>11. /\ \A r \in R : Complete(r) => [slot |-> r.slot, blob |-> BlobOf(r)] \in whole'
       /\ \A w \in whole' : \E r \in R : Complete(r) /\ w = [slot |-> r.slot, blob |-> BlobOf(r)]
  <2>1. ASSUME NEW r \in R, Complete(r) PROVE [slot |-> r.slot, blob |-> BlobOf(r)] \in whole'
    <3>1. PICK k \in Slots : Placed(k) /\ r = f[k]
      OBVIOUS
    <3>2. OnFlash(k, 1, store[k].start_page, store[k].data) \in whole
      BY <1>4, <2>1, <3>1 DEF Writing
    <3> QED
      BY <1>2, <1>10, <3>1, <3>2
  <2>2. ASSUME NEW w \in whole'
        PROVE  \E r \in R : Complete(r) /\ w = [slot |-> r.slot, blob |-> BlobOf(r)]
    <3>1. PICK k \in Slots : /\ Placed(k) /\ Fits(k)
                             /\ w = OnFlash(k, 1, store[k].start_page, store[k].data)
      BY <1>2, <2>2 DEF Writing
    <3>2. f[k] \in R /\ Complete(f[k])
      BY <1>4, <3>1
    <3>3. w = [slot |-> f[k].slot, blob |-> BlobOf(f[k])]
      BY <1>10, <3>1
    <3> QED
      BY <3>2, <3>3
  <2> QED
    BY <2>1, <2>2
<1>12. FlashOK(R)'
  BY <1>1, <1>7, <1>8, <1>9, <1>11, FlashNext
<1>13. Rebuilt(R)
  BY <1>4 DEF Writing, Rebuilt
<1> QED
  BY <1>12, <1>13

-----------------------------------------------------------------------------
(* A scan. *)

FitSlot(R, k) == \A r \in R : r.slot = k => Len(r.data) <= Byte

\* What was found is there, and no short blob behind the scan is missed for
\* an older one.
Found(R) ==
    /\ \A k \in Slots : FitSlot(R, k) =>
          \/ store[k] = NoBlob
          \/ \E r \in R : r.slot = k /\ Complete(r) /\ store[k] = BlobOf(r)
    /\ layout = "Bb" =>
          \A r \in R : Complete(r) /\ Short(r) /\ r.start < at =>
             r.sequence <= store[r.slot].sequence

LEMMA ScanBegins ==
    ASSUME Types, NEW R, FlashOK(R), BeginScan
    PROVE  Types' /\ FlashOK(R)' /\ Found(R)'
<1>1. /\ UNCHANGED <<layout, image, spare, block_map, whole, sequence>>
      /\ stage' \in {"scanning", "rescanning"}
      /\ store' = [k \in Slots |-> NoBlob] /\ at' = 0
  BY DEF BeginScan
<1>2. Pages' = Pages /\ FirstPage(N)' = FirstPage(N)
  BY <1>1, LayoutKept
<1>3. FlashOK(R)'
  BY <1>1, FlashKept
<1>4. NoBlob \in Blob
  BY EmptySeq DEF NoBlob, Blob
<1>5. FirstPage(N) \in Nat
  BY PageFacts DEF Types
<1>6. TypeOK'
  BY <1>1, <1>2, <1>4, <1>5 DEF Types, TypeOK
<1>7. Types'
  BY <1>1, <1>2, <1>6 DEF Types
<1>8. \A r \in R : ~(r.start < at')
  <2> TAKE r \in R
  <2>1. r.start \in Nat
    BY DEF FlashOK, Run
  <2> QED
    BY <1>1, <2>1
<1>9. \A k \in Slots : store'[k] = NoBlob
  BY <1>1
<1>10. Found(R)'
  BY <1>8, <1>9 DEF Found
<1> QED
  BY <1>3, <1>7, <1>10

LEMMA ScanStep ==
    ASSUME Types, NEW R, FlashOK(R), Found(R), ScanPage
    PROVE  FlashOK(R)' /\ Found(R)'
<1>1. UNCHANGED <<layout, image, spare, whole>> /\ at \in Pages /\ layout \in Layouts
  BY DEF ScanPage, Types
<1>2. FlashOK(R)'
  BY <1>1, FlashKept
<1>3. at \in Nat /\ \A r \in R : r \in Run /\ r.start \in Nat /\ r.slot \in Slots
                                 /\ r.sequence \in Nat \ {0}
  <2>1. at \in Nat
    BY <1>1, PageFacts
  <2> QED
    BY <2>1 DEF FlashOK, Run
<1>4. \A k \in Slots : store[k].sequence \in Nat /\ store[k].start_page \in Nat
  <2>1. store \in [Slots -> Blob]
    BY DEF Types, TypeOK
  <2> QED
    BY <2>1 DEF Blob
<1>5. CASE ~(Starts(at) /\ Whole(at)) /\ at' = at + 1 /\ UNCHANGED store
  <2>1. ASSUME layout = "Bb", NEW r \in R, Complete(r), Short(r), r.start < at'
        PROVE  r.sequence <= store[r.slot].sequence
    <3>1. r.start # at
      BY <1>1, <1>5, <2>1, ShortIsFound
    <3>2. r.start < at
      BY <1>3, <1>5, <2>1, <3>1
    <3> QED
      BY <2>1, <3>2 DEF Found
  <2> QED
    BY <1>1, <1>2, <1>5, <2>1 DEF Found
<1> PICK s : s = spare[at]
  OBVIOUS
<1> PICK blob : blob = [sequence |-> s.sequence, start_page |-> at,
                        data |-> [i \in 1..s.size |-> image[at + i - 1]]]
  OBVIOUS
<1>6. CASE /\ Starts(at) /\ Whole(at) /\ at' = at + s.size
           /\ store' = IF Newer(s.type, at) THEN [store EXCEPT ![s.type] = blob] ELSE store
  <2>1. s.type \in Slots /\ s.size \in Nat /\ s.sequence \in Nat
    BY <1>1, <1>6 DEF Starts, Types
  <2>2. \A k \in Slots : store'[k] = IF k = s.type /\ Newer(s.type, at) THEN blob ELSE store[k]
    <3>1. store \in [Slots -> Blob]
      BY DEF Types, TypeOK
    <3> QED
      BY <1>6, <2>1, <3>1
  <2>3. ASSUME NEW k \in Slots, FitSlot(R, k)
        PROVE  \/ store'[k] = NoBlob
               \/ \E r \in R : r.slot = k /\ Complete(r) /\ store'[k] = BlobOf(r)
    <3>1. CASE k = s.type /\ Newer(s.type, at)
      <4>1. \A r \in R : r.slot = spare[at].type => Len(r.data) <= Byte
        BY <2>3, <3>1 DEF FitSlot
      <4>2. PICK r \in R : /\ Complete(r) /\ r.start = at
                           /\ r.slot = s.type /\ r.sequence = s.sequence
                           /\ BlobOf(r).data = [i \in 1..s.size |-> image[at + i - 1]]
        <5>1. layout \in Layouts /\ at \in Pages /\ Starts(at) /\ Whole(at)
          BY <1>1, <1>6
        <5>2. \E r \in R : /\ Complete(r) /\ r.start = at
                           /\ r.slot = spare[at].type /\ r.sequence = spare[at].sequence
                           /\ Len(r.data) = spare[at].size
                           /\ BlobOf(r).data = [i \in 1..spare[at].size |-> image[at + i - 1]]
          BY <4>1, <5>1, FoundIsThere
        <5> QED
          BY <5>2
      <4>3. BlobOf(r) = blob
        BY <4>2 DEF BlobOf
      <4> QED
        BY <2>2, <3>1, <4>2, <4>3
    <3>2. CASE ~(k = s.type /\ Newer(s.type, at))
      BY <2>2, <2>3, <3>2 DEF Found
    <3> QED
      BY <3>1, <3>2
  <2>4. ASSUME layout = "Bb", NEW r \in R, Complete(r), Short(r), r.start < at'
        PROVE  r.sequence <= store'[r.slot].sequence
    <3>1. CASE r.start < at
      <4>1. r.sequence <= store[r.slot].sequence
        BY <2>4, <3>1 DEF Found
      <4>2. CASE r.slot = s.type /\ Newer(s.type, at)
        <5>1. store'[r.slot].sequence = s.sequence
          BY <1>3, <2>2, <4>2
        <5>2. store[s.type] # NoBlob
          BY <1>3, <4>1, <4>2 DEF NoBlob
        <5>3. store[s.type].sequence <= s.sequence
          BY <1>4, <2>1, <4>2, <5>2 DEF Newer
        <5> QED
          BY <1>3, <1>4, <2>1, <4>1, <4>2, <5>1, <5>3
      <4>3. CASE ~(r.slot = s.type /\ Newer(s.type, at))
        BY <1>3, <2>2, <4>1, <4>3
      <4> QED
        BY <4>2, <4>3
    <3>2. CASE ~(r.start < at)
      <4>1. r.start >= at /\ r.start < at + spare[at].size
        BY <1>3, <1>6, <2>4, <3>2
      <4>2. r.start = at /\ s = SpareOf(r, at)
        <5>1. at \in Pages /\ Starts(at) /\ Whole(at)
          BY <1>1, <1>6
        <5>2. r.start = at /\ spare[at] = SpareOf(r, at)
          BY <2>4, <4>1, <5>1, NotPassedOver
        <5> QED
          BY <5>2
      <4>3. s.type = r.slot /\ s.sequence = r.sequence
        BY <4>2 DEF SpareOf, Spare
      <4>4. CASE Newer(s.type, at)
        <5>1. store'[r.slot] = blob /\ blob.sequence = s.sequence
          BY <1>3, <2>2, <4>3, <4>4
        <5>2. r.sequence \in Nat
          BY <1>3
        <5> QED
          BY <4>3, <5>1, <5>2
      <4>5. CASE ~Newer(s.type, at)
        <5>1. store'[r.slot] = store[r.slot]
          BY <1>3, <2>2, <4>5
        <5>2. s.sequence <= store[s.type].sequence
          BY <1>4, <2>1, <4>5 DEF Newer
        <5> QED
          BY <4>3, <5>1, <5>2
      <4> QED
        BY <4>4, <4>5
    <3> QED
      BY <3>1, <3>2
  <2> QED
    BY <1>1, <1>2, <2>3, <2>4 DEF Found, FitSlot
<1> QED
  BY <1>5, <1>6 DEF ScanPage

-----------------------------------------------------------------------------
(* The invariant. *)

Inv ==
    /\ Types
    /\ stage = "writing" => Writing
    /\ stage # "writing" =>
          \E R : /\ FlashOK(R)
                 /\ stage \in {"console", "scanning", "parsed"} => Console(R)
                 /\ stage \in {"spare", "rescanning", "done"} => Rebuilt(R)
                 /\ stage \in {"scanning", "parsed", "rescanning", "done"} => Found(R)
                 /\ Read => at = FirstPage(N)

LEMMA InitInv == Init => Inv
<1> SUFFICES ASSUME Init PROVE Inv
  OBVIOUS
<1>1. /\ layout \in Layouts /\ stage = "console"
      /\ image = [p \in Pages |-> Erased] /\ spare = [p \in Pages |-> ErasedSpare]
      /\ store = [k \in Slots |-> NoBlob] /\ block_map = Unformatted
      /\ at = 0 /\ whole = {} /\ sequence = 0
  BY DEF Init
<1>2. FirstPage(N) \in Nat
  BY <1>1, PageFacts
<1>3. NoBlob \in Blob
  BY EmptySeq DEF NoBlob, Blob
<1>4. block_map \in [Blocks -> Words]
  BY <1>1 DEF Unformatted, Words
<1>5. TypeOK
  BY <1>1, <1>2, <1>3, <1>4 DEF TypeOK
<1>6. \A p \in Pages : spare[p].size \in Nat /\ spare[p].sequence \in Nat /\ spare[p].type = 0
  BY <1>1 DEF ErasedSpare
<1>7. Types
  BY <1>1, <1>5, <1>6 DEF Types
<1>8. FlashOK({}) /\ Console({})
  BY <1>1, <1>6 DEF FlashOK, Console
<1> QED
  BY <1>1, <1>7, <1>8 DEF Inv, Read

LEMMA EndTypes ==
    ASSUME Types, EndScan
    PROVE  Types' /\ at = FirstPage(N)
<1>1. UNCHANGED <<layout, image, spare, store, block_map, at, whole, sequence>>
  BY DEF EndScan
<1>2. Pages' = Pages /\ FirstPage(N)' = FirstPage(N) /\ FirstPage(N) \in Nat
      /\ Pages = 0..(FirstPage(N) - 1)
  BY <1>1, LayoutKept, PageFacts DEF Types
<1>3. at \in 0..FirstPage(N) /\ at \notin Pages
  BY DEF EndScan, Types, TypeOK
<1>4. at = FirstPage(N)
  BY <1>2, <1>3
<1>5. stage' \in {"parsed", "done"}
  BY DEF EndScan
<1>6. TypeOK'
  BY <1>1, <1>2, <1>3, <1>5 DEF Types, TypeOK
<1> QED
  BY <1>1, <1>2, <1>4, <1>5, <1>6 DEF Types

\* What is not written to stays in order.
LEMMA RestKept ==
    ASSUME UNCHANGED <<layout, image, spare, store, at, whole, sequence>>, NEW R, FlashOK(R)
    PROVE  /\ FlashOK(R)' /\ FirstPage(N)' = FirstPage(N)
           /\ Found(R) => Found(R)'
           /\ Console(R) => Console(R)'
<1>1. FlashOK(R)'
  BY FlashKept
<1>2. FirstPage(N)' = FirstPage(N)
  BY DEF FirstPage
<1> QED
  BY <1>1, <1>2 DEF Found, FitSlot, Console

LEMMA NextInv == Inv /\ [Next]_vars => Inv'
<1> SUFFICES ASSUME Inv, [Next]_vars PROVE Inv'
  OBVIOUS
<1>0. Types
  BY DEF Inv
<1>1. ASSUME NEW k \in Slots, NEW d \in Versions, NEW b \in FirstUsable..(ReserveStart - 1),
             NEW done \in 1..Len(d), ConsoleWrites(k, d, b, done)
      PROVE  Inv'
  <2>1. stage = "console" /\ stage' = "console"
    BY <1>1 DEF ConsoleWrites
  <2>2. PICK R : FlashOK(R) /\ Console(R)
    BY <2>1 DEF Inv
  <2>3. Types'
    BY <1>0, <1>1, ConsoleTypes
  <2>4. PICK Q : FlashOK(Q)' /\ Console(Q)'
    BY <1>0, <1>1, <2>2, ConsoleFlash
  <2> QED
    BY <2>1, <2>3, <2>4 DEF Inv, Read
<1>2. CASE BeginScan
  <2>1. /\ \/ stage = "console" /\ stage' = "scanning"
           \/ stage = "spare" /\ stage' = "rescanning"
        /\ sequence' = sequence
    BY <1>2 DEF BeginScan
  <2>2. PICK R : /\ FlashOK(R)
                 /\ stage = "console" => Console(R)
                 /\ stage = "spare" => Rebuilt(R)
    BY <2>1 DEF Inv
  <2>3. Types' /\ FlashOK(R)' /\ Found(R)'
    BY <1>0, <1>2, <2>2, ScanBegins
  <2>4. Console(R) => Console(R)'
    BY <2>1 DEF Console
  <2>5. Rebuilt(R)' = Rebuilt(R)
    BY DEF Rebuilt
  <2> QED
    BY <2>1, <2>2, <2>3, <2>4, <2>5 DEF Inv, Read
<1>3. CASE ScanPage
  <2>1. stage \in {"scanning", "rescanning"} /\ stage' = stage /\ sequence' = sequence
    BY <1>3 DEF ScanPage
  <2>2. PICK R : /\ FlashOK(R) /\ Found(R)
                 /\ stage = "scanning" => Console(R)
                 /\ stage = "rescanning" => Rebuilt(R)
    BY <2>1 DEF Inv
  <2>3. Types'
    BY <1>0, <1>3, ScanTypes
  <2>4. FlashOK(R)' /\ Found(R)'
    BY <1>0, <1>3, <2>2, ScanStep
  <2>5. Console(R) => Console(R)'
    BY <2>1 DEF Console
  <2>6. Rebuilt(R)' = Rebuilt(R)
    BY DEF Rebuilt
  <2> QED
    BY <2>1, <2>2, <2>3, <2>4, <2>5, <2>6 DEF Inv, Read
<1>4. CASE EndScan
  <2>1. /\ \/ stage = "scanning" /\ stage' = "parsed"
           \/ stage = "rescanning" /\ stage' = "done"
        /\ UNCHANGED <<layout, image, spare, store, at, whole, sequence>>
    BY <1>4 DEF EndScan
  <2>2. PICK R : /\ FlashOK(R) /\ Found(R)
                 /\ stage = "scanning" => Console(R)
                 /\ stage = "rescanning" => Rebuilt(R)
    BY <2>1 DEF Inv
  <2>3. Types' /\ at = FirstPage(N)
    BY <1>0, <1>4, EndTypes
  <2>4. FlashOK(R)' /\ FirstPage(N)' = FirstPage(N) /\ Found(R)' /\ (Console(R) => Console(R)')
    BY <2>1, <2>2, RestKept
  <2>5. Rebuilt(R)' = Rebuilt(R)
    BY DEF Rebuilt
  <2> QED
    BY <2>1, <2>2, <2>3, <2>4, <2>5 DEF Inv, Read
<1>5. CASE Build
  <2>1. stage' = "writing"
    BY <1>5 DEF Build
  <2>2. Types' /\ Writing'
    BY <1>0, <1>5, BuildTypes, BuildWriting
  <2> QED
    BY <2>1, <2>2 DEF Inv
<1>6. CASE WriteSlot
  <2>1. stage = "writing" /\ stage' = "writing"
    BY <1>6 DEF WriteSlot
  <2>2. Types' /\ Writing'
    BY <1>0, <1>6, <2>1, WriteTypes, WriteWriting DEF Inv
  <2> QED
    BY <2>1, <2>2 DEF Inv
<1>7. CASE Finalize
  <2>1. stage = "writing" /\ stage' = "spare"
    BY <1>7 DEF Finalize
  <2>2. Types'
    BY <1>0, <1>7, FinalizeTypes
  <2>3. PICK R : FlashOK(R)' /\ Rebuilt(R)
    BY <1>0, <1>7, <2>1, FinalizeFlash DEF Inv
  <2>4. Rebuilt(R)' = Rebuilt(R)
    BY DEF Rebuilt
  <2> QED
    BY <2>1, <2>2, <2>3, <2>4 DEF Inv, Read
<1>8. CASE UNCHANGED vars
  <2>1. UNCHANGED <<layout, stage, image, spare, store, block_map, at, whole, sequence>>
    BY <1>8 DEF vars
  <2>2. /\ Pages' = Pages /\ FirstPage(N)' = FirstPage(N)
        /\ \A b : FirstPage(b)' = FirstPage(b)
    BY <2>1, LayoutKept
  <2>3. Types'
    BY <1>0, <2>1, <2>2 DEF Types, TypeOK
  <2>4. CASE stage = "writing"
    <3>1. Writing
      BY <2>4 DEF Inv
    <3>2. Writing'
      BY <2>1, <2>2, <3>1 DEF Writing, Placed, Fits, PagesFor, MapRoom, BlockOf, OnFlash
    <3> QED
      BY <2>1, <2>3, <2>4, <3>2 DEF Inv
  <2>5. CASE stage # "writing"
    <3>1. PICK R : /\ FlashOK(R)
                   /\ stage \in {"console", "scanning", "parsed"} => Console(R)
                   /\ stage \in {"spare", "rescanning", "done"} => Rebuilt(R)
                   /\ stage \in {"scanning", "parsed", "rescanning", "done"} => Found(R)
                   /\ Read => at = FirstPage(N)
      BY <2>5 DEF Inv
    <3>2. FlashOK(R)' /\ (Found(R) => Found(R)') /\ (Console(R) => Console(R)')
      BY <2>1, <3>1, RestKept
    <3>3. Rebuilt(R)' = Rebuilt(R) /\ Read' = Read
      BY <2>1 DEF Rebuilt, Read
    <3> QED
      BY <2>1, <2>2, <2>3, <2>5, <3>1, <3>2, <3>3 DEF Inv
  <2> QED
    BY <2>4, <2>5
<1> QED
  BY <1>1, <1>2, <1>3, <1>4, <1>5, <1>6, <1>7, <1>8 DEF Next

LEMMA InvHolds == Spec => []Inv
<1> QED
  BY InitInv, NextInv, PTL DEF Spec

-----------------------------------------------------------------------------
(* What follows. *)

\* The blobs of a slot that were written whole are those of its runs.
LEMMA OfSlotFacts ==
    ASSUME NEW R, FlashOK(R), NEW k \in Slots
    PROVE  /\ \A r \in R : r.slot = k /\ Complete(r) => BlobOf(r) \in OfSlot(k)
           /\ \A b \in OfSlot(k) : \E r \in R : r.slot = k /\ Complete(r) /\ b = BlobOf(r)
           /\ \A r \in R : /\ r \in Run /\ BlobOf(r).sequence = r.sequence
                           /\ BlobOf(r).start_page = r.start
                           /\ Len(BlobOf(r).data) = Len(r.data)
<1>1. ASSUME NEW r \in R, r.slot = k, Complete(r) PROVE BlobOf(r) \in OfSlot(k)
  <2>1. [slot |-> k, blob |-> BlobOf(r)] \in whole
    BY <1>1 DEF FlashOK
  <2> PICK w : w = [slot |-> k, blob |-> BlobOf(r)]
    OBVIOUS
  <2>2. w \in {v \in whole : v.slot = k} /\ w.blob = BlobOf(r)
    BY <2>1
  <2> QED
    BY <2>2 DEF OfSlot
<1>2. ASSUME NEW b \in OfSlot(k)
      PROVE  \E r \in R : r.slot = k /\ Complete(r) /\ b = BlobOf(r)
  <2>1. PICK w \in whole : w.slot = k /\ b = w.blob
    BY <1>2 DEF OfSlot
  <2>2. PICK r \in R : Complete(r) /\ w = [slot |-> r.slot, blob |-> BlobOf(r)]
    BY <2>1 DEF FlashOK
  <2> QED
    BY <2>1, <2>2
<1>3. ASSUME NEW r \in R
      PROVE  /\ r \in Run /\ BlobOf(r).sequence = r.sequence /\ BlobOf(r).start_page = r.start
             /\ Len(BlobOf(r).data) = Len(r.data)
  <2>1. r \in Run /\ r.data \in Seq(PageData)
    BY DEF FlashOK, Run
  <2> PICK n \in Nat : n = Len(r.data)
    BY <2>1, LenProperties
  <2>2. BlobOf(r).data = [i \in 1..n |-> Padded[r.data[i]]]
    BY DEF BlobOf
  <2>3. \A i \in 1..n : Padded[r.data[i]] \in PageData
    BY <2>1, PaddedFacts
  <2>4. Len([i \in 1..n |-> Padded[r.data[i]]]) = n
    OBVIOUS
  <2> QED
    BY <2>1, <2>2, <2>4 DEF BlobOf
<1> QED
  BY <1>1, <1>2, <1>3

\* Types, and the blocks of the blobs a build places.
THEOREM MobileTypes == Spec => []TypeOK
<1>1. Inv => TypeOK
  BY DEF Inv, Types
<1> QED
  BY <1>1, InvHolds, PTL

\* Of versions shorter than Unit pages, on big blocks, a scan of what the
\* console leaves finds the newest one that was written whole (scan_physical).
THEOREM NewestFoundOnBigBlocks ==
    ASSUME \A d \in Versions : Len(d) < Unit
    PROVE  Spec => []BigBlockNewestFound
<1>1. Inv => BigBlockNewestFound
  <2> SUFFICES ASSUME Inv, layout = "Bb", stage = "parsed", NEW k \in Slots
               PROVE  IF OfSlot(k) = {} THEN store[k] = NoBlob
                      ELSE /\ store[k] \in OfSlot(k)
                           /\ \A b \in OfSlot(k) : b.sequence <= store[k].sequence
    BY DEF BigBlockNewestFound, NewestFound
  <2>1. PICK R : FlashOK(R) /\ Console(R) /\ Found(R) /\ at = FirstPage(N)
    BY DEF Inv, Read
  <2>2. FitSlot(R, k)
    BY <2>1 DEF FitSlot, Console
  <2>3. \A r \in R : Complete(r) => r.sequence \in Nat \ {0} /\ r.sequence <= store[r.slot].sequence
    <3> SUFFICES ASSUME NEW r \in R, Complete(r)
                 PROVE  r.sequence \in Nat \ {0} /\ r.sequence <= store[r.slot].sequence
      OBVIOUS
    <3>1. r \in Run /\ r.done \in 1..Len(r.data) /\ PagesOf(r) \subseteq Pages /\ Short(r)
      BY <2>1 DEF FlashOK, Console, Short
    <3>2. r.start \in Pages
      <4>1. r.start \in Nat /\ r.done \in Nat /\ r.done >= 1
        BY <3>1 DEF Run
      <4> QED
        BY <3>1, <4>1 DEF PagesOf
    <3>3. r.start < at
      BY <2>1, <3>2, PageFacts DEF Inv, Types
    <3> QED
      BY <2>1, <3>1, <3>3 DEF Found, Run
  <2>4. store[k] = NoBlob \/ \E r \in R : r.slot = k /\ Complete(r) /\ store[k] = BlobOf(r)
    BY <2>1, <2>2 DEF Found
  <2>5. CASE OfSlot(k) = {}
    BY <2>1, <2>4, <2>5, OfSlotFacts
  <2>6. CASE OfSlot(k) # {}
    <3>1. \A b \in OfSlot(k) : b.sequence \in Nat \ {0} /\ b.sequence <= store[k].sequence
      <4> TAKE b \in OfSlot(k)
      <4>1. PICK r \in R : r.slot = k /\ Complete(r) /\ b = BlobOf(r)
        BY <2>1, OfSlotFacts
      <4>2. BlobOf(r).sequence = r.sequence
        BY <2>1, OfSlotFacts
      <4> QED
        BY <2>3, <4>1, <4>2
    <3>2. store[k] # NoBlob
      <4>1. PICK b \in OfSlot(k) : b.sequence \in Nat \ {0} /\ b.sequence <= store[k].sequence
        BY <2>6, <3>1
      <4>2. ~(b.sequence <= 0)
        BY <4>1
      <4> QED
        BY <4>1, <4>2 DEF NoBlob
    <3> QED
      BY <2>1, <2>4, <2>6, <3>1, <3>2, OfSlotFacts
  <2> QED
    BY <2>5, <2>6
<1> QED
  BY <1>1, InvHolds, PTL

\* What a scan finds was written, whole and for that slot, if no blob of the
\* data folder has more pages than the byte of its length counts.
THEOREM NoBlobInvented ==
    ASSUME \A folder \in Folders, k \in Slots : Len(folder[k]) <= Byte
    PROVE  Spec => []NothingInvented
<1>1. Inv => NothingInvented
  <2> SUFFICES ASSUME Inv, Read, NEW k \in Slots, store[k] # NoBlob
               PROVE  store[k] \in OfSlot(k)
    BY DEF NothingInvented
  <2>1. PICK R : FlashOK(R) /\ Found(R) /\ (Console(R) \/ Rebuilt(R))
    BY DEF Inv, Read
  <2>2. FitSlot(R, k)
    BY <2>1 DEF FitSlot, Console, Rebuilt
  <2> QED
    BY <2>1, <2>2, OfSlotFacts DEF Found
<1> QED
  BY <1>1, InvHolds, PTL

\* On big blocks a blob of fewer than Unit pages that a build has placed is
\* found again, whatever else was placed.
THEOREM ShortBlobsFound == Spec => []ShortBlobsComeBack
<1>1. Inv => ShortBlobsComeBack
  <2> SUFFICES ASSUME Inv, stage = "done", layout = "Bb", NEW k \in Slots, NEW b \in OfSlot(k),
                      Len(b.data) < Unit
               PROVE  store[k] = b
    BY DEF ShortBlobsComeBack
  <2>1. PICK R : FlashOK(R) /\ Rebuilt(R) /\ Found(R) /\ at = FirstPage(N)
    BY DEF Inv, Read
  <2>2. PICK r \in R : r.slot = k /\ Complete(r) /\ b = BlobOf(r)
    BY <2>1, OfSlotFacts
  <2>3. r \in Run /\ Len(r.data) < Unit /\ r.sequence = 1
    <3>1. r \in Run /\ Len(BlobOf(r).data) = Len(r.data)
      BY <2>1, OfSlotFacts
    <3> QED
      BY <2>1, <2>2, <3>1 DEF Rebuilt
  <2>4. \A t \in R : t.slot = k => t = r
    BY <2>1, <2>2, <2>3 DEF FlashOK, Rebuilt
  <2>5. FitSlot(R, k)
    <3>1. Unit \in Nat /\ Byte \in Nat /\ Unit <= Byte /\ Len(r.data) \in Nat
      <4>1. Unit \in Nat /\ SizePages \in Nat /\ Byte \in Nat /\ 2 * Unit <= SizePages
            /\ SizePages <= Byte
        BY MobileAssumption
      <4>2. Len(r.data) \in Nat
        BY <2>3, LenProperties DEF Run
      <4> QED
        BY <4>1, <4>2
    <3>2. Len(r.data) <= Byte
      BY <2>3, <3>1
    <3> QED
      BY <2>4, <3>2 DEF FitSlot
  <2>6. r.sequence <= store[k].sequence
    <3>1. r.done \in 1..Len(r.data) /\ PagesOf(r) \subseteq Pages
      BY <2>1 DEF FlashOK
    <3>2. r.start \in Pages
      <4>1. r.start \in Nat /\ r.done \in Nat /\ r.done >= 1
        BY <2>3, <3>1 DEF Run
      <4> QED
        BY <3>1, <4>1 DEF PagesOf
    <3>3. r.start < at
      BY <2>1, <3>2, PageFacts DEF Inv, Types
    <3>4. Short(r)
      BY <2>3 DEF Short
    <3> QED
      BY <2>1, <2>2, <3>3, <3>4 DEF Found
  <2>7. store[k] # NoBlob
    BY <2>3, <2>6 DEF NoBlob
  <2>8. PICK t \in R : t.slot = k /\ store[k] = BlobOf(t)
    BY <2>1, <2>5, <2>7 DEF Found
  <2> QED
    BY <2>2, <2>4, <2>8
<1> QED
  BY <1>1, InvHolds, PTL
=============================================================================
