----------------------------- MODULE PgmProofs -----------------------------
(***************************************************************************)
(* Proofs about the page manager for every size of the region, the page,   *)
(* the header and the word, as long as the directory fits (DirFits).       *)
(***************************************************************************)
EXTENDS Pgm, FiniteSetTheorems, TLAPS

-----------------------------------------------------------------------------
(***************************************************************************)
(* pgm_first_one                                                           *)
(***************************************************************************)

(***************************************************************************)
(* What the locals x and i of pgm_first_one are between two halvings: x is *)
(* the argument moved down by i, and one of its low k bits is set.         *)
(***************************************************************************)
ScanState(X, s, k) ==
  /\ \A b \in s.x : b + s.i \in X
  /\ \A b \in X : b >= s.i /\ b - s.i \in s.x
  /\ \E b \in s.x : b < k

(***************************************************************************)
(* One halving of pgm_first_one narrows the window that holds the lowest   *)
(* bit from 2k to k positions.                                             *)
(***************************************************************************)
LEMMA HalveNarrows ==
  ASSUME NEW X \in SUBSET Nat, NEW s \in [x : SUBSET Nat, i : Nat],
         NEW k \in Nat \ {0}, NEW m \in Nat, m = 2 * k, ScanState(X, s, m)
  PROVE  /\ Halve(s, k) \in [x : SUBSET Nat, i : Nat]
         /\ ScanState(X, Halve(s, k), k)
<1>1. CASE s.x \cap 0..(k - 1) = {}
  <2>1. Halve(s, k) = [x |-> ShiftRight(s.x, k), i |-> s.i + k]
    BY <1>1 DEF Halve
  <2>2. \A b \in s.x : b \in Nat /\ b >= k
    BY <1>1
  <2>3. \A b \in s.x : b - k \in ShiftRight(s.x, k)
    BY <2>2 DEF ShiftRight
  <2>4. \A c \in ShiftRight(s.x, k) : c \in Nat /\ c + k \in s.x
    BY <2>2 DEF ShiftRight
  <2>5. \A c \in ShiftRight(s.x, k) : c + (s.i + k) \in X
    <3> SUFFICES ASSUME NEW c \in ShiftRight(s.x, k)
                 PROVE  c + (s.i + k) \in X
      OBVIOUS
    <3>1. (c + k) + s.i \in X
      BY <2>4 DEF ScanState
    <3>2. (c + k) + s.i = c + (s.i + k)
      BY <2>4
    <3> QED
      BY <3>1, <3>2
  <2>6. \A b \in X : b >= s.i + k /\ b - (s.i + k) \in ShiftRight(s.x, k)
    <3> SUFFICES ASSUME NEW b \in X
                 PROVE  b >= s.i + k /\ b - (s.i + k) \in ShiftRight(s.x, k)
      OBVIOUS
    <3>1. b - s.i \in s.x
      BY DEF ScanState
    <3>2. b - s.i >= k /\ (b - s.i) - k \in ShiftRight(s.x, k)
      BY <2>2, <2>3, <3>1
    <3>3. (b - s.i) - k = b - (s.i + k)
      OBVIOUS
    <3> QED
      BY <3>2, <3>3
  <2>7. \E c \in ShiftRight(s.x, k) : c < k
    <3>1. PICK b \in s.x : b < m
      BY DEF ScanState
    <3>2. b - k \in ShiftRight(s.x, k) /\ b - k < k
      BY <2>2, <2>3, <3>1
    <3> QED
      BY <3>2
  <2>8. Halve(s, k) \in [x : SUBSET Nat, i : Nat]
    BY <2>1, <2>4
  <2> QED
    BY <2>1, <2>5, <2>6, <2>7, <2>8 DEF ScanState
<1>2. CASE s.x \cap 0..(k - 1) # {}
  BY <1>2 DEF Halve, ScanState
<1> QED
  BY <1>1, <1>2

(***************************************************************************)
(* pgm_first_one returns the lowest one bit of any word of up to 64 bits   *)
(* that is not zero.                                                       *)
(***************************************************************************)
THEOREM FirstOneIsLowest ==
  ASSUME NEW X \in SUBSET Bits64, X # {}
  PROVE  /\ pgm_first_one(X) \in X
         /\ \A b \in X : pgm_first_one(X) <= b
<1> DEFINE S == [x : SUBSET Nat, i : Nat]
           s0 == [x |-> X, i |-> 0]
           s1 == Halve(s0, 32)
           s2 == Halve(s1, 16)
           s3 == Halve(s2, 8)
           s4 == Halve(s3, 4)
           s5 == Halve(s4, 2)
           s6 == Halve(s5, 1)
<1>0. X \in SUBSET Nat
  BY DEF Bits64
<1>1. s0 \in S /\ ScanState(X, s0, 64)
  <2>1. \A b \in X : b \in Nat /\ b < 64 /\ b + 0 = b /\ b - 0 = b /\ b >= 0
    BY DEF Bits64
  <2> QED
    BY <1>0, <2>1 DEF ScanState
<1> HIDE DEF s0
<1>2. s1 \in S /\ ScanState(X, s1, 32)
  <2>1. 64 \in Nat /\ 64 = 2 * 32 /\ 32 \in Nat \ {0}
    OBVIOUS
  <2> QED
    BY <1>0, <1>1, <2>1, HalveNarrows
<1> HIDE DEF s1
<1>3. s2 \in S /\ ScanState(X, s2, 16)
  <2>1. 32 \in Nat /\ 32 = 2 * 16 /\ 16 \in Nat \ {0}
    OBVIOUS
  <2> QED
    BY <1>0, <1>2, <2>1, HalveNarrows
<1> HIDE DEF s2
<1>4. s3 \in S /\ ScanState(X, s3, 8)
  <2>1. 16 \in Nat /\ 16 = 2 * 8 /\ 8 \in Nat \ {0}
    OBVIOUS
  <2> QED
    BY <1>0, <1>3, <2>1, HalveNarrows
<1> HIDE DEF s3
<1>5. s4 \in S /\ ScanState(X, s4, 4)
  <2>1. 8 \in Nat /\ 8 = 2 * 4 /\ 4 \in Nat \ {0}
    OBVIOUS
  <2> QED
    BY <1>0, <1>4, <2>1, HalveNarrows
<1> HIDE DEF s4
<1>6. s5 \in S /\ ScanState(X, s5, 2)
  <2>1. 4 \in Nat /\ 4 = 2 * 2 /\ 2 \in Nat \ {0}
    OBVIOUS
  <2> QED
    BY <1>0, <1>5, <2>1, HalveNarrows
<1> HIDE DEF s5
<1>7. s6 \in S /\ ScanState(X, s6, 1)
  <2>1. 2 \in Nat /\ 2 = 2 * 1 /\ 1 \in Nat \ {0}
    OBVIOUS
  <2> QED
    BY <1>0, <1>6, <2>1, HalveNarrows
<1>8. Halved(X) = s6
  BY DEF Halved, s0, s1, s2, s3, s4, s5
<1> HIDE DEF s6
<1>9. 0 \in s6.x
  BY <1>7 DEF ScanState
<1>10. s6.i \in X /\ \A b \in X : s6.i <= b
  BY <1>0, <1>7, <1>9 DEF ScanState
<1> QED
  BY <1>8, <1>9, <1>10 DEF pgm_first_one
-----------------------------------------------------------------------------
(***************************************************************************)
(* Arithmetic of the directory                                             *)
(***************************************************************************)

\* Division with remainder, as C's / and % on unsigned words.
LEMMA DivMod ==
  ASSUME NEW a \in Nat, NEW w \in Nat \ {0}
  PROVE  /\ a \div w \in Nat
         /\ a % w \in 0..(w - 1)
         /\ a = w * (a \div w) + (a % w)
  OBVIOUS

\* A smaller factor gives a product at least one w smaller.
LEMMA ProductMonotone ==
  ASSUME NEW a \in Nat, NEW b \in Nat, NEW w \in Nat \ {0}, a < b
  PROVE  (a + 1) * w <= b * w
  OBVIOUS

\* Products keep the order of their first factors.
LEMMA ProductOrder ==
  ASSUME NEW a \in Nat, NEW b \in Nat, NEW w \in Nat, a <= b
  PROVE  a * w \in Nat /\ b * w \in Nat /\ a * w <= b * w
  OBVIOUS

\* Rounding up: the ceiling of a / w is between 1 and a and covers a.
LEMMA RoundUp ==
  ASSUME NEW a \in Nat \ {0}, NEW w \in Nat \ {0}
  PROVE  /\ (a + w - 1) \div w \in 1..a
         /\ a <= ((a + w - 1) \div w) * w
  OBVIOUS

\* A multiple of w is its quotient times w.
LEMMA ExactDivision ==
  ASSUME NEW q \in Nat, NEW w \in Nat \ {0}
  PROVE  (q * w) \div w = q
  OBVIOUS

(***************************************************************************)
(* The sizes pgm_init computes: there is at least one directory page, the  *)
(* bitmap is a whole number of words and the page count does not wrap.     *)
(***************************************************************************)
LEMMA DirectorySizes ==
  /\ dir_pages \in Nat \ {0}
  /\ mem_pages \in Nat
  /\ DirBits \in Nat
  /\ DirWords \in Nat
  /\ DirBits = DirWords * WordBits
  /\ WordBits \in Nat \ {0}
<1>1. WordBits \in Nat \ {0} /\ PageBits \in Nat /\ HeaderBits \in Nat
  BY SizesAssumption
<1>2. dir_pages \in 1..TotalPages
  BY RoundUp, SizesAssumption DEF dir_pages
<1>3. mem_pages \in Nat
  BY <1>2, SizesAssumption DEF mem_pages
<1> DEFINE p == PageBits \div WordBits
           h == HeaderBits \div WordBits
           q == dir_pages * p - h
<1>4. /\ p \in Nat /\ h \in Nat
      /\ PageBits = WordBits * p /\ HeaderBits = WordBits * h
  BY <1>1, DivMod, SizesAssumption
<1>5. h < p
  <2> SUFFICES ASSUME p <= h PROVE FALSE
    BY <1>4
  <2>1. WordBits * p <= WordBits * h
    BY <1>1, <1>4
  <2> QED
    BY <1>4, <2>1, SizesAssumption
<1>6. dir_pages * p >= p
  BY <1>2, <1>4
<1>7. q \in Nat
  BY <1>2, <1>4, <1>5, <1>6
<1>8. DirBits = q * WordBits
  <2> HIDE DEF p, h
  <2>1. dir_pages * (WordBits * p) - WordBits * h = (dir_pages * p - h) * WordBits
    BY <1>1, <1>2, <1>4
  <2> QED
    BY <1>4, <2>1 DEF DirBits
<1> HIDE DEF p, h, q
<1>9. DirWords = q
  BY <1>1, <1>7, <1>8, ExactDivision DEF DirWords
<1>10. DirBits \in Nat
  BY <1>1, <1>7, <1>8
<1> QED
  BY <1>1, <1>2, <1>3, <1>7, <1>8, <1>9, <1>10
-----------------------------------------------------------------------------
(***************************************************************************)
(* The inductive invariant                                                 *)
(***************************************************************************)

(***************************************************************************)
(* None of the parts is inductive alone: the counter keeps the scan inside *)
(* the directory only if the hint is sound and the bitmap is the           *)
(* complement of the held pages, and these stay so only if the scan does.  *)
(***************************************************************************)
IInv == TypeOK /\ PagesPartitioned /\ CountExact /\ HintSound

(***************************************************************************)
(* When the counter is not zero there is a free managed page, at or after  *)
(* the hint, and its bit is inside the directory.                          *)
(***************************************************************************)
LEMMA FreePageExists ==
  ASSUME IInv, DirFits, free_pages # 0
  PROVE  \E p \in Managed : p \in ones /\ p >= ptr * WordBits
<1>1. mem_pages \in Nat /\ DirBits \in Nat /\ held \subseteq Managed
  BY DirectorySizes DEF IInv, TypeOK
<1>2. IsFiniteSet(Managed) /\ Cardinality(Managed) = mem_pages
  BY <1>1, FS_Interval DEF Managed
<1>3. held # Managed
  BY <1>1, <1>2 DEF IInv, CountExact, TypeOK
<1>4. PICK p \in Managed : p \notin held
  BY <1>1, <1>3
<1>5. p \in ones
  BY <1>1, <1>4 DEF IInv, PagesPartitioned, Managed, DirFits
<1> QED
  BY <1>4, <1>5 DEF IInv, HintSound

(***************************************************************************)
(* The scan of pgm_allocate_page ends inside the directory, at the lowest  *)
(* free page, and that page is one of the region's.                        *)
(***************************************************************************)
LEMMA ScanStaysInDirectory ==
  ASSUME IInv, DirFits, free_pages # 0,
         NEW w \in ptr..ScanLimit, NEW x \in WordValues(w), ScanStopsAt(w, x)
  PROVE  LET page == w * WordBits + pgm_first_one(x)
         IN  /\ w \in 0..(DirWords - 1)
             /\ page \in ones
             /\ page \in Managed
             /\ page >= w * WordBits
             /\ \A b \in ones : page <= b
<1> DEFINE page == w * WordBits + pgm_first_one(x)
<1>1. /\ ptr \in Nat /\ DirWords \in Nat /\ DirBits \in Nat /\ mem_pages \in Nat
      /\ WordBits \in 1..64 /\ DirBits = DirWords * WordBits
      /\ ones \subseteq 0..(DirBits - 1)
  BY DirectorySizes, SizesAssumption DEF IInv, TypeOK
<1>2. w \in Nat /\ ptr <= w
  BY <1>1 DEF ScanLimit
<1>3. PICK p \in Managed : p \in ones /\ p >= ptr * WordBits
  BY FreePageExists
\* A one bit at or after the hint stops the scan at its word at the latest.
<1>4. ASSUME NEW b \in ones
      PROVE  b >= w * WordBits
  <2> DEFINE v == b \div WordBits
  <2>1. b \in Nat /\ b < DirWords * WordBits /\ b >= ptr * WordBits
    BY <1>1 DEF IInv, HintSound
  <2>2. v \in Nat /\ v * WordBits <= b /\ b < (v + 1) * WordBits
    BY <1>1, <2>1, DivMod
  <2> HIDE DEF v
  <2>3. v < DirWords
    <3> SUFFICES ASSUME DirWords <= v PROVE FALSE
      BY <1>1, <2>2
    <3>1. DirWords * WordBits <= v * WordBits
      BY <1>1, <2>2
    <3> QED
      BY <1>1, <2>1, <2>2, <3>1
  <2>4. ptr <= v
    <3> SUFFICES ASSUME v < ptr PROVE FALSE
      BY <1>1, <2>2
    <3>1. (v + 1) * WordBits <= ptr * WordBits
      BY <1>1, <2>2, ProductMonotone
    <3> QED
      BY <1>1, <2>1, <2>2, <3>1
  <2>5. Word(v) # {}
    BY <2>1, <2>2 DEF Word
  <2>6. ~(v < w)
    <3> SUFFICES ASSUME v < w PROVE FALSE
      OBVIOUS
    <3>1. {} \in WordValues(v)
      BY <1>2, <2>2, <2>4 DEF ScanStopsAt
    <3> QED
      BY <2>3, <2>5, <3>1 DEF WordValues
  <2>7. w * WordBits <= v * WordBits
    BY <1>1, <1>2, <2>2, <2>6
  <2> QED
    BY <1>1, <1>2, <2>1, <2>2, <2>7
<1>5. w < DirWords
  <2> SUFFICES ASSUME DirWords <= w PROVE FALSE
    BY <1>1, <1>2
  <2>1. DirWords * WordBits <= w * WordBits
    BY <1>1, <1>2
  <2> QED
    BY <1>1, <1>2, <1>3, <1>4, <2>1
<1>6. x = Word(w) /\ x # {}
  BY <1>5 DEF WordValues, ScanStopsAt
<1>7. \A b \in x : b \in 0..(WordBits - 1) /\ w * WordBits + b \in ones
  <2> SUFFICES ASSUME NEW b \in x
               PROVE  b \in 0..(WordBits - 1) /\ w * WordBits + b \in ones
    OBVIOUS
  <2>1. PICK c \in ones : /\ b = c - w * WordBits
                          /\ w * WordBits <= c /\ c < (w + 1) * WordBits
    BY <1>6 DEF Word
  <2>2. c \in Nat /\ w * WordBits \in Nat /\ (w + 1) * WordBits = w * WordBits + WordBits
    BY <1>1, <1>2
  <2> QED
    BY <1>1, <2>1, <2>2
<1>8. x \in SUBSET Bits64
  BY <1>1, <1>7 DEF Bits64
<1>9. pgm_first_one(x) \in x /\ \A b \in x : pgm_first_one(x) <= b
  BY <1>6, <1>8, FirstOneIsLowest
<1>10. page \in ones /\ page \in Nat /\ page >= w * WordBits
  <2>1. page \in ones
    BY <1>7, <1>9
  <2>2. page >= w * WordBits
    BY <1>4, <2>1
  <2> HIDE DEF page
  <2>3. page \in Nat
    BY <1>1, <2>1
  <2> QED
    BY <2>1, <2>2, <2>3
<1>11. ASSUME NEW b \in ones
       PROVE  page <= b
  <2>1. b \in Nat /\ b >= w * WordBits /\ w * WordBits \in Nat
    BY <1>1, <1>2, <1>4
  <2>2. (w + 1) * WordBits = w * WordBits + WordBits
    BY <1>1, <1>2
  <2>3. CASE b < (w + 1) * WordBits
    <3>1. b - w * WordBits \in x
      BY <1>6, <2>1, <2>3 DEF Word
    <3>2. pgm_first_one(x) <= b - w * WordBits /\ pgm_first_one(x) \in Int
      BY <1>7, <1>9, <3>1
    <3> QED
      BY <2>1, <3>2
  <2>4. CASE ~(b < (w + 1) * WordBits)
    <3>1. pgm_first_one(x) \in 0..(WordBits - 1)
      BY <1>7, <1>9
    <3> QED
      BY <1>1, <2>1, <2>2, <2>4, <3>1
  <2> QED
    BY <2>3, <2>4
<1>12. page \in Managed
  BY <1>1, <1>3, <1>10, <1>11 DEF Managed
<1> QED
  BY <1>1, <1>2, <1>5, <1>10, <1>11, <1>12
-----------------------------------------------------------------------------
(***************************************************************************)
(* Invariance                                                              *)
(***************************************************************************)

\* pgm_init establishes the invariant.
LEMMA InitIInv ==
  ASSUME Init PROVE IInv
<1>1. Cardinality({}) = 0
  BY FS_EmptySet
<1>2. \A b \in 0..(DirBits - 1) : b >= 0 * WordBits
  BY DirectorySizes
<1> QED
  BY <1>1, <1>2, DirectorySizes
  DEF Init, IInv, TypeOK, PagesPartitioned, CountExact, HintSound, Managed

\* The held pages are finitely many, since the region is.
LEMMA HeldIsFinite ==
  ASSUME TypeOK PROVE IsFiniteSet(held) /\ Cardinality(held) \in Nat
<1>1. IsFiniteSet(Managed)
  BY DirectorySizes, FS_Interval DEF Managed
<1> QED
  BY <1>1, FS_Subset, FS_CardinalityType DEF TypeOK

\* A successful pgm_allocate_page keeps the invariant.
LEMMA AllocatePageIInv ==
  ASSUME IInv, DirFits, AllocatePage PROVE IInv'
<1>1. free_pages # 0
  BY DEF AllocatePage, SomePageFree
<1>2. PICK w \in ptr..ScanLimit : \E x \in WordValues(w) :
        /\ ScanStopsAt(w, x)
        /\ LET page == w * WordBits + pgm_first_one(x)
           IN  ones' = FlipBit(page) /\ held' = held \cup {page} /\ ret' = page
        /\ ptr' = w
        /\ free_pages' = CountAfter(-1)
  BY DEF AllocatePage
<1>3. PICK x \in WordValues(w) :
        /\ ScanStopsAt(w, x)
        /\ LET page == w * WordBits + pgm_first_one(x)
           IN  ones' = FlipBit(page) /\ held' = held \cup {page} /\ ret' = page
        /\ ptr' = w
        /\ free_pages' = CountAfter(-1)
  BY <1>2
<1> DEFINE page == w * WordBits + pgm_first_one(x)
<1>4. /\ w \in 0..(DirWords - 1) /\ page \in ones /\ page \in Managed
      /\ page >= w * WordBits /\ \A b \in ones : page <= b
  BY <1>1, <1>3, ScanStaysInDirectory
<1>5. ones' = FlipBit(page) /\ held' = held \cup {page} /\ ret' = page
  BY <1>3
<1>6. ptr' = w /\ free_pages' = free_pages - 1
  BY <1>3 DEF CountAfter, IInv, TypeOK
<1> HIDE DEF page
<1>7. ones' = ones \ {page}
  BY <1>4, <1>5 DEF FlipBit, IInv, TypeOK
<1>8. page \notin held
  BY <1>4 DEF IInv, PagesPartitioned
<1>9. TypeOK'
  BY <1>1, <1>4, <1>5, <1>6, <1>7, DirectorySizes DEF IInv, TypeOK
<1>10. PagesPartitioned'
  BY <1>5, <1>7 DEF IInv, PagesPartitioned
<1>11. CountExact'
  <2>1. Cardinality(held') = Cardinality(held) + 1
    BY <1>5, <1>8, HeldIsFinite, FS_AddElement DEF IInv
  <2> QED
    BY <1>6, <2>1, HeldIsFinite, DirectorySizes DEF IInv, TypeOK, CountExact
<1>12. HintSound'
  <2>1. ASSUME NEW b \in ones PROVE b >= w * WordBits
    <3>1. b \in Int /\ page \in Int /\ w * WordBits \in Int
      BY <1>4, DirectorySizes DEF IInv, TypeOK
    <3> QED
      BY <1>4, <3>1
  <2> QED
    BY <1>6, <1>7, <2>1 DEF HintSound
<1> QED
  BY <1>9, <1>10, <1>11, <1>12 DEF IInv

\* pgm_free_page of a held page keeps the invariant.
LEMMA FreePageIInv ==
  ASSUME IInv, DirFits, FreePage PROVE IInv'
<1>1. PICK p \in held :
        /\ ones' = FlipBit(p)
        /\ ptr' = HintAfterFree(p \div WordBits)
        /\ free_pages' = CountAfter(1)
        /\ held' = held \ {p}
        /\ ret' = ret
  BY DEF FreePage
<1>2. /\ DirWords \in Nat /\ DirBits \in Nat /\ mem_pages \in Nat
      /\ WordBits \in Nat \ {0} /\ ptr \in 0..DirWords
      /\ p \in Managed /\ p \in 0..(DirBits - 1)
  BY <1>1, DirectorySizes DEF IInv, TypeOK, Managed, DirFits
<1>3. p \notin ones
  BY <1>1 DEF IInv, PagesPartitioned
<1>4. ones' = ones \cup {p}
  BY <1>1, <1>2, <1>3 DEF FlipBit, IInv, TypeOK
<1>5. free_pages' = free_pages + 1
  BY <1>1 DEF CountAfter
<1> DEFINE w == p \div WordBits
<1>6. w \in Nat /\ w * WordBits <= p
  <2>1. p \in Nat
    BY <1>2
  <2>2. WordBits \in Nat \ {0}
    BY <1>2
  <2>3. w \in Nat /\ p = WordBits * w + (p % WordBits) /\ p % WordBits \in 0..(WordBits - 1)
    BY <2>1, <2>2, DivMod
  <2> HIDE DEF w
  <2> QED
    BY <2>1, <2>2, <2>3
<1>7. ptr' = IF w < ptr THEN w ELSE ptr
  BY <1>1 DEF HintAfterFree
<1> HIDE DEF w
<1>8. CountExact'
  <2>1. Cardinality(held') = Cardinality(held) - 1
    BY <1>1, HeldIsFinite, FS_RemoveElement DEF IInv
  <2>2. /\ free_pages + Cardinality(held) = mem_pages
        /\ free_pages \in Nat /\ Cardinality(held) \in Nat
    BY <1>2, HeldIsFinite DEF IInv, TypeOK, CountExact
  <2>3. CountExact' <=> free_pages' + Cardinality(held') = mem_pages
    BY DEF CountExact, mem_pages, dir_pages
  <2> QED
    BY <1>5, <2>1, <2>2, <2>3
<1>9. TypeOK'
  <2>1. free_pages' \in 0..mem_pages
    <3>1. Cardinality(held') \in Nat
      BY <1>1, HeldIsFinite, FS_RemoveElement, FS_CardinalityType DEF IInv
    <3> QED
      BY <1>2, <1>5, <1>8, <3>1 DEF CountExact, IInv, TypeOK
  <2> QED
    BY <1>1, <1>2, <1>4, <1>6, <1>7, <2>1 DEF IInv, TypeOK
<1>10. PagesPartitioned'
  BY <1>1, <1>2, <1>4 DEF IInv, PagesPartitioned
<1>11. HintSound'
  <2> SUFFICES ASSUME NEW b \in ones' PROVE b >= ptr' * WordBits
    BY DEF HintSound
  <2>1. ptr' \in Nat /\ ptr' <= ptr /\ (b = p => ptr' <= w)
    <3>1. ptr' \in Nat /\ ptr' <= ptr /\ ptr' <= w
      BY <1>2, <1>6, <1>7
    <3> QED
      BY <3>1
  <2>a. WordBits \in Nat /\ ptr \in Nat /\ w \in Nat /\ p \in Nat
    BY <1>2, <1>6
  <2>2. CASE b = p
    <3>1. ptr' \in Nat /\ ptr' <= w
      BY <2>1, <2>2
    <3>2. /\ ptr' * WordBits <= w * WordBits
          /\ ptr' * WordBits \in Nat /\ w * WordBits \in Nat
      BY <2>a, <3>1, ProductOrder
    <3> QED
      BY <1>6, <2>a, <2>2, <3>2
  <2>3. CASE b # p
    <3>1. b \in ones /\ b \in Int /\ b >= ptr * WordBits
      BY <1>4, <2>3 DEF IInv, TypeOK, HintSound
    <3>2. /\ ptr' * WordBits <= ptr * WordBits
          /\ ptr' * WordBits \in Nat /\ ptr * WordBits \in Nat
      BY <2>1, <2>a, ProductOrder
    <3> QED
      BY <3>1, <3>2
  <2> QED
    BY <2>2, <2>3
<1> QED
  BY <1>8, <1>9, <1>10, <1>11 DEF IInv
\* Every step of the page manager, or a stutter, keeps the invariant.
LEMMA NextIInv ==
  ASSUME IInv, DirFits, [Next]_vars PROVE IInv'
<1>1. CASE AllocateFails
  BY <1>1 DEF AllocateFails, IInv, TypeOK, PagesPartitioned, CountExact,
              HintSound, Word, Managed, mem_pages, dir_pages, DirBits, DirWords
<1>2. CASE AllocatePage
  BY <1>2, AllocatePageIInv
<1>3. CASE FreePage
  BY <1>3, FreePageIInv
<1>4. CASE UNCHANGED vars
  BY <1>4 DEF vars, IInv, TypeOK, PagesPartitioned, CountExact, HintSound
<1> QED
  BY <1>1, <1>2, <1>3, <1>4 DEF Next

(***************************************************************************)
(* The page manager is safe: its counter, hint and bitmap stay consistent  *)
(* with the pages its clients hold, whatever they allocate and free.       *)
(***************************************************************************)
THEOREM PgmSafety ==
  ASSUME DirFits
  PROVE  Spec => [](TypeOK /\ PagesPartitioned /\ CountExact /\ HintSound)
<1>1. Init => IInv
  BY InitIInv
<1>2. IInv /\ [Next]_vars => IInv'
  BY NextIInv
<1>3. IInv => TypeOK /\ PagesPartitioned /\ CountExact /\ HintSound
  BY DEF IInv
<1> QED
  BY <1>1, <1>2, <1>3, PTL DEF Spec

(***************************************************************************)
(* No page is both free and held, and none is neither: the bitmap is the   *)
(* complement of what pgm_allocate_page lent and pgm_free_page did not yet *)
(* take back.                                                              *)
(***************************************************************************)
COROLLARY PgmPagesPartitioned == ASSUME DirFits PROVE Spec => []PagesPartitioned
  BY PgmSafety, PTL

(***************************************************************************)
(* The counter that alone ends the scan of pgm_allocate_page is the number *)
(* of free pages.                                                          *)
(***************************************************************************)
COROLLARY PgmCountExact == ASSUME DirFits PROVE Spec => []CountExact
  BY PgmSafety, PTL

-----------------------------------------------------------------------------
(***************************************************************************)
(* Refinement                                                              *)
(***************************************************************************)

\* pgm_init maps to the full pool.
LEMMA InitPool ==
  ASSUME Init, DirFits PROVE Pool!Init
<1>1. Managed \subseteq 0..(DirBits - 1)
  BY DirectorySizes DEF DirFits, Managed
<1> QED
  BY <1>1 DEF Init, Pool!Init

\* Every step maps to a step of the pool or leaves the pool alone.
LEMMA NextPool ==
  ASSUME IInv, DirFits, [Next]_vars
  PROVE  [Pool!Next]_<<ones \cap Managed, ret>>
<1>0. Managed \subseteq 0..(DirBits - 1) /\ Managed \subseteq Int
  BY DirectorySizes DEF DirFits, Managed
<1>1. CASE AllocateFails
  <2>1. held = Managed
    <3>1. IsFiniteSet(Managed) /\ Cardinality(Managed) = mem_pages
      BY FS_Interval, DirectorySizes DEF Managed
    <3>2. Cardinality(held) = mem_pages
      BY <1>1, HeldIsFinite DEF AllocateFails, SomePageFree, IInv, CountExact
    <3> QED
      BY <3>1, <3>2, FS_Subset DEF IInv, TypeOK
  <2>2. ones \cap Managed = {}
    BY <2>1 DEF IInv, PagesPartitioned
  <2>3. Pool!Refuse
    BY <1>1, <2>2 DEF AllocateFails, Pool!Refuse
  <2> QED
    BY <2>3 DEF Pool!Next
<1>2. CASE AllocatePage
  <2>1. free_pages # 0
    BY <1>2 DEF AllocatePage, SomePageFree
  <2>2. PICK w \in ptr..ScanLimit : \E x \in WordValues(w) :
          /\ ScanStopsAt(w, x)
          /\ ones' = FlipBit(w * WordBits + pgm_first_one(x))
          /\ ret' = w * WordBits + pgm_first_one(x)
    BY <1>2 DEF AllocatePage
  <2>3. PICK x \in WordValues(w) :
          /\ ScanStopsAt(w, x)
          /\ ones' = FlipBit(w * WordBits + pgm_first_one(x))
          /\ ret' = w * WordBits + pgm_first_one(x)
    BY <2>2
  <2>4. /\ ret' \in ones /\ ret' \in Managed
        /\ \A b \in ones : ret' <= b
    BY <2>1, <2>3, ScanStaysInDirectory
  <2>5. ones' = ones \ {ret'}
    BY <2>3, <2>4 DEF FlipBit, IInv, TypeOK
  <2>6. Pool!Lend
    BY <2>4, <2>5 DEF Pool!Lend
  <2> QED
    BY <2>6 DEF Pool!Next
<1>3. CASE FreePage
  <2>1. PICK p \in held : ones' = FlipBit(p) /\ ret' = ret
    BY <1>3 DEF FreePage
  <2>2. p \in Managed /\ p \in 0..(DirBits - 1) /\ p \notin ones
    BY <1>0, <2>1 DEF IInv, TypeOK, PagesPartitioned
  <2>3. ones' = ones \cup {p}
    BY <2>1, <2>2 DEF FlipBit, IInv, TypeOK
  <2>4. Pool!GiveBack
    BY <2>1, <2>2, <2>3 DEF Pool!GiveBack
  <2> QED
    BY <2>4 DEF Pool!Next
<1>4. CASE UNCHANGED vars
  BY <1>4 DEF vars
<1> QED
  BY <1>1, <1>2, <1>3, <1>4 DEF Next

(***************************************************************************)
(* The page manager implements the pool of PageAlloc: a page is never lent *)
(* twice, the lowest free page is lent first and a request is refused only *)
(* when every page is lent.                                                *)
(***************************************************************************)
THEOREM PgmImplementsPool ==
  ASSUME DirFits
  PROVE  Spec => ImplementsPool
<1>1. Init => Pool!Init
  BY InitPool
<1>2. IInv /\ [Next]_vars => [Pool!Next]_<<ones \cap Managed, ret>>
  BY NextPool
<1>3. Init => IInv
  BY InitIInv
<1>4. IInv /\ [Next]_vars => IInv'
  BY NextIInv
<1> QED
  BY <1>1, <1>2, <1>3, <1>4, PTL DEF Spec, ImplementsPool, Pool!Spec

=============================================================================
