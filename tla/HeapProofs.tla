----------------------------- MODULE HeapProofs -----------------------------
(***************************************************************************)
(* Proofs about Heap, for a heap of any size, any alignment and any number *)
(* of size classes: the chunk lists stay exact through every split and     *)
(* merge, and they implement the arena.                                    *)
(***************************************************************************)
EXTENDS Heap, FiniteSetTheorems, WellFoundedInduction, TLAPS

-----------------------------------------------------------------------------
\* A set of naturals that is not empty has a minimum, and Min is it.
LEMMA MinOfNaturals ==
  ASSUME NEW S \in SUBSET Nat, S # {}
  PROVE  Min(S) \in S /\ \A y \in S : Min(S) <= y
<1> DEFINE Less == {ss \in Nat \X Nat : ss[1] < ss[2]}
<1>1. IsWellFoundedOn(Less, Nat)
  BY NatLessThanWellFounded DEF OpToRel
<1> HIDE DEF Less
<1>2. PICK x \in S : \A y \in S : ~(<<y, x>> \in Less)
  BY <1>1, WFMin
<1>3. \A y \in S : x <= y
  <2> SUFFICES ASSUME NEW y \in S, y < x PROVE FALSE
    OBVIOUS
  <2>1. <<y, x>> \in Less
    BY DEF Less
  <2> QED
    BY <1>2, <2>1
<1> QED
  BY <1>3 DEF Min

(***************************************************************************)
(* A set of naturals up to N that contains a number whenever it contains   *)
(* all smaller ones contains them all: there is no least one outside.      *)
(***************************************************************************)
LEMMA UpTo ==
  ASSUME NEW N \in Nat, NEW T,
         \A n \in 0..N : (\A m \in 0..(n - 1) : m \in T) => n \in T
  PROVE  \A n \in 0..N : n \in T
<1> DEFINE S == {n \in 0..N : n \notin T}
<1> SUFFICES ASSUME S # {} PROVE FALSE
  OBVIOUS
<1>1. S \in SUBSET Nat
  OBVIOUS
<1>2. Min(S) \in S /\ \A y \in S : Min(S) <= y
  BY <1>1, MinOfNaturals
<1>3. PICK n \in S : \A y \in S : n <= y
  BY <1>2
<1>4. \A m \in 0..(n - 1) : m \in T
  <2> TAKE m \in 0..(n - 1)
  <2>1. n \in 0..N /\ m \in 0..N /\ m < n
    OBVIOUS
  <2> QED
    BY <1>3, <2>1
<1> QED
  BY <1>4

\* The constants, one by one.
LEMMA SizesPositive ==
  /\ ALIGN \in Nat \ {0} /\ HEADER_SIZE \in Nat \ {0} /\ MIN_SIZE \in Nat \ {0}
  /\ HeapSize \in Nat \ {0} /\ ChunkStruct \in Nat \ {0}
  /\ ChunkStruct = HEADER_SIZE + MIN_SIZE
  /\ HeapSize > 3 * ChunkStruct
  /\ NUM_SIZES \in Nat /\ CounterMod \in Nat /\ CounterMod > HeapSize
  /\ Requests \subseteq 0..HeapSize /\ NULL \notin Nat /\ NULL \notin Addr
<1>1. /\ ALIGN \in Nat \ {0} /\ HEADER_SIZE \in Nat \ {0} /\ MIN_SIZE \in Nat \ {0}
      /\ HeapSize \in Nat \ {0}
  BY HeapSizes
<1>2. ChunkStruct = HEADER_SIZE + MIN_SIZE /\ ChunkStruct \in Nat \ {0}
  BY <1>1 DEF ChunkStruct
<1>3. HeapSize > 3 * ChunkStruct
  BY <1>1, <1>2, HeapSizes
<1>4. /\ NUM_SIZES \in Nat /\ CounterMod \in Nat /\ CounterMod > HeapSize
      /\ Requests \subseteq 0..HeapSize /\ NULL \notin Nat
  BY HeapSizes
<1>5. NULL \notin Addr
  <2>1. \A n \in Addr : n \in Nat
    BY <1>1 DEF Addr
  <2> QED
    BY <1>4, <2>1
<1> QED
  BY <1>1, <1>2, <1>3, <1>4, <1>5

-----------------------------------------------------------------------------
(***************************************************************************)
(* Size classes                                                            *)
(***************************************************************************)

\* The equation of heap_chunk_slot for the sizes up to n.
SlotsUpTo(f, n) ==
  /\ f \in [0..n -> Int]
  /\ \A s \in 0..n : f[s] = IF s = 0 THEN -1 ELSE 1 + f[s \div 2]

\* Halving a positive number gives a smaller one.
LEMMA Half ==
  ASSUME NEW s \in Nat \ {0}
  PROVE  s \div 2 \in 0..(s - 1)
  OBVIOUS

\* There is a function that satisfies the equation.
LEMMA SlotsExist ==
  ASSUME NEW N \in Nat
  PROVE  \E f : SlotsUpTo(f, N)
<1> DEFINE T == {n \in 0..N : \E f : SlotsUpTo(f, n)}
<1>1. ASSUME NEW n \in 0..N, \A m \in 0..(n - 1) : m \in T
      PROVE  n \in T
  <2>1. CASE n = 0
    <3> DEFINE g == [s \in 0..0 |-> -1]
    <3>1. SlotsUpTo(g, 0)
      BY DEF SlotsUpTo
    <3> QED
      BY <2>1, <3>1
  <2>2. CASE n # 0
    <3>1. n \in Nat /\ n - 1 \in 0..(n - 1) /\ n \div 2 \in 0..(n - 1)
      BY <2>2, Half
    <3>2. PICK f : SlotsUpTo(f, n - 1)
      BY <1>1, <3>1
    <3> DEFINE g == [s \in 0..n |-> IF s = n THEN 1 + f[n \div 2] ELSE f[s]]
    <3>3. /\ f \in [0..(n - 1) -> Int]
          /\ \A s \in 0..(n - 1) : f[s] = IF s = 0 THEN -1 ELSE 1 + f[s \div 2]
      BY <3>2 DEF SlotsUpTo
    <3>4. \A s \in 0..(n - 1) : s \in 0..n /\ g[s] = f[s] /\ g[s] \in Int
      BY <3>1, <3>3
    <3>5. n \in 0..n /\ g[n] = 1 + f[n \div 2] /\ g[n] \in Int
      BY <3>1, <3>3
    <3>6. g \in [0..n -> Int]
      <4>1. \A s \in 0..n : s = n \/ s \in 0..(n - 1)
        BY <3>1
      <4> QED
        BY <3>4, <3>5, <4>1
    <3> HIDE DEF g
    <3>7. ASSUME NEW s \in 0..n PROVE g[s] = IF s = 0 THEN -1 ELSE 1 + g[s \div 2]
      <4>1. CASE s = n
        BY <2>2, <3>1, <3>4, <3>5, <4>1
      <4>2. CASE s # n
        <5>1. s \in 0..(n - 1)
          BY <3>1, <4>2
        <5>2. s # 0 => s \div 2 \in 0..(n - 1)
          BY <3>1, <5>1, Half
        <5> QED
          BY <3>3, <3>4, <5>1, <5>2
      <4> QED
        BY <4>1, <4>2
    <3>8. SlotsUpTo(g, n)
      BY <3>6, <3>7 DEF SlotsUpTo
    <3> QED
      BY <3>8
  <2> QED
    BY <2>1, <2>2
<1> HIDE DEF T
<1>2. \A n \in 0..N : n \in T
  BY <1>1, UpTo
<1>3. N \in T
  BY <1>2
<1> QED
  BY <1>3 DEF T

\* heap_chunk_slot satisfies its equation.
LEMMA SlotEquation ==
  /\ heap_chunk_slot \in [0..HeapSize -> Int]
  /\ \A s \in 0..HeapSize :
       heap_chunk_slot[s] = IF s = 0 THEN -1 ELSE 1 + heap_chunk_slot[s \div 2]
<1> DEFINE F(f) == [size \in 0..HeapSize |-> IF size = 0 THEN -1 ELSE 1 + f[size \div 2]]
<1>1. HeapSize \in Nat
  BY SizesPositive
<1>2. PICK f : SlotsUpTo(f, HeapSize)
  BY <1>1, SlotsExist
<1>3. f = F(f)
  BY <1>2 DEF SlotsUpTo
<1>4. heap_chunk_slot = CHOOSE g : g = F(g)
  BY DEF heap_chunk_slot
<1>5. heap_chunk_slot = F(heap_chunk_slot)
  BY <1>3, <1>4
<1> HIDE DEF heap_chunk_slot
<1>6. \A s \in 0..HeapSize :
        heap_chunk_slot[s] = IF s = 0 THEN -1 ELSE 1 + heap_chunk_slot[s \div 2]
  BY <1>5
<1>7. \A s \in 0..HeapSize : heap_chunk_slot[s] \in Int
  <2> DEFINE T == {n \in 0..HeapSize : heap_chunk_slot[n] \in Int}
  <2>1. ASSUME NEW n \in 0..HeapSize, \A m \in 0..(n - 1) : m \in T PROVE n \in T
    <3>1. CASE n = 0
      BY <1>6, <3>1
    <3>2. CASE n # 0
      <4>1. n \div 2 \in 0..(n - 1)
        BY <3>2, Half
      <4>2. heap_chunk_slot[n \div 2] \in Int
        BY <2>1, <4>1
      <4> QED
        BY <1>6, <3>2, <4>2
    <3> QED
      BY <3>1, <3>2
  <2> HIDE DEF T
  <2>2. \A n \in 0..HeapSize : n \in T
    BY <1>1, <2>1, UpTo
  <2> QED
    BY <2>2 DEF T
<1>8. heap_chunk_slot \in [0..HeapSize -> Int]
  BY <1>5, <1>7
<1> QED
  BY <1>6, <1>8

\* Every size that is not zero has a class, and a larger size no smaller one.
LEMMA SlotMonotone ==
  /\ \A s \in 0..HeapSize : heap_chunk_slot[s] >= -1
  /\ \A s \in 1..HeapSize : heap_chunk_slot[s] \in Sizes
  /\ \A s, t \in 0..HeapSize : s <= t => heap_chunk_slot[s] <= heap_chunk_slot[t]
<1>0. HeapSize \in Nat /\ NUM_SIZES \in Nat
  BY SizesPositive
<1>1. \A s \in 0..HeapSize :
        /\ heap_chunk_slot[s] \in Int
        /\ heap_chunk_slot[s] = IF s = 0 THEN -1 ELSE 1 + heap_chunk_slot[s \div 2]
  BY SlotEquation
<1>2. \A n \in 0..HeapSize : heap_chunk_slot[n] >= -1
  <2> DEFINE T == {n \in 0..HeapSize : heap_chunk_slot[n] >= -1}
  <2>1. ASSUME NEW n \in 0..HeapSize, \A m \in 0..(n - 1) : m \in T PROVE n \in T
    <3>1. CASE n = 0
      BY <1>1, <3>1
    <3>2. CASE n # 0
      <4>1. n \div 2 \in 0..(n - 1) /\ n \div 2 \in 0..HeapSize
        BY <1>0, <3>2, Half
      <4>2. heap_chunk_slot[n \div 2] >= -1
        BY <2>1, <4>1
      <4> QED
        BY <1>1, <3>2, <4>1, <4>2
    <3> QED
      BY <3>1, <3>2
  <2> HIDE DEF T
  <2>2. \A n \in 0..HeapSize : n \in T
    BY <1>0, <2>1, UpTo
  <2> QED
    BY <2>2 DEF T
<1>3. \A n \in 0..HeapSize : \A s \in 0..n : heap_chunk_slot[s] <= heap_chunk_slot[n]
  <2> DEFINE T == {n \in 0..HeapSize : \A s \in 0..n : heap_chunk_slot[s] <= heap_chunk_slot[n]}
  <2>1. ASSUME NEW n \in 0..HeapSize, \A m \in 0..(n - 1) : m \in T PROVE n \in T
    <3> SUFFICES ASSUME NEW s \in 0..n PROVE heap_chunk_slot[s] <= heap_chunk_slot[n]
      OBVIOUS
    <3>1. s \in 0..HeapSize
      BY <1>0
    <3>2. CASE s = 0
      BY <1>1, <1>2, <3>1, <3>2
    <3>3. CASE s # 0
      <4>1. /\ n \div 2 \in 0..(n - 1) /\ s \div 2 \in 0..(n \div 2)
            /\ n \div 2 \in 0..HeapSize /\ s \div 2 \in 0..HeapSize
        BY <1>0, <3>3
      <4>2. heap_chunk_slot[s \div 2] <= heap_chunk_slot[n \div 2]
        BY <2>1, <4>1
      <4> QED
        BY <1>1, <3>1, <3>3, <4>1, <4>2
    <3> QED
      BY <3>2, <3>3
  <2> HIDE DEF T
  <2>2. \A n \in 0..HeapSize : n \in T
    BY <1>0, <2>1, UpTo
  <2> QED
    BY <2>2 DEF T
<1>4. \A s, t \in 0..HeapSize : s <= t => heap_chunk_slot[s] <= heap_chunk_slot[t]
  BY <1>0, <1>3
<1>5. ASSUME NEW s \in 1..HeapSize PROVE heap_chunk_slot[s] \in Sizes
  <2>1. s \in 0..HeapSize /\ HeapSize \in 0..HeapSize /\ s <= HeapSize /\ s # 0
    BY <1>0
  <2>2. heap_chunk_slot[s] <= heap_chunk_slot[HeapSize] /\ heap_chunk_slot[HeapSize] < NUM_SIZES
    BY <1>4, <2>1, ClassForEverySize
  <2>3. s \div 2 \in 0..HeapSize
    BY <1>0, <2>1, Half
  <2>4. heap_chunk_slot[s] >= 0
    BY <1>1, <1>2, <2>1, <2>3
  <2> QED
    BY <1>0, <1>1, <2>1, <2>2, <2>4 DEF Sizes
<1> QED
  BY <1>2, <1>4, <1>5

\* A chunk in a class from FirstClass(size) on has room for size bytes.
LEMMA ClassFits ==
  ASSUME NEW size \in 1..HeapSize, NEW len \in 1..HeapSize,
         heap_chunk_slot[len] >= FirstClass(size)
  PROVE  len >= size
<1>1. size - 1 \in 0..HeapSize /\ len \in 0..HeapSize /\ HeapSize \in Nat
  BY SizesPositive
<1>2. heap_chunk_slot[size - 1] \in Int /\ heap_chunk_slot[len] \in Int
  BY <1>1, SlotEquation
<1>3. CASE len <= size - 1
  <2>1. heap_chunk_slot[len] <= heap_chunk_slot[size - 1]
    BY <1>1, <1>3, SlotMonotone
  <2> QED
    BY <1>2, <2>1 DEF FirstClass
<1> QED
  BY <1>1, <1>3

\* A chunk in a class before FirstClass(size) is not twice as large.
LEMMA ClassShort ==
  ASSUME NEW size \in 1..HeapSize, NEW len \in 1..HeapSize,
         heap_chunk_slot[len] < FirstClass(size)
  PROVE  len < 2 * size
<1> SUFFICES ASSUME len >= 2 * size PROVE FALSE
  BY SizesPositive
<1>1. /\ size - 1 \in 0..HeapSize /\ len \in 0..HeapSize /\ HeapSize \in Nat
      /\ 2 * size \in 0..HeapSize /\ size \in 0..HeapSize /\ (2 * size) \div 2 = size
      /\ 2 * size # 0
  BY SizesPositive
<1>2. heap_chunk_slot[2 * size] = 1 + heap_chunk_slot[size]
  BY <1>1, SlotEquation
<1>3. /\ heap_chunk_slot[2 * size] <= heap_chunk_slot[len]
      /\ heap_chunk_slot[size - 1] <= heap_chunk_slot[size]
  BY <1>1, SlotMonotone
<1>4. /\ heap_chunk_slot[size - 1] \in Int /\ heap_chunk_slot[len] \in Int
      /\ heap_chunk_slot[size] \in Int
  BY <1>1, SlotEquation
<1> QED
  BY <1>2, <1>3, <1>4 DEF FirstClass

-----------------------------------------------------------------------------
(***************************************************************************)
(* Circular lists                                                          *)
(***************************************************************************)
Link == [Addr -> Addr \cup {NULL}]

\* A set that is left by no link.
Closed(next, S) == \A c \in S : next[c] \in S

\* The members form one cycle, and hd is one of them.
OneCycle(next, prev, hd, members) ==
  /\ hd \in members
  /\ \A c \in members : /\ next[c] \in members /\ prev[next[c]] = c
                        /\ prev[c] \in members /\ next[prev[c]] = c
  /\ \A S \in SUBSET members : S # {} /\ Closed(next, S) => S = members

\* The list of a class: a cycle through its members, or nothing.
Cycle(next, prev, hd, members) ==
  IF members = {} THEN hd = NULL ELSE OneCycle(next, prev, hd, members)

\* A cycle does not depend on the links of other chunks.
LEMMA CycleFrame ==
  ASSUME NEW next, NEW prev, NEW next2, NEW prev2, NEW hd, NEW M,
         Cycle(next, prev, hd, M),
         \A c \in M : next2[c] = next[c] /\ prev2[c] = prev[c]
  PROVE  Cycle(next2, prev2, hd, M)
<1>1. CASE M = {}
  BY <1>1 DEF Cycle
<1>2. CASE M # {}
  <2>1. OneCycle(next, prev, hd, M)
    BY <1>2 DEF Cycle
  <2>2. ASSUME NEW S \in SUBSET M, S # {}, Closed(next2, S) PROVE S = M
    <3>1. Closed(next, S)
      BY <2>2 DEF Closed
    <3> QED
      BY <2>1, <2>2, <3>1 DEF OneCycle
  <2>3. \A c \in M : /\ next2[c] \in M /\ prev2[next2[c]] = c
                     /\ prev2[c] \in M /\ next2[prev2[c]] = c
    BY <2>1 DEF OneCycle
  <2> QED
    BY <1>2, <2>1, <2>2, <2>3 DEF OneCycle, Cycle
<1> QED
  BY <1>1, <1>2

\* dlist_remove of a chunk that is not alone, and a head that stays or moves on.
LEMMA RemoveFromCycle ==
  ASSUME NEW next \in Link, NEW prev \in Link, NEW hd, NEW M \in SUBSET Addr,
         NEW c \in M, OneCycle(next, prev, hd, M), next[c] # c
  PROVE  OneCycle([next EXCEPT ![prev[c]] = next[c], ![c] = c],
                  [prev EXCEPT ![next[c]] = prev[c], ![c] = c],
                  IF hd # c THEN hd ELSE next[c], M \ {c})
<1> DEFINE n2 == [next EXCEPT ![prev[c]] = next[c], ![c] = c]
           p2 == [prev EXCEPT ![next[c]] = prev[c], ![c] = c]
           M2 == M \ {c}
<1>1. \A d \in M : /\ d \in Addr /\ next[d] \in M /\ prev[next[d]] = d
                   /\ prev[d] \in M /\ next[prev[d]] = d
  BY DEF OneCycle
<1>2. next[c] \in M2 /\ prev[c] \in M2 /\ hd \in M
  BY <1>1 DEF OneCycle
<1>3. \A d \in M2 : /\ n2[d] = (IF d = prev[c] THEN next[c] ELSE next[d])
                    /\ p2[d] = (IF d = next[c] THEN prev[c] ELSE prev[d])
  BY <1>1, <1>2 DEF Link
<1> HIDE DEF n2, p2
<1>4. \A d \in M2 : n2[d] \in M2 /\ p2[n2[d]] = d /\ p2[d] \in M2 /\ n2[p2[d]] = d
  BY <1>1, <1>2, <1>3
<1>5. ASSUME NEW S \in SUBSET M2, S # {}, Closed(n2, S) PROVE S = M2
  <2> DEFINE T == IF prev[c] \in S THEN S \cup {c} ELSE S
  <2>1. T \in SUBSET M /\ T # {}
    BY <1>5
  <2>2. ASSUME NEW d \in T PROVE next[d] \in T
    <3>1. CASE d \in S /\ d # prev[c]
      <4>1. next[d] = n2[d] /\ n2[d] \in S
        BY <1>3, <1>5, <3>1 DEF Closed
      <4> QED
        BY <4>1
    <3>2. CASE d \in S /\ d = prev[c]
      BY <1>1, <3>2
    <3>3. CASE d = c /\ prev[c] \in S
      <4>1. next[c] = n2[prev[c]] /\ n2[prev[c]] \in S
        BY <1>2, <1>3, <1>5, <3>3 DEF Closed
      <4> QED
        BY <3>3, <4>1
    <3> QED
      BY <3>1, <3>2, <3>3
  <2>3. T = M
    BY <2>1, <2>2 DEF OneCycle, Closed
  <2> QED
    BY <1>5, <2>3
<1>6. (IF hd # c THEN hd ELSE next[c]) \in M2
  BY <1>2
<1>7. OneCycle(n2, p2, IF hd # c THEN hd ELSE next[c], M2)
  BY <1>4, <1>5, <1>6 DEF OneCycle
<1> QED
  BY <1>7 DEF n2, p2

\* DLIST_REMOVE_FROM: the class without the chunk.
LEMMA CycleRemove ==
  ASSUME NEW next \in Link, NEW prev \in Link, NEW hd, NEW M \in SUBSET Addr,
         NEW c \in M, Cycle(next, prev, hd, M)
  PROVE  Cycle([next EXCEPT ![prev[c]] = next[c], ![c] = c],
               [prev EXCEPT ![next[c]] = prev[c], ![c] = c],
               IF hd # c THEN hd ELSE IF next[c] = c THEN NULL ELSE next[c], M \ {c})
<1>1. OneCycle(next, prev, hd, M)
  BY DEF Cycle
<1>2. CASE next[c] = c
  <2>1. Closed(next, {c})
    BY <1>2 DEF Closed
  <2>2. M = {c}
    <3>1. {c} \in SUBSET M /\ {c} # {}
      OBVIOUS
    <3> QED
      BY <1>1, <2>1, <3>1 DEF OneCycle
  <2>3. hd = c /\ M \ {c} = {}
    BY <1>1, <2>2 DEF OneCycle
  <2> QED
    BY <1>2, <2>3 DEF Cycle
<1>3. CASE next[c] # c
  <2> DEFINE n2 == [next EXCEPT ![prev[c]] = next[c], ![c] = c]
             p2 == [prev EXCEPT ![next[c]] = prev[c], ![c] = c]
             h2 == IF hd # c THEN hd ELSE next[c]
  <2>1. OneCycle(n2, p2, h2, M \ {c})
    BY <1>1, <1>3, RemoveFromCycle
  <2>2. M \ {c} # {}
    BY <2>1 DEF OneCycle
  <2>3. h2 = IF hd # c THEN hd ELSE IF next[c] = c THEN NULL ELSE next[c]
    BY <1>3
  <2> HIDE DEF n2, p2, h2
  <2>4. Cycle(n2, p2, h2, M \ {c})
    BY <2>1, <2>2 DEF Cycle
  <2> QED
    BY <2>3, <2>4 DEF n2, p2
<1> QED
  BY <1>2, <1>3

\* DLIST_PUSH on a list that is not empty: dlist_insert_before the head.
LEMMA PushOnCycle ==
  ASSUME NEW next \in Link, NEW prev \in Link, NEW hd, NEW M \in SUBSET Addr,
         NEW c \in Addr \ M, OneCycle(next, prev, hd, M)
  PROVE  OneCycle([next EXCEPT ![prev[hd]] = c, ![c] = hd],
                  [prev EXCEPT ![c] = prev[hd], ![hd] = c], c, M \cup {c})
<1> DEFINE n2 == [next EXCEPT ![prev[hd]] = c, ![c] = hd]
           p2 == [prev EXCEPT ![c] = prev[hd], ![hd] = c]
           M2 == M \cup {c}
           e == prev[hd]
<1>1. \A d \in M : /\ d \in Addr /\ next[d] \in M /\ prev[next[d]] = d
                   /\ prev[d] \in M /\ next[prev[d]] = d
  BY DEF OneCycle
<1>2. hd \in M /\ e \in M /\ next[e] = hd /\ c \notin M
  BY <1>1 DEF OneCycle
<1>3. /\ \A d \in M : n2[d] = IF d = e THEN c ELSE next[d]
      /\ \A d \in M : p2[d] = IF d = hd THEN c ELSE prev[d]
      /\ n2[c] = hd /\ p2[c] = e
  BY <1>1, <1>2 DEF Link
<1> HIDE DEF n2, p2, e
<1>4. \A d \in M2 : n2[d] \in M2 /\ p2[n2[d]] = d /\ p2[d] \in M2 /\ n2[p2[d]] = d
  BY <1>1, <1>2, <1>3 DEF e
<1>5. ASSUME NEW S \in SUBSET M2, S # {}, Closed(n2, S) PROVE S = M2
  <2> DEFINE T == S \ {c}
  <2>1. c \in S => hd \in S
    BY <1>3, <1>5 DEF Closed
  <2>2. T \in SUBSET M /\ T # {}
    BY <1>2, <1>5, <2>1
  <2>3. ASSUME NEW d \in T PROVE next[d] \in T
    <3>1. n2[d] \in S /\ d \in M
      BY <1>5 DEF Closed
    <3>2. CASE d = e
      BY <1>2, <1>3, <2>1, <3>1, <3>2
    <3>3. CASE d # e
      BY <1>1, <1>3, <3>1, <3>3
    <3> QED
      BY <3>2, <3>3
  <2>4. T = M
    BY <2>2, <2>3 DEF OneCycle, Closed
  <2>5. n2[e] \in S /\ n2[e] = c
    BY <1>2, <1>3, <1>5, <2>4 DEF Closed
  <2> QED
    BY <1>5, <2>4, <2>5
<1>6. OneCycle(n2, p2, c, M2)
  BY <1>4, <1>5 DEF OneCycle
<1> QED
  BY <1>6 DEF n2, p2, e

\* A chunk linked to itself is a list of its own.
LEMMA SingleCycle ==
  ASSUME NEW next, NEW prev, NEW c, next[c] = c, prev[c] = c
  PROVE  OneCycle(next, prev, c, {c})
<1>1. \A S \in SUBSET {c} : S # {} => S = {c}
  OBVIOUS
<1> QED
  BY <1>1 DEF OneCycle

-----------------------------------------------------------------------------
(***************************************************************************)
(* The free lists: the listed chunks F, each in its class k[c].            *)
(***************************************************************************)
Links == [next : Link, prev : Link]
Heads == [Sizes -> Addr \cup {NULL}]

Class(F, k, n) == {c \in F : k[c] = n}

Lists(l, fc, F, k) == \A n \in Sizes : Cycle(l.next, l.prev, fc[n], Class(F, k, n))

\* The lists do not depend on the links and classes of other chunks.
LEMMA ListFrame ==
  ASSUME NEW l, NEW l2, NEW fc, NEW F, NEW k, NEW k2, Lists(l, fc, F, k),
         \A c \in F : /\ l2.next[c] = l.next[c] /\ l2.prev[c] = l.prev[c]
                      /\ k2[c] = k[c]
  PROVE  Lists(l2, fc, F, k2)
<1> SUFFICES ASSUME NEW n \in Sizes
             PROVE  Cycle(l2.next, l2.prev, fc[n], Class(F, k2, n))
  BY DEF Lists
<1>1. Class(F, k2, n) = Class(F, k, n)
  BY DEF Class
<1>2. Cycle(l.next, l.prev, fc[n], Class(F, k, n))
  BY DEF Lists
<1>3. \A c \in Class(F, k, n) : l2.next[c] = l.next[c] /\ l2.prev[c] = l.prev[c]
  BY DEF Class
<1>4. Cycle(l2.next, l2.prev, fc[n], Class(F, k, n))
  BY <1>2, <1>3, CycleFrame
<1> QED
  BY <1>1, <1>4

\* dlist_remove: what it does to the links.
LEMMA RemoveLinks ==
  ASSUME NEW l \in Links, NEW c \in Addr, l.next[c] \in Addr, l.prev[c] \in Addr
  PROVE  LET r == dlist_remove(l, c)
         IN  /\ r \in Links
             /\ r.next = [l.next EXCEPT ![l.prev[c]] = l.next[c], ![c] = c]
             /\ r.prev = [l.prev EXCEPT ![l.next[c]] = l.prev[c], ![c] = c]
             /\ r.next[c] = c /\ r.prev[c] = c
<1> DEFINE r == dlist_remove(l, c)
<1>1. l.next \in Link /\ l.prev \in Link
  BY DEF Links
<1>2. /\ r.next = [l.next EXCEPT ![l.prev[c]] = l.next[c], ![c] = c]
      /\ r.prev = [l.prev EXCEPT ![l.next[c]] = l.prev[c], ![c] = c]
  BY DEF dlist_remove
<1>3. r = [next |-> r.next, prev |-> r.prev]
  BY DEF dlist_remove
<1>4. r.next \in Link /\ r.prev \in Link /\ r.next[c] = c /\ r.prev[c] = c
  <2> HIDE DEF r
  <2> QED
    BY <1>1, <1>2 DEF Link
<1> HIDE DEF r
<1>5. r \in Links
  BY <1>3, <1>4 DEF Links
<1> QED
  BY <1>2, <1>4, <1>5 DEF r

\* The head of a list after the removal of c, which d2 follows.
NewHead(hd, c, d2) == IF hd # c THEN hd ELSE IF d2 = c THEN NULL ELSE d2

\* Taking a chunk out of the list of its class.
LEMMA ListRemove ==
  ASSUME NEW l \in Links, NEW fc \in Heads, NEW F \in SUBSET Addr, NEW k,
         NEW c \in F, NEW m \in Sizes, m = k[c], Lists(l, fc, F, k)
  PROVE  LET r == dlist_remove(l, c)
             hd2 == NewHead(fc[m], c, l.next[c])
         IN  /\ r \in Links /\ hd2 \in Addr \cup {NULL}
             /\ r.next[c] = c /\ r.prev[c] = c
             /\ Lists(r, [fc EXCEPT ![m] = hd2], F \ {c}, k)
<1> DEFINE r == dlist_remove(l, c)
           hd2 == NewHead(fc[m], c, l.next[c])
           fc2 == [fc EXCEPT ![m] = hd2]
           M == Class(F, k, m)
<1>1. l.next \in Link /\ l.prev \in Link /\ M \in SUBSET Addr /\ c \in M
  BY DEF Links, Class
<1>2. Cycle(l.next, l.prev, fc[m], M)
  BY DEF Lists
<1>3. OneCycle(l.next, l.prev, fc[m], M)
  BY <1>1, <1>2 DEF Cycle
<1>4. l.next[c] \in M /\ l.prev[c] \in M
  BY <1>1, <1>3 DEF OneCycle
<1>5. /\ r \in Links
      /\ r.next = [l.next EXCEPT ![l.prev[c]] = l.next[c], ![c] = c]
      /\ r.prev = [l.prev EXCEPT ![l.next[c]] = l.prev[c], ![c] = c]
      /\ r.next[c] = c /\ r.prev[c] = c
  BY <1>1, <1>4, RemoveLinks
<1> HIDE DEF r
<1>6. hd2 \in Addr \cup {NULL} /\ fc2 \in Heads /\ fc2[m] = hd2
      /\ \A n \in Sizes : n # m => fc2[n] = fc[n]
  BY <1>1, <1>4 DEF Heads, NewHead
<1>7. Cycle(r.next, r.prev, hd2, M \ {c})
  <2> HIDE DEF M
  <2>1. Cycle([l.next EXCEPT ![l.prev[c]] = l.next[c], ![c] = c],
              [l.prev EXCEPT ![l.next[c]] = l.prev[c], ![c] = c], hd2, M \ {c})
    BY <1>1, <1>2, CycleRemove DEF NewHead
  <2> QED
    BY <1>5, <2>1
<1> HIDE DEF hd2, fc2
<1>8. ASSUME NEW n \in Sizes PROVE Cycle(r.next, r.prev, fc2[n], Class(F \ {c}, k, n))
  <2>1. CASE n = m
    <3>1. Class(F \ {c}, k, n) = M \ {c}
      BY <2>1 DEF Class
    <3> QED
      BY <1>6, <1>7, <2>1, <3>1
  <2>2. CASE n # m
    <3>1. Class(F \ {c}, k, n) = Class(F, k, n)
      BY <2>2 DEF Class
    <3>2. \A d \in Class(F, k, n) : d \notin M /\ d \in Addr
      BY <2>2 DEF Class
    <3>3. \A d \in Class(F, k, n) : r.next[d] = l.next[d] /\ r.prev[d] = l.prev[d]
      BY <1>1, <1>4, <1>5, <3>2 DEF Link
    <3>4. Cycle(l.next, l.prev, fc[n], Class(F, k, n))
      BY DEF Lists
    <3>5. Cycle(r.next, r.prev, fc[n], Class(F, k, n))
      BY <3>3, <3>4, CycleFrame
    <3> QED
      BY <1>6, <2>2, <3>1, <3>5
  <2> QED
    BY <2>1, <2>2
<1>9. Lists(r, fc2, F \ {c}, k)
  BY <1>8 DEF Lists
<1> QED
  BY <1>5, <1>6, <1>9 DEF r, fc2, hd2

\* Putting a chunk in front of the list of its class.
LEMMA ListPush ==
  ASSUME NEW l \in Links, NEW fc \in Heads, NEW F \in SUBSET Addr, NEW k,
         NEW c \in Addr \ F, NEW m \in Sizes, m = k[c], Lists(l, fc, F, k),
         l.next[c] = c, l.prev[c] = c
  PROVE  LET old == fc[m]
             r == IF old = NULL THEN l ELSE dlist_insert_before(l, old, c)
         IN  r \in Links /\ Lists(r, [fc EXCEPT ![m] = c], F \cup {c}, k)
<1> DEFINE old == fc[m]
           r == IF old = NULL THEN l ELSE dlist_insert_before(l, old, c)
           fc2 == [fc EXCEPT ![m] = c]
           M == Class(F, k, m)
<1>1. l.next \in Link /\ l.prev \in Link /\ M \in SUBSET Addr /\ c \notin M
  BY DEF Links, Class
<1>2. Cycle(l.next, l.prev, old, M)
  BY DEF Lists
<1>3. /\ fc2 \in Heads /\ fc2[m] = c /\ \A n \in Sizes : n # m => fc2[n] = fc[n]
  BY DEF Heads
<1>4. /\ r \in Links /\ OneCycle(r.next, r.prev, c, M \cup {c})
      /\ \A d \in Addr : d \notin M \cup {c} => r.next[d] = l.next[d] /\ r.prev[d] = l.prev[d]
  <2>1. CASE M = {}
    <3>1. old = NULL /\ r = l /\ M \cup {c} = {c}
      BY <1>2, <2>1 DEF Cycle
    <3> HIDE DEF M, r
    <3> QED
      BY <3>1, SingleCycle
  <2>2. CASE M # {}
    <3>1. OneCycle(l.next, l.prev, old, M)
      BY <1>2, <2>2 DEF Cycle
    <3>2. old \in M /\ old \in Addr /\ l.prev[old] \in M
      BY <1>1, <3>1 DEF OneCycle
    <3>3. old # NULL
      BY <3>2, SizesPositive
    <3> DEFINE n2 == [l.next EXCEPT ![l.prev[old]] = c, ![c] = old]
               p2 == [l.prev EXCEPT ![c] = l.prev[old], ![old] = c]
    <3>4. r = [next |-> n2, prev |-> p2]
      BY <3>3 DEF dlist_insert_before
    <3>5. n2 \in Link /\ p2 \in Link
      BY <1>1, <3>2 DEF Link
    <3>6. OneCycle(n2, p2, c, M \cup {c})
      BY <1>1, <3>1, PushOnCycle
    <3>7. \A d \in Addr : d \notin M \cup {c} => n2[d] = l.next[d] /\ p2[d] = l.prev[d]
      BY <1>1, <3>2 DEF Link
    <3> HIDE DEF n2, p2, r
    <3>8. r.next = n2 /\ r.prev = p2 /\ r \in Links
      BY <3>4, <3>5 DEF Links
    <3> QED
      BY <3>6, <3>7, <3>8
  <2> QED
    BY <2>1, <2>2
<1> HIDE DEF r, fc2
<1>5. ASSUME NEW n \in Sizes PROVE Cycle(r.next, r.prev, fc2[n], Class(F \cup {c}, k, n))
  <2>1. CASE n = m
    <3>1. Class(F \cup {c}, k, n) = M \cup {c} /\ M \cup {c} # {}
      BY <2>1 DEF Class
    <3> QED
      BY <1>3, <1>4, <2>1, <3>1 DEF Cycle
  <2>2. CASE n # m
    <3>1. Class(F \cup {c}, k, n) = Class(F, k, n)
      BY <2>2 DEF Class
    <3>2. \A d \in Class(F, k, n) : d \notin M \cup {c} /\ d \in Addr
      BY <2>2 DEF Class
    <3>3. \A d \in Class(F, k, n) : r.next[d] = l.next[d] /\ r.prev[d] = l.prev[d]
      BY <1>4, <3>2
    <3>4. Cycle(l.next, l.prev, fc[n], Class(F, k, n))
      BY DEF Lists
    <3>5. Cycle(r.next, r.prev, fc[n], Class(F, k, n))
      BY <3>3, <3>4, CycleFrame
    <3> QED
      BY <1>3, <2>2, <3>1, <3>5
  <2> QED
    BY <2>1, <2>2
<1>6. Lists(r, fc2, F \cup {c}, k)
  BY <1>5 DEF Lists
<1> QED
  BY <1>3, <1>4, <1>6 DEF r, fc2

-----------------------------------------------------------------------------
(***************************************************************************)
(* The chunks in address order                                             *)
(***************************************************************************)

\* Division with remainder.
LEMMA DivideBy ==
  ASSUME NEW a \in Nat, NEW w \in Nat \ {0}
  PROVE  /\ a \div w \in Nat
         /\ a % w \in 0..(w - 1)
         /\ a = w * (a \div w) + (a % w)
  OBVIOUS

\* A quotient and a remainder in range are the ones of the division.
LEMMA RemainderUnique ==
  ASSUME NEW w \in Nat \ {0}, NEW q \in Nat, NEW r \in 0..(w - 1)
  PROVE  (w * q + r) % w = r
  OBVIOUS

\* Sums and differences of aligned numbers are aligned.
LEMMA AlignedSum ==
  ASSUME NEW a \in Nat, NEW b \in Nat, a % ALIGN = 0, b % ALIGN = 0
  PROVE  (a + b) % ALIGN = 0 /\ (b <= a => (a - b) % ALIGN = 0)
<1> DEFINE p == a \div ALIGN
           q == b \div ALIGN
<1>1. ALIGN \in Nat \ {0} /\ 0 \in 0..(ALIGN - 1)
  BY SizesPositive
<1>2. p \in Nat /\ q \in Nat /\ a = ALIGN * p + 0 /\ b = ALIGN * q + 0
  BY <1>1, DivideBy
<1> HIDE DEF p, q
<1>3. p + q \in Nat /\ a + b = ALIGN * (p + q) + 0
  BY <1>1, <1>2
<1>4. (a + b) % ALIGN = 0
  BY <1>1, <1>3, RemainderUnique
<1>5. ASSUME b <= a PROVE (a - b) % ALIGN = 0
  <2>1. a - b = ALIGN * (p - q) + 0
    BY <1>1, <1>2
  <2>2. CASE p >= q
    <3>1. p - q \in Nat
      BY <1>2, <2>2
    <3> QED
      BY <1>1, <2>1, <3>1, RemainderUnique
  <2>3. CASE q >= p + 1
    <3>1. ALIGN * q >= ALIGN * (p + 1)
      BY <1>1, <1>2, <2>3
    <3> QED
      BY <1>1, <1>2, <1>5, <3>1
  <2> QED
    BY <1>2, <2>2, <2>3
<1> QED
  BY <1>4, <1>5

\* The header, the smallest payload, the ends and the first chunk are aligned.
LEMMA AlignedSizes ==
  /\ HEADER_SIZE % ALIGN = 0 /\ MIN_SIZE % ALIGN = 0 /\ HeapSize % ALIGN = 0
  /\ ChunkStruct % ALIGN = 0 /\ tail % ALIGN = 0 /\ head % ALIGN = 0 /\ first % ALIGN = 0
  /\ head \in Addr /\ tail \in Addr /\ first \in Addr
  /\ head = 0 /\ tail = HeapSize - ChunkStruct /\ first = ChunkStruct
<1>1. /\ HEADER_SIZE % ALIGN = 0 /\ MIN_SIZE % ALIGN = 0 /\ HeapSize % ALIGN = 0
  BY HeapSizes
<1>2. /\ HEADER_SIZE \in Nat /\ MIN_SIZE \in Nat /\ HeapSize \in Nat /\ ALIGN \in Nat \ {0}
      /\ ChunkStruct \in Nat \ {0} /\ ChunkStruct = HEADER_SIZE + MIN_SIZE
      /\ HeapSize > 3 * ChunkStruct
  BY SizesPositive
<1>3. ChunkStruct % ALIGN = 0
  BY <1>1, <1>2, AlignedSum
<1>4. tail % ALIGN = 0
  BY <1>1, <1>2, <1>3, AlignedSum, SMTT(30) DEF tail
<1>5. head % ALIGN = 0
  BY <1>2 DEF head
<1>6. head \in Addr /\ tail \in Addr /\ first \in Addr
  BY <1>2 DEF head, tail, first, Addr
<1> QED
  BY <1>1, <1>3, <1>4, <1>5, <1>6 DEF head, tail, first

\* The chunks K tile the heap.
Tiling(next, prev, K) ==
  /\ K \subseteq Addr /\ head \in K /\ tail \in K /\ next[tail] = head
  /\ \A c \in K : /\ next[c] \in K /\ prev[next[c]] = c
                  /\ prev[c] \in K /\ next[prev[c]] = c
                  /\ c % ALIGN = 0
  /\ \A c \in K \ {tail} : /\ next[c] >= c + ChunkStruct
                           /\ \A d \in K : ~(c < d /\ d < next[c])
  /\ \A c \in Addr \ K : next[c] = NULL

\* How the chunks lie.
LEMMA TileOrder ==
  ASSUME NEW next, NEW prev, NEW K, Tiling(next, prev, K), NEW c \in K
  PROVE  /\ c \in Nat /\ c <= tail /\ tail \in Nat
         /\ c # tail => next[c] \in Nat /\ c + ChunkStruct <= next[c] /\ next[c] # head
         /\ c # head => /\ prev[c] \in Nat /\ prev[c] + ChunkStruct <= c
                        /\ prev[c] # tail /\ c >= ChunkStruct
         /\ \A d \in K : c < d => /\ c # tail /\ next[c] <= d /\ c + ChunkStruct <= d
<1>1. /\ ChunkStruct \in Nat \ {0} /\ HeapSize \in Nat /\ HeapSize > 3 * ChunkStruct
      /\ head = 0 /\ tail = HeapSize - ChunkStruct
  BY SizesPositive, AlignedSizes
<1>2. \A d \in K : d \in 0..(HeapSize - 1)
  BY DEF Tiling, Addr
<1>3. ASSUME NEW d \in K PROVE d <= tail
  <2>1. CASE d = tail
    BY <1>1, <2>1
  <2>2. CASE d # tail
    <3>1. next[d] \in K /\ next[d] >= d + ChunkStruct
      BY <2>2 DEF Tiling
    <3> QED
      BY <1>1, <1>2, <3>1
  <2> QED
    BY <2>1, <2>2
<1>4. ASSUME NEW x \in K, x # tail
      PROVE  next[x] \in Nat /\ x + ChunkStruct <= next[x] /\ next[x] # head
  <2>1. next[x] \in K /\ next[x] >= x + ChunkStruct
    BY <1>4 DEF Tiling
  <2> QED
    BY <1>1, <1>2, <2>1
<1>5. ASSUME NEW x \in K, NEW d \in K, x < d
      PROVE  x # tail /\ next[x] <= d /\ x + ChunkStruct <= d
  <2>1. x \in Nat /\ d \in Nat /\ d <= tail /\ x # tail
    BY <1>1, <1>2, <1>3, <1>5
  <2>2. next[x] \in Nat /\ x + ChunkStruct <= next[x] /\ ~(x < d /\ d < next[x])
    BY <1>4, <2>1 DEF Tiling
  <2> QED
    BY <1>1, <1>5, <2>1, <2>2
<1>6. ASSUME c # head
      PROVE  prev[c] \in Nat /\ prev[c] + ChunkStruct <= c /\ prev[c] # tail /\ c >= ChunkStruct
  <2>1. prev[c] \in K /\ next[prev[c]] = c /\ next[tail] = head
    BY DEF Tiling
  <2>2. prev[c] # tail /\ prev[c] \in Nat
    BY <1>2, <1>6, <2>1
  <2>3. prev[c] + ChunkStruct <= c
    BY <1>4, <2>1, <2>2
  <2> QED
    BY <1>1, <1>2, <2>2, <2>3
<1> QED
  BY <1>1, <1>2, <1>3, <1>4, <1>5, <1>6

\* A chunk of len bytes is cut off: a new chunk starts after it.
LEMMA TileSplit ==
  ASSUME NEW next, NEW prev, NEW K, Tiling(next, prev, K),
         NEW c \in K \ {tail}, NEW len \in Nat, len % ALIGN = 0, len >= ChunkStruct,
         c + len + ChunkStruct <= next[c],
         NEW next2, NEW prev2,
         \A d \in Addr : next2[d] = IF d = c THEN c + len
                                    ELSE IF d = c + len THEN next[c] ELSE next[d],
         \A d \in Addr : prev2[d] = IF d = next[c] THEN c + len
                                    ELSE IF d = c + len THEN c ELSE prev[d]
  PROVE  /\ c + len \in Addr \ K
         /\ Tiling(next2, prev2, K \cup {c + len})
<1> DEFINE c2 == c + len
           n == next[c]
           K2 == K \cup {c2}
<1>1. /\ ChunkStruct \in Nat \ {0} /\ HeapSize \in Nat /\ head = 0
      /\ tail = HeapSize - ChunkStruct /\ tail \in Nat
  BY SizesPositive, AlignedSizes
<1>2. /\ c \in Nat /\ n \in K /\ n \in Nat /\ n <= tail /\ c < n /\ c \in K /\ c # tail
      /\ c2 \in Nat /\ c < c2 /\ c2 < n /\ c2 + ChunkStruct <= n /\ c + ChunkStruct <= c2
      /\ prev[n] = c /\ n # head
  <2>1. c \in K /\ c # tail /\ n \in K /\ prev[n] = c
    BY DEF Tiling
  <2>2. c \in Nat /\ n \in Nat /\ c + ChunkStruct <= n /\ n # head /\ n <= tail
    BY <2>1, TileOrder
  <2> QED
    BY <1>1, <2>1, <2>2
<1>3. c2 \notin K /\ c2 \in Addr
  BY <1>1, <1>2 DEF Tiling, Addr
<1>4. c2 % ALIGN = 0
  BY <1>2, AlignedSum DEF Tiling
<1>5. /\ K2 \subseteq Addr /\ c2 # tail /\ c2 # head
      /\ \A d \in K : d \in Addr /\ d # c2 /\ next[d] \in K /\ prev[d] \in K
  BY <1>1, <1>2, <1>3 DEF Tiling
<1> HIDE DEF c2, n
<1>6. /\ next2[c] = c2 /\ next2[c2] = n /\ \A d \in K : d # c => next2[d] = next[d]
      /\ prev2[c2] = c /\ prev2[n] = c2 /\ \A d \in K : d # n => prev2[d] = prev[d]
  BY <1>2, <1>3, <1>5 DEF c2, n
<1>7. ASSUME NEW d \in K2
      PROVE  /\ next2[d] \in K2 /\ prev2[next2[d]] = d
             /\ prev2[d] \in K2 /\ next2[prev2[d]] = d /\ d % ALIGN = 0
  <2>1. CASE d = c2
    BY <1>2, <1>4, <1>6, <2>1
  <2>2. CASE d \in K
    <3>1. /\ next[d] \in K /\ prev[next[d]] = d /\ prev[d] \in K /\ next[prev[d]] = d
          /\ d % ALIGN = 0
      BY <2>2 DEF Tiling
    <3>2. d # c => next[d] # n
      BY <1>2, <3>1
    <3>3. d # n => prev[d] # c
      BY <3>1 DEF n
    <3> QED
      BY <1>2, <1>6, <2>2, <3>1, <3>2, <3>3, ZenonT(60)
  <2> QED
    BY <2>1, <2>2
<1>8. ASSUME NEW d \in K2 \ {tail}
      PROVE  /\ next2[d] >= d + ChunkStruct
             /\ \A x \in K2 : ~(d < x /\ x < next2[d])
  <2>0. \A x \in K : /\ x \in Nat
                     /\ c < x => n <= x
    BY <1>2, TileOrder DEF n
  <2>1. CASE d = c2
    <3>1. next2[d] = n /\ next2[d] >= d + ChunkStruct
      BY <1>1, <1>2, <1>6, <2>1
    <3>2. ASSUME NEW x \in K2, d < x, x < next2[d] PROVE FALSE
      BY <1>2, <2>0, <2>1, <3>1, <3>2
    <3> QED
      BY <3>1, <3>2
  <2>2. CASE d = c
    <3>1. next2[d] = c2 /\ next2[d] >= d + ChunkStruct
      BY <1>1, <1>2, <1>6, <2>2
    <3>2. ASSUME NEW x \in K2, d < x, x < next2[d] PROVE FALSE
      BY <1>2, <2>0, <2>2, <3>1, <3>2
    <3> QED
      BY <3>1, <3>2
  <2>3. CASE d \in K /\ d # c
    <3>1. next2[d] = next[d] /\ next[d] >= d + ChunkStruct /\ d \in Nat /\ next[d] \in Nat
      BY <1>6, <1>8, <2>0, <2>3, TileOrder DEF Tiling
    <3>2. ASSUME NEW x \in K2, d < x, x < next2[d] PROVE FALSE
      <4>1. CASE x \in K
        BY <1>8, <2>3, <3>1, <3>2, <4>1 DEF Tiling
      <4>2. CASE x = c2
        <5>1. d < c => next[d] <= c
          BY <1>2, <2>3, TileOrder
        <5>2. c < d => n <= d
          BY <2>0, <2>3
        <5> QED
          BY <1>2, <2>3, <3>1, <3>2, <4>2, <5>1, <5>2
      <4> QED
        BY <4>1, <4>2
    <3> QED
      BY <3>1, <3>2
  <2> QED
    BY <2>1, <2>2, <2>3
<1>9. ASSUME NEW d \in Addr \ K2 PROVE next2[d] = NULL
  <2>1. d # c /\ d # c2 /\ d \in Addr \ K
    BY <1>2
  <2>2. next2[d] = next[d]
    BY <2>1 DEF c2
  <2> QED
    BY <2>1, <2>2 DEF Tiling
<1>10. head \in K2 /\ tail \in K2 /\ next2[tail] = head
  BY <1>2, <1>6 DEF Tiling
<1>11. Tiling(next2, prev2, K2)
  BY <1>5, <1>7, <1>8, <1>9, <1>10 DEF Tiling
<1> QED
  BY <1>3, <1>11 DEF c2

\* A chunk disappears into the one before it.
LEMMA TileMerge ==
  ASSUME NEW next, NEW prev, NEW K, Tiling(next, prev, K),
         NEW d \in K \ {head, tail}, NEW next2, NEW prev2,
         \A x \in Addr : next2[x] = IF x = d THEN NULL
                                    ELSE IF x = prev[d] THEN next[d] ELSE next[x],
         \A x \in Addr : prev2[x] = IF x = d THEN NULL
                                    ELSE IF x = next[d] THEN prev[d] ELSE prev[x]
  PROVE  Tiling(next2, prev2, K \ {d})
<1> DEFINE p == prev[d]
           n == next[d]
           K2 == K \ {d}
<1>1. /\ ChunkStruct \in Nat \ {0} /\ HeapSize \in Nat /\ head = 0
      /\ tail = HeapSize - ChunkStruct /\ tail \in Nat
  BY SizesPositive, AlignedSizes
<1>2. /\ d \in Nat /\ p \in K /\ n \in K /\ p \in Nat /\ n \in Nat /\ p < d /\ d < n
      /\ next[p] = d /\ prev[n] = d /\ p + ChunkStruct <= d /\ d + ChunkStruct <= n
      /\ p # tail /\ n # head
  <2>1. p \in K /\ n \in K /\ next[p] = d /\ prev[n] = d
    BY DEF Tiling
  <2>2. /\ d \in Nat /\ n \in Nat /\ d + ChunkStruct <= n /\ n # head
        /\ p \in Nat /\ p + ChunkStruct <= d /\ p # tail
    BY TileOrder
  <2> QED
    BY <1>1, <2>1, <2>2
<1>3. \A x \in K : /\ x \in Addr /\ next[x] \in K /\ prev[next[x]] = x
                   /\ prev[x] \in K /\ next[prev[x]] = x /\ x % ALIGN = 0
  BY DEF Tiling
<1> HIDE DEF p, n
<1>4. /\ next2[p] = n /\ \A x \in K2 : x # p => next2[x] = next[x]
      /\ prev2[n] = p /\ \A x \in K2 : x # n => prev2[x] = prev[x]
  BY <1>2, <1>3 DEF p, n
<1>5. ASSUME NEW x \in K2
      PROVE  /\ next2[x] \in K2 /\ prev2[next2[x]] = x
             /\ prev2[x] \in K2 /\ next2[prev2[x]] = x /\ x % ALIGN = 0
  <2>1. next[x] = d => x = p
    BY <1>3 DEF p
  <2>2. prev[x] = d => x = n
    BY <1>3 DEF n
  <2>3. next[x] = n => x = d
    BY <1>2, <1>3
  <2>4. prev[x] = p => x = d
    BY <1>2, <1>3
  <2>5. next2[x] \in K2 /\ prev2[next2[x]] = x
    <3>1. CASE x = p
      BY <1>2, <1>4, <3>1
    <3>2. CASE x # p
      <4>1. next2[x] = next[x] /\ next[x] \in K2 /\ next[x] # n
        BY <1>3, <1>4, <2>1, <2>3, <3>2
      <4> QED
        BY <1>3, <1>4, <4>1
    <3> QED
      BY <3>1, <3>2
  <2>6. prev2[x] \in K2 /\ next2[prev2[x]] = x
    <3>1. CASE x = n
      BY <1>2, <1>4, <3>1
    <3>2. CASE x # n
      <4>1. prev2[x] = prev[x] /\ prev[x] \in K2 /\ prev[x] # p
        BY <1>3, <1>4, <2>2, <2>4, <3>2
      <4> QED
        BY <1>3, <1>4, <4>1
    <3> QED
      BY <3>1, <3>2
  <2> QED
    BY <1>3, <2>5, <2>6
<1>6. ASSUME NEW x \in K2 \ {tail}
      PROVE  /\ next2[x] >= x + ChunkStruct
             /\ \A y \in K2 : ~(x < y /\ y < next2[x])
  <2>1. CASE x = p
    <3>1. next2[x] = n /\ next2[x] >= x + ChunkStruct
      BY <1>1, <1>2, <1>4, <2>1
    <3>2. ASSUME NEW y \in K2, x < y, y < next2[x] PROVE FALSE
      <4>1. y \in Nat /\ (p < y => d <= y) /\ (d < y => n <= y)
        BY <1>2, TileOrder DEF n
      <4> QED
        BY <1>2, <2>1, <3>1, <3>2, <4>1
    <3> QED
      BY <3>1, <3>2
  <2>2. CASE x # p
    <3>1. next2[x] = next[x]
      BY <1>4, <2>2
    <3> QED
      BY <3>1 DEF Tiling
  <2> QED
    BY <2>1, <2>2
<1>7. ASSUME NEW x \in Addr \ K2 PROVE next2[x] = NULL
  <2>1. CASE x = d
    BY <2>1
  <2>2. CASE x # d
    <3>1. x \in Addr \ K /\ x # p
      BY <1>2, <2>2
    <3>2. next2[x] = next[x]
      BY <2>2, <3>1 DEF p
    <3> QED
      BY <3>1, <3>2 DEF Tiling
  <2> QED
    BY <2>1, <2>2
<1>8. head \in K2 /\ tail \in K2 /\ next2[tail] = head /\ K2 \subseteq Addr
  BY <1>2, <1>4 DEF Tiling
<1> QED
  BY <1>5, <1>6, <1>7, <1>8 DEF Tiling

-----------------------------------------------------------------------------
(***************************************************************************)
(* The heap and the updates of its fields                                  *)
(***************************************************************************)
Counter == 0..(CounterMod - 1)

HeapType == [all : Links, free : Links, used : [Addr -> BOOLEAN], free_chunk : Heads,
             mem_free : Counter, mem_used : Counter, mem_meta : Counter]

\* The counters stay in their width.
LEMMA AddType ==
  ASSUME NEW x \in Int, NEW d \in Int
  PROVE  Add(x, d) \in Counter
  BY SizesPositive DEF Add, Counter

\* An update of mem_free.
LEMMA SetMemFree ==
  ASSUME NEW h \in HeapType, NEW m \in Counter
  PROVE  LET r == [h EXCEPT !.mem_free = m]
         IN  /\ r \in HeapType /\ r.all = h.all /\ r.free = h.free /\ r.used = h.used
             /\ r.free_chunk = h.free_chunk /\ r.mem_meta = h.mem_meta
  BY DEF HeapType

\* An update of mem_used.
LEMMA SetMemUsed ==
  ASSUME NEW h \in HeapType, NEW m \in Counter
  PROVE  LET r == [h EXCEPT !.mem_used = m]
         IN  /\ r \in HeapType /\ r.all = h.all /\ r.free = h.free /\ r.used = h.used
             /\ r.free_chunk = h.free_chunk /\ r.mem_meta = h.mem_meta
  BY DEF HeapType

\* An update of the chunk list.
LEMMA SetAll ==
  ASSUME NEW h \in HeapType, NEW a \in Links
  PROVE  LET r == [h EXCEPT !.all = a]
         IN  /\ r \in HeapType /\ r.all = a /\ r.free = h.free /\ r.used = h.used
             /\ r.free_chunk = h.free_chunk /\ r.mem_meta = h.mem_meta
  BY DEF HeapType

-----------------------------------------------------------------------------
(***************************************************************************)
(* A heap whose chunks are K and whose listed chunks are F.                *)
(***************************************************************************)
ClassMap(next) == [c \in Addr |-> heap_chunk_slot[next[c] - c - HEADER_SIZE]]

\* A set with one element more, and with one element less.
With(S, x) == S \cup {x}
Without(S, x) == S \ {x}

MetaOf(K) == 2 * ChunkStruct + HEADER_SIZE * Cardinality(K \ {head, tail})

Good(h, K, F) ==
  /\ h \in HeapType
  /\ Tiling(h.all.next, h.all.prev, K)
  /\ F \subseteq K \ {head, tail}
  /\ Lists(h.free, h.free_chunk, F, ClassMap(h.all.next))

\* The sizes of chunks, and that each has a class.
LEMMA SizeRange ==
  ASSUME NEW next, NEW prev, NEW K, Tiling(next, prev, K), NEW c \in K, c # tail
  PROVE  /\ next[c] - c - HEADER_SIZE \in 1..HeapSize
         /\ next[c] - c - HEADER_SIZE >= MIN_SIZE
         /\ c \in Addr /\ next[c] \in Nat /\ c + ChunkStruct <= next[c]
         /\ c + HEADER_SIZE + (next[c] - c - HEADER_SIZE) = next[c]
         /\ ClassMap(next)[c] = heap_chunk_slot[next[c] - c - HEADER_SIZE]
         /\ ClassMap(next)[c] \in Sizes
<1>1. /\ HEADER_SIZE \in Nat \ {0} /\ MIN_SIZE \in Nat \ {0} /\ HeapSize \in Nat
      /\ ChunkStruct = HEADER_SIZE + MIN_SIZE /\ tail = HeapSize - ChunkStruct
  BY SizesPositive, AlignedSizes
<1>2. c \in Addr /\ next[c] \in K
  BY DEF Tiling
<1>3. c \in Nat /\ next[c] \in Nat /\ c + ChunkStruct <= next[c]
  BY TileOrder
<1>4. next[c] <= tail
  BY <1>2, TileOrder
<1>5. /\ next[c] - c - HEADER_SIZE \in 1..HeapSize
      /\ next[c] - c - HEADER_SIZE >= MIN_SIZE
      /\ c + HEADER_SIZE + (next[c] - c - HEADER_SIZE) = next[c]
  BY <1>1, <1>3, <1>4
<1>6. ClassMap(next)[c] = heap_chunk_slot[next[c] - c - HEADER_SIZE]
  BY <1>2 DEF ClassMap
<1> QED
  BY <1>2, <1>3, <1>5, <1>6, SlotMonotone

\* DLIST_REMOVE_FROM and DLIST_POP of a free chunk.
LEMMA RemoveFreeGood ==
  ASSUME NEW h, NEW K, NEW F, Good(h, K, F), NEW c \in F,
         NEW n, n = heap_chunk_slot[heap_chunk_size(h, c)]
  PROVE  LET r == RemoveFree(h, n, c)
         IN  /\ Good(r, K, Without(F, c)) /\ r.all = h.all /\ r.used = h.used
             /\ r.free.next[c] = c /\ r.free.prev[c] = c /\ r.mem_meta = h.mem_meta
<1> DEFINE r == RemoveFree(h, n, c)
           k == ClassMap(h.all.next)
           d2 == h.free.next[c]
           x == NewHead(h.free_chunk[n], c, d2)
           f == dlist_remove(h.free, c)
<1>1. /\ h \in HeapType /\ Tiling(h.all.next, h.all.prev, K)
      /\ F \subseteq K \ {head, tail} /\ c \in K /\ c # tail
      /\ Lists(h.free, h.free_chunk, F, k)
  BY DEF Good
<1>2. F \in SUBSET Addr /\ h.free \in Links /\ h.free_chunk \in Heads
  BY <1>1 DEF Tiling, HeapType
<1>3. k[c] = n /\ n \in Sizes
  BY <1>1, SizeRange DEF heap_chunk_size
<1> HIDE DEF k
<1>4. /\ f \in Links /\ x \in Addr \cup {NULL}
      /\ f.next[c] = c /\ f.prev[c] = c
      /\ Lists(f, [h.free_chunk EXCEPT ![n] = x], F \ {c}, k)
  BY <1>1, <1>2, <1>3, ListRemove
<1>6. r = [h EXCEPT !.free = f, !.free_chunk[n] = x]
  BY <1>1 DEF RemoveFree, HeapType, NewHead
<1> HIDE DEF x, f, r
<1>7. /\ r \in HeapType /\ r.all = h.all /\ r.free = f /\ r.used = h.used
      /\ r.free_chunk = [h.free_chunk EXCEPT ![n] = x] /\ r.mem_meta = h.mem_meta
  BY <1>1, <1>3, <1>4, <1>6 DEF HeapType, Heads
<1>8. Good(r, K, Without(F, c))
  BY <1>1, <1>4, <1>7 DEF Good, Without, k
<1> QED
  BY <1>4, <1>7, <1>8 DEF r

\* DLIST_PUSH of a chunk with its free link initialised.
LEMMA PushFreeGood ==
  ASSUME NEW h, NEW K, NEW F, Good(h, K, F), NEW c \in K \ {head, tail}, c \notin F,
         h.free.next[c] = c, h.free.prev[c] = c
  PROVE  LET r == PushFree(h, c)
         IN  /\ Good(r, K, With(F, c)) /\ r.all = h.all /\ r.used = h.used
             /\ r.mem_meta = h.mem_meta
<1> DEFINE r == PushFree(h, c)
           k == ClassMap(h.all.next)
           n == heap_chunk_slot[heap_chunk_size(h, c)]
           old == h.free_chunk[n]
           f == IF old = NULL THEN h.free ELSE dlist_insert_before(h.free, old, c)
<1>1. /\ h \in HeapType /\ Tiling(h.all.next, h.all.prev, K)
      /\ F \subseteq K \ {head, tail} /\ c \in K /\ c # tail
      /\ Lists(h.free, h.free_chunk, F, k)
  BY DEF Good
<1>2. F \in SUBSET Addr /\ h.free \in Links /\ h.free_chunk \in Heads /\ c \in Addr \ F
  BY <1>1 DEF Tiling, HeapType
<1>3. k[c] = n /\ n \in Sizes
  BY <1>1, SizeRange DEF heap_chunk_size
<1> HIDE DEF k, n
<1>4. f \in Links /\ Lists(f, [h.free_chunk EXCEPT ![n] = c], F \cup {c}, k)
  BY <1>1, <1>2, <1>3, ListPush
<1>5. r = [h EXCEPT !.free = f, !.free_chunk[n] = c]
  BY <1>1 DEF PushFree, HeapType, n
<1> HIDE DEF f, r
<1>6. /\ r \in HeapType /\ r.all = h.all /\ r.free = f /\ r.used = h.used
      /\ r.free_chunk = [h.free_chunk EXCEPT ![n] = c] /\ r.mem_meta = h.mem_meta
  BY <1>1, <1>2, <1>3, <1>4, <1>5 DEF HeapType, Heads
<1>7. Good(r, K, With(F, c))
  BY <1>1, <1>4, <1>6 DEF Good, With, k
<1> QED
  BY <1>6, <1>7 DEF r

\* A heap is as good with other counters and flags.
LEMMA OtherCounters ==
  ASSUME NEW h, NEW K, NEW F, Good(h, K, F), NEW r \in HeapType,
         r.all = h.all, r.free = h.free, r.free_chunk = h.free_chunk
  PROVE  Good(r, K, F)
  BY DEF Good

\* The size of a chunk is an integer.
LEMMA SizeInt ==
  ASSUME NEW h, NEW K, NEW F, Good(h, K, F), NEW c \in K, c # tail
  PROVE  /\ heap_chunk_size(h, c) \in 1..HeapSize /\ heap_chunk_size(h, c) \in Int
         /\ HEADER_SIZE \in Int
         /\ h.mem_free \in Int /\ h.mem_used \in Int /\ h.mem_meta \in Int
<1>1. h \in HeapType /\ Tiling(h.all.next, h.all.prev, K)
  BY DEF Good
<1>2. heap_chunk_size(h, c) \in 1..HeapSize /\ HeapSize \in Nat /\ HEADER_SIZE \in Int
  BY <1>1, SizeRange, SizesPositive DEF heap_chunk_size
<1>3. h.mem_free \in Counter /\ h.mem_used \in Counter /\ h.mem_meta \in Counter
  BY <1>1 DEF HeapType
<1> QED
  BY <1>2, <1>3, SizesPositive DEF Counter

\* heap_remove_free
LEMMA HeapRemoveFreeGood ==
  ASSUME NEW h, NEW K, NEW F, Good(h, K, F), NEW c \in F
  PROVE  LET r == heap_remove_free(h, c)
         IN  /\ Good(r, K, Without(F, c)) /\ r.all = h.all /\ r.used = h.used
             /\ r.free.next[c] = c /\ r.free.prev[c] = c /\ r.mem_meta = h.mem_meta
<1> DEFINE r == heap_remove_free(h, c)
           len == heap_chunk_size(h, c)
           g == RemoveFree(h, heap_chunk_slot[len], c)
           m == Add(g.mem_free, HEADER_SIZE - len)
<1>1. /\ Good(g, K, Without(F, c)) /\ g.all = h.all /\ g.used = h.used
      /\ g.free.next[c] = c /\ g.free.prev[c] = c /\ g.mem_meta = h.mem_meta
  BY RemoveFreeGood
<1>2. c \in K /\ c # tail
  BY DEF Good
<1>3. r = [g EXCEPT !.mem_free = m]
  BY DEF heap_remove_free
<1> HIDE DEF g, r
<1>4. len \in Int /\ HEADER_SIZE \in Int /\ g.mem_free \in Int /\ g \in HeapType
  BY <1>1, <1>2, SizeInt DEF Good
<1>5. m \in Counter
  BY <1>4, AddType
<1> HIDE DEF m
<1>6. /\ r \in HeapType /\ r.all = g.all /\ r.free = g.free /\ r.used = g.used
      /\ r.free_chunk = g.free_chunk /\ r.mem_meta = g.mem_meta
  BY <1>3, <1>4, <1>5, SetMemFree
<1>7. Good(r, K, Without(F, c))
  BY <1>1, <1>6, OtherCounters
<1> QED
  BY <1>1, <1>6, <1>7 DEF r

\* heap_push_free
LEMMA HeapPushFreeGood ==
  ASSUME NEW h, NEW K, NEW F, Good(h, K, F), NEW c \in K \ {head, tail}, c \notin F,
         h.free.next[c] = c, h.free.prev[c] = c
  PROVE  LET r == heap_push_free(h, c)
         IN  /\ Good(r, K, With(F, c)) /\ r.all = h.all /\ r.used = h.used
             /\ r.mem_meta = h.mem_meta
<1> DEFINE r == heap_push_free(h, c)
           len == heap_chunk_size(h, c)
           g == PushFree(h, c)
           m == Add(g.mem_free, len - HEADER_SIZE)
<1>1. /\ Good(g, K, With(F, c)) /\ g.all = h.all /\ g.used = h.used
      /\ g.mem_meta = h.mem_meta
  BY PushFreeGood
<1>2. r = [g EXCEPT !.mem_free = m]
  BY DEF heap_push_free
<1> HIDE DEF g, r
<1>3. len \in Int /\ HEADER_SIZE \in Int /\ g.mem_free \in Int /\ g \in HeapType
  BY <1>1, SizeInt DEF Good
<1>4. m \in Counter
  BY <1>3, AddType
<1> HIDE DEF m
<1>5. /\ r \in HeapType /\ r.all = g.all /\ r.free = g.free /\ r.used = g.used
      /\ r.free_chunk = g.free_chunk /\ r.mem_meta = g.mem_meta
  BY <1>2, <1>3, <1>4, SetMemFree
<1>6. Good(r, K, With(F, c))
  BY <1>1, <1>5, OtherCounters
<1> QED
  BY <1>1, <1>5, <1>6 DEF r

\* Chunks are at least ChunkStruct apart, so their quotients by it differ.
LEMMA QuotientsDiffer ==
  ASSUME NEW w \in Nat \ {0}, NEW a \in Nat, NEW b \in Nat, a + w <= b
  PROVE  (a \div w) + 1 <= b \div w
<1> DEFINE p == a \div w
           q == b \div w
<1>1. /\ p \in Nat /\ q \in Nat /\ a % w \in 0..(w - 1) /\ b % w \in 0..(w - 1)
      /\ a = w * p + (a % w) /\ b = w * q + (b % w)
  BY DivideBy
<1> HIDE DEF p, q
<1>2. CASE q <= p
  <2>1. w * q <= w * p
    BY <1>1, <1>2
  <2>2. w * q \in Nat /\ w * p \in Nat /\ a >= w * p /\ b <= w * q + w - 1
    BY <1>1
  <2> QED
    BY <2>1, <2>2
<1>3. CASE q >= p + 1
  BY <1>3 DEF p, q
<1> QED
  BY <1>1, <1>2, <1>3

\* The headers fit into the heap, so the count of their bytes never wraps.
LEMMA MetaFits ==
  ASSUME NEW next, NEW prev, NEW K, Tiling(next, prev, K)
  PROVE  /\ IsFiniteSet(K \ {head, tail}) /\ Cardinality(K \ {head, tail}) \in Nat
         /\ MetaOf(K) \in Nat /\ MetaOf(K) <= HeapSize
<1> DEFINE I == K \ {head, tail}
           q(c) == c \div ChunkStruct
           f == [c \in I |-> q(c)]
           T == 1..(q(tail) - 1)
<1>1. /\ ChunkStruct \in Nat \ {0} /\ HeapSize \in Nat /\ HeapSize > 3 * ChunkStruct
      /\ head = 0 /\ tail = HeapSize - ChunkStruct /\ tail \in Nat
      /\ HEADER_SIZE \in Nat /\ HEADER_SIZE <= ChunkStruct
  BY SizesPositive, AlignedSizes
<1>2. ASSUME NEW c \in I PROVE c \in Nat /\ c + ChunkStruct <= tail /\ ChunkStruct <= c
  <2>1. c \in Nat /\ c <= tail /\ c >= ChunkStruct /\ c # tail
    BY TileOrder
  <2>2. c < tail /\ tail \in K
    BY <1>1, <2>1 DEF Tiling
  <2>3. c + ChunkStruct <= tail
    BY <2>2, TileOrder
  <2> QED
    BY <2>1, <2>3
<1>3. \A c \in Nat : q(c) \in Nat
  BY <1>1, DivideBy
<1>4. q(0) = 0 /\ 0 \in Nat
  BY <1>1
<1> HIDE DEF q, I
<1>5. \A c \in I : q(c) \in T
  <2> TAKE c \in I
  <2>1. q(c) + 1 <= q(tail)
    BY <1>1, <1>2, QuotientsDiffer DEF q
  <2>2. q(0) + 1 <= q(c)
    <3>1. 0 + ChunkStruct <= c /\ c \in Nat
      BY <1>1, <1>2
    <3> QED
      BY <1>1, <1>4, <3>1, QuotientsDiffer DEF q
  <2>3. q(c) \in Nat /\ q(tail) \in Nat
    BY <1>1, <1>2, <1>3
  <2> QED
    BY <1>4, <2>1, <2>2, <2>3
<1>6. ASSUME NEW a \in I, NEW b \in I, a < b PROVE q(a) # q(b)
  <2>1. a + ChunkStruct <= b
    BY <1>6, TileOrder DEF I
  <2>2. a \in Nat /\ b \in Nat
    BY <1>2
  <2>3. q(a) + 1 <= q(b)
    BY <1>1, <2>1, <2>2, QuotientsDiffer DEF q
  <2> QED
    BY <1>3, <2>2, <2>3
<1>7. f \in Injection(I, T)
  <2>1. f \in [I -> T]
    BY <1>5
  <2>2. ASSUME NEW a \in I, NEW b \in I, f[a] = f[b] PROVE a = b
    <3>1. q(a) = q(b) /\ a \in Nat /\ b \in Nat
      BY <1>2, <2>2
    <3> QED
      BY <1>6, <3>1
  <2> HIDE DEF f
  <2> QED
    BY <2>1, <2>2 DEF Injection, IsInjective
<1>8. q(tail) \in Nat /\ q(tail) >= 1
  <2>1. 0 + ChunkStruct <= tail
    BY <1>1
  <2>2. q(0) + 1 <= q(tail)
    BY <1>1, <1>4, <2>1, QuotientsDiffer DEF q
  <2> QED
    BY <1>1, <1>3, <1>4, <2>2
<1>9. IsFiniteSet(T) /\ Cardinality(T) = q(tail) - 1
  <2>1. 1 \in Int /\ q(tail) - 1 \in Int
    BY <1>8
  <2>2. IsFiniteSet(T) /\ Cardinality(T) = IF 1 > q(tail) - 1 THEN 0 ELSE (q(tail) - 1) - 1 + 1
    BY <2>1, FS_Interval
  <2> QED
    BY <1>8, <2>2
<1> HIDE DEF f, T
<1>10. IsFiniteSet(I) /\ Cardinality(I) <= q(tail) - 1
  BY <1>7, <1>9, FS_Injection
<1>11. Cardinality(I) \in Nat
  BY <1>10, FS_CardinalityType
<1>12. ChunkStruct * q(tail) <= tail
  <2>1. tail = ChunkStruct * q(tail) + (tail % ChunkStruct) /\ tail % ChunkStruct \in 0..(ChunkStruct - 1)
    BY <1>1, DivideBy DEF q
  <2>2. ChunkStruct * q(tail) \in Nat
    BY <1>1, <1>8
  <2> QED
    BY <1>1, <2>1, <2>2
<1> DEFINE n == Cardinality(I)
<1> HIDE DEF n
<1>13. n \in Nat /\ n <= q(tail) - 1
  BY <1>10, <1>11 DEF n
<1>14. HEADER_SIZE * n <= ChunkStruct * n
  BY <1>1, <1>13
<1>15. ChunkStruct * n <= ChunkStruct * (q(tail) - 1)
  BY <1>1, <1>8, <1>13
<1>16. ChunkStruct * (q(tail) - 1) = ChunkStruct * q(tail) - ChunkStruct
  BY <1>1, <1>8
<1>17. /\ HEADER_SIZE * n \in Nat /\ ChunkStruct * n \in Nat
       /\ ChunkStruct * q(tail) \in Nat
  BY <1>1, <1>8, <1>13
<1>18. 2 * ChunkStruct + HEADER_SIZE * n \in Nat /\ 2 * ChunkStruct + HEADER_SIZE * n <= HeapSize
  BY <1>1, <1>12, <1>14, <1>15, <1>16, <1>17
<1> QED
  BY <1>10, <1>11, <1>18 DEF MetaOf, I, n

\* The count of header bytes after a split.
LEMMA MetaSplit ==
  ASSUME NEW next, NEW prev, NEW K, Tiling(next, prev, K), NEW c \in Addr \ K,
         NEW next2, NEW prev2, Tiling(next2, prev2, K \cup {c})
  PROVE  Add(MetaOf(K), HEADER_SIZE) = MetaOf(K \cup {c})
<1> DEFINE I == K \ {head, tail}
           n == Cardinality(I)
<1>1. /\ IsFiniteSet(I) /\ n \in Nat
      /\ MetaOf(K \cup {c}) \in Nat /\ MetaOf(K \cup {c}) <= HeapSize
  BY MetaFits
<1>2. (K \cup {c}) \ {head, tail} = I \cup {c} /\ c \notin I
  BY DEF Tiling
<1> HIDE DEF I
<1>3. Cardinality(I \cup {c}) = n + 1
  BY <1>1, <1>2, FS_AddElement
<1>4. MetaOf(K \cup {c}) = 2 * ChunkStruct + HEADER_SIZE * (n + 1)
  BY <1>2, <1>3 DEF MetaOf
<1>5. MetaOf(K) = 2 * ChunkStruct + HEADER_SIZE * n
  BY DEF MetaOf, I
<1> HIDE DEF n
<1>6. HEADER_SIZE \in Nat /\ ChunkStruct \in Nat /\ CounterMod \in Nat /\ CounterMod > HeapSize
      /\ HeapSize \in Nat
  BY SizesPositive
<1>7. HEADER_SIZE * (n + 1) = HEADER_SIZE * n + HEADER_SIZE /\ HEADER_SIZE * n \in Nat
  BY <1>1, <1>6
<1>8. MetaOf(K) + HEADER_SIZE = MetaOf(K \cup {c})
  BY <1>4, <1>5, <1>6, <1>7
<1> QED
  BY <1>1, <1>6, <1>8 DEF Add

\* The count of header bytes after a merge.
LEMMA MetaMerge ==
  ASSUME NEW next, NEW prev, NEW K, Tiling(next, prev, K), NEW d \in K \ {head, tail}
  PROVE  Add(MetaOf(K), 0 - HEADER_SIZE) = MetaOf(K \ {d})
<1> DEFINE I == K \ {head, tail}
           n == Cardinality(I)
<1>1. IsFiniteSet(I) /\ n \in Nat /\ MetaOf(K) \in Nat /\ MetaOf(K) <= HeapSize
  BY MetaFits
<1>2. (K \ {d}) \ {head, tail} = I \ {d} /\ d \in I
  OBVIOUS
<1> HIDE DEF I
<1>3. Cardinality(I \ {d}) = n - 1 /\ IsFiniteSet(I \ {d})
  BY <1>1, <1>2, FS_RemoveElement
<1>4. n - 1 \in Nat
  BY <1>3, FS_CardinalityType
<1>5. MetaOf(K \ {d}) = 2 * ChunkStruct + HEADER_SIZE * (n - 1)
  BY <1>2, <1>3 DEF MetaOf
<1>6. MetaOf(K) = 2 * ChunkStruct + HEADER_SIZE * n
  BY DEF MetaOf, I
<1> HIDE DEF n
<1>7. HEADER_SIZE \in Nat /\ ChunkStruct \in Nat /\ CounterMod \in Nat /\ CounterMod > HeapSize
      /\ HeapSize \in Nat
  BY SizesPositive
<1>8. HEADER_SIZE * (n - 1) = HEADER_SIZE * n - HEADER_SIZE /\ HEADER_SIZE * (n - 1) \in Nat
  BY <1>1, <1>4, <1>7
<1>9. MetaOf(K) - HEADER_SIZE = MetaOf(K \ {d}) /\ MetaOf(K \ {d}) \in Nat
  BY <1>1, <1>5, <1>6, <1>7, <1>8
<1> QED
  BY <1>1, <1>7, <1>9 DEF Add

\* dlist_init: what it does to the links.
LEMMA InitLinks ==
  ASSUME NEW l \in Links, NEW d \in Addr
  PROVE  LET r == dlist_init(l, d)
         IN  /\ r \in Links
             /\ \A x \in Addr : /\ r.next[x] = IF x = d THEN d ELSE l.next[x]
                                /\ r.prev[x] = IF x = d THEN d ELSE l.prev[x]
<1> DEFINE n2 == [l.next EXCEPT ![d] = d]
           p2 == [l.prev EXCEPT ![d] = d]
           r == dlist_init(l, d)
<1>1. l.next \in Link /\ l.prev \in Link
  BY DEF Links
<1>2. /\ n2 \in Link /\ \A x \in Addr : n2[x] = IF x = d THEN d ELSE l.next[x]
      /\ p2 \in Link /\ \A x \in Addr : p2[x] = IF x = d THEN d ELSE l.prev[x]
  BY <1>1 DEF Link
<1>3. r = [next |-> n2, prev |-> p2]
  BY DEF dlist_init
<1> HIDE DEF n2, p2, r
<1>4. r.next = n2 /\ r.prev = p2 /\ r \in Links
  BY <1>2, <1>3 DEF Links
<1> QED
  BY <1>2, <1>4 DEF r

\* Scribbled: what it does to the links.
LEMMA ScribbledLinks ==
  ASSUME NEW l \in Links, NEW d \in Addr
  PROVE  LET r == Scribbled(l, d)
         IN  /\ r \in Links
             /\ \A x \in Addr : /\ r.next[x] = IF x = d THEN NULL ELSE l.next[x]
                                /\ r.prev[x] = IF x = d THEN NULL ELSE l.prev[x]
<1> DEFINE n2 == [l.next EXCEPT ![d] = NULL]
           p2 == [l.prev EXCEPT ![d] = NULL]
           r == Scribbled(l, d)
<1>1. l.next \in Link /\ l.prev \in Link
  BY DEF Links
<1>2. /\ n2 \in Link /\ \A x \in Addr : n2[x] = IF x = d THEN NULL ELSE l.next[x]
      /\ p2 \in Link /\ \A x \in Addr : p2[x] = IF x = d THEN NULL ELSE l.prev[x]
  BY <1>1 DEF Link
<1>3. r = [next |-> n2, prev |-> p2]
  BY DEF Scribbled
<1> HIDE DEF n2, p2, r
<1>4. r.next = n2 /\ r.prev = p2 /\ r \in Links
  BY <1>2, <1>3 DEF Links
<1> QED
  BY <1>2, <1>4 DEF r

\* dlist_insert_after of a single chunk d2: what it does to the links.
LEMMA InsertAfterLinks ==
  ASSUME NEW l \in Links, NEW d1 \in Addr, NEW d2 \in Addr, d1 # d2,
         l.next[d1] \in Addr, l.next[d1] # d2, l.prev[d2] = d2
  PROVE  LET r == dlist_insert_after(l, d1, d2)
         IN  /\ r \in Links
             /\ \A x \in Addr :
                  /\ r.next[x] = IF x = d1 THEN d2
                                 ELSE IF x = d2 THEN l.next[d1] ELSE l.next[x]
                  /\ r.prev[x] = IF x = l.next[d1] THEN d2
                                 ELSE IF x = d2 THEN d1 ELSE l.prev[x]
<1> DEFINE n1 == l.next[d1]
           n2 == [l.next EXCEPT ![d1] = d2, ![d2] = n1]
           p2 == [l.prev EXCEPT ![d2] = d1, ![n1] = d2]
           r == dlist_insert_after(l, d1, d2)
<1>1. l.next \in Link /\ l.prev \in Link
  BY DEF Links
<1>2. r = [next |-> n2, prev |-> p2]
  BY DEF dlist_insert_after
<1> HIDE DEF n1, r
<1>3. n1 \in Addr /\ n1 # d2
  BY DEF n1
<1>4. /\ n2 \in Link
      /\ \A x \in Addr : n2[x] = IF x = d1 THEN d2 ELSE IF x = d2 THEN n1 ELSE l.next[x]
  BY <1>1, <1>3 DEF Link
<1>5. /\ p2 \in Link
      /\ \A x \in Addr : p2[x] = IF x = n1 THEN d2 ELSE IF x = d2 THEN d1 ELSE l.prev[x]
  BY <1>1, <1>3 DEF Link
<1> HIDE DEF n2, p2
<1>6. r.next = n2 /\ r.prev = p2 /\ r \in Links
  BY <1>2, <1>4, <1>5 DEF Links
<1> QED
  BY <1>4, <1>5, <1>6 DEF r, n1

\* heap_chunk_init: what it does to the heap.
LEMMA ChunkInit ==
  ASSUME NEW h \in HeapType, NEW c \in Addr
  PROVE  LET r == heap_chunk_init(h, c)
         IN  /\ r \in HeapType /\ r.all = dlist_init(h.all, c)
             /\ r.free = dlist_init(h.free, c)
             /\ r.used = [h.used EXCEPT ![c] = FALSE]
             /\ r.free_chunk = h.free_chunk /\ r.mem_meta = h.mem_meta
<1> DEFINE r == heap_chunk_init(h, c)
           a == dlist_init(h.all, c)
           f == dlist_init(h.free, c)
<1>1. h.all \in Links /\ h.free \in Links
  BY DEF HeapType
<1>2. a \in Links /\ f \in Links
  BY <1>1, InitLinks
<1>3. r = [h EXCEPT !.all = a, !.used[c] = FALSE, !.free = f]
  BY DEF heap_chunk_init, HeapType
<1> HIDE DEF a, f, r
<1>4. /\ r \in HeapType /\ r.all = a /\ r.free = f
      /\ r.used = [h.used EXCEPT ![c] = FALSE]
      /\ r.free_chunk = h.free_chunk /\ r.mem_meta = h.mem_meta
  BY <1>2, <1>3 DEF HeapType
<1> QED
  BY <1>4 DEF a, f, r

\* The flags after an assignment, and the links to the next chunk after a
\* split and after a merge.
FlagsBut(u2, u, c, b) == \A d \in Addr : u2[d] = IF d = c THEN b ELSE u[d]

SplitLinks(next2, next, c, c2) ==
  \A d \in Addr : next2[d] = IF d = c THEN c2 ELSE IF d = c2 THEN next[c] ELSE next[d]

MergeLinks(next2, prev2, next, prev, d) ==
  /\ \A x \in Addr : next2[x] = IF x = d THEN NULL
                                ELSE IF x = prev[d] THEN next[d] ELSE next[x]
  /\ \A x \in Addr : x # d /\ x # next[d] => prev2[x] = prev[x]

\* The free links of the chunks other than d are the same.
SameFree(f2, f, d) ==
  \A x \in Addr : x # d => f2.next[x] = f.next[x] /\ f2.prev[x] = f.prev[x]

\* A chunk that is not listed and large enough to be cut.
CanSplit(h, K, F, c, size, c2) ==
  /\ Good(h, K, F) /\ h.mem_meta = MetaOf(K)
  /\ c \in K \ {head, tail} /\ c \notin F
  /\ size \in Nat /\ size % ALIGN = 0 /\ size >= MIN_SIZE
  /\ Splits(size, heap_chunk_size(h, c)) /\ c2 = c + HEADER_SIZE + size

\* Cutting a chunk: the rest is a listed chunk of its own.
LEMMA SplitGood ==
  ASSUME NEW h, NEW K, NEW F, NEW c, NEW size, NEW c2, CanSplit(h, K, F, c, size, c2)
  PROVE  LET r == SplitChunk(h, c, size)
         IN  /\ c2 \in Addr \ K
             /\ Good(r, With(K, c2), With(F, c2)) /\ r.mem_meta = MetaOf(With(K, c2))
             /\ FlagsBut(r.used, h.used, c2, FALSE)
             /\ SplitLinks(r.all.next, h.all.next, c, c2)
<1> DEFINE r == SplitChunk(h, c, size)
           h1 == heap_chunk_init(h, c2)
           a2 == dlist_insert_after(h1.all, c, c2)
           h2 == [h1 EXCEPT !.all = a2]
           g == PushFree(h2, c2)
           m1 == Add(g.mem_meta, HEADER_SIZE)
           m2 == Add(g.mem_free, heap_chunk_size(h2, c2) - HEADER_SIZE)
           n == h.all.next[c]
           len == HEADER_SIZE + size
           K2 == With(K, c2)
<1>1. /\ h \in HeapType /\ Tiling(h.all.next, h.all.prev, K)
      /\ F \subseteq K \ {head, tail} /\ c \in K /\ c # tail
      /\ Lists(h.free, h.free_chunk, F, ClassMap(h.all.next))
      /\ h.all \in Links /\ h.free \in Links /\ h.free_chunk \in Heads
      /\ h.used \in [Addr -> BOOLEAN] /\ c \notin F /\ h.mem_meta = MetaOf(K)
      /\ size \in Nat /\ size % ALIGN = 0 /\ size >= MIN_SIZE
      /\ Splits(size, heap_chunk_size(h, c)) /\ c # head /\ c2 = c + HEADER_SIZE + size
  BY DEF CanSplit, Good, HeapType
<1>2. /\ HEADER_SIZE \in Nat \ {0} /\ MIN_SIZE \in Nat /\ HeapSize \in Nat
      /\ HEADER_SIZE % ALIGN = 0
      /\ ChunkStruct = HEADER_SIZE + MIN_SIZE /\ tail = HeapSize - ChunkStruct
  BY SizesPositive, AlignedSizes
<1>3. n \in K /\ n \in Addr /\ c \in Addr /\ n \in Nat /\ c \in Nat /\ n <= tail
  <2>1. n \in K /\ n \in Addr /\ c \in Addr
    BY <1>1 DEF Tiling
  <2>2. n \in Nat /\ n <= tail /\ c \in Nat
    BY <1>1, <2>1, TileOrder
  <2> QED
    BY <2>1, <2>2
<1>4. /\ len \in Nat /\ len % ALIGN = 0 /\ len >= ChunkStruct /\ c2 = c + len
      /\ c + len + ChunkStruct <= n
  <2>1. len % ALIGN = 0
    BY <1>1, <1>2, AlignedSum
  <2>2. size + ChunkStruct <= n - c - HEADER_SIZE
    BY <1>1 DEF Splits, heap_chunk_size
  <2> QED
    BY <1>1, <1>2, <1>3, <2>1, <2>2
<1>5. c2 \in Addr /\ c2 \in Nat /\ c < c2 /\ c2 < n
  BY <1>2, <1>3, <1>4 DEF Addr
<1> HIDE DEF len
<1>6. c2 \notin K
  BY <1>1, <1>3, <1>5 DEF Tiling
<1>7. /\ h1 \in HeapType /\ h1.all = dlist_init(h.all, c2)
      /\ h1.free = dlist_init(h.free, c2)
      /\ h1.used = [h.used EXCEPT ![c2] = FALSE]
      /\ h1.free_chunk = h.free_chunk /\ h1.mem_meta = h.mem_meta
  BY <1>1, <1>5, ChunkInit
<1> HIDE DEF h1
<1>8. /\ h1.all \in Links
      /\ \A x \in Addr : /\ h1.all.next[x] = IF x = c2 THEN c2 ELSE h.all.next[x]
                         /\ h1.all.prev[x] = IF x = c2 THEN c2 ELSE h.all.prev[x]
      /\ \A x \in Addr : /\ h1.free.next[x] = IF x = c2 THEN c2 ELSE h.free.next[x]
                         /\ h1.free.prev[x] = IF x = c2 THEN c2 ELSE h.free.prev[x]
  BY <1>1, <1>5, <1>7, InitLinks
<1>9. h1.all.next[c] = n /\ c # c2 /\ n # c2 /\ h1.all.prev[c2] = c2
  BY <1>3, <1>5, <1>8
<1>10. /\ a2 \in Links
       /\ \A x \in Addr :
            /\ a2.next[x] = IF x = c THEN c2 ELSE IF x = c2 THEN n ELSE h1.all.next[x]
            /\ a2.prev[x] = IF x = n THEN c2 ELSE IF x = c2 THEN c ELSE h1.all.prev[x]
  BY <1>3, <1>5, <1>8, <1>9, InsertAfterLinks
<1> HIDE DEF a2
<1>11. /\ \A x \in Addr : a2.next[x] = IF x = c THEN c2 ELSE IF x = c2 THEN n ELSE h.all.next[x]
       /\ \A x \in Addr : a2.prev[x] = IF x = n THEN c2 ELSE IF x = c2 THEN c ELSE h.all.prev[x]
  BY <1>8, <1>10
<1>12. /\ h2 \in HeapType /\ h2.all = a2 /\ h2.free = h1.free /\ h2.used = h1.used
       /\ h2.free_chunk = h1.free_chunk /\ h2.mem_meta = h1.mem_meta
  BY <1>7, <1>10, SetAll
<1> HIDE DEF h2
<1>13. Tiling(a2.next, a2.prev, K2)
  <2>1. /\ \A d \in Addr : a2.next[d] = IF d = c THEN c + len
                                        ELSE IF d = c + len THEN n ELSE h.all.next[d]
        /\ \A d \in Addr : a2.prev[d] = IF d = n THEN c + len
                                        ELSE IF d = c + len THEN c ELSE h.all.prev[d]
    BY <1>4, <1>11
  <2> QED
    BY <1>1, <1>4, <2>1, TileSplit DEF With
<1>14. Lists(h2.free, h2.free_chunk, F, ClassMap(h2.all.next))
  <2>1. \A d \in F : d \in Addr /\ d # c /\ d # c2
    BY <1>1, <1>6 DEF Tiling
  <2>2. \A d \in F : ClassMap(a2.next)[d] = ClassMap(h.all.next)[d]
    BY <1>11, <2>1 DEF ClassMap
  <2>3. \A d \in F : h2.free.next[d] = h.free.next[d] /\ h2.free.prev[d] = h.free.prev[d]
    BY <1>8, <1>12, <2>1
  <2>4. Lists(h2.free, h.free_chunk, F, ClassMap(a2.next))
    BY <1>1, <2>2, <2>3, ListFrame
  <2> QED
    BY <1>7, <1>12, <2>4
<1>15. Good(h2, K2, F)
  BY <1>1, <1>12, <1>13, <1>14 DEF Good, With
<1>16. /\ c2 \in K2 \ {head, tail} /\ c2 \notin F
       /\ h2.free.next[c2] = c2 /\ h2.free.prev[c2] = c2
  BY <1>1, <1>5, <1>6, <1>8, <1>12 DEF Tiling, With
<1> HIDE DEF K2
<1>17. Good(g, K2, With(F, c2)) /\ g.all = h2.all /\ g.used = h2.used /\ g.mem_meta = h2.mem_meta
  BY <1>15, <1>16, PushFreeGood
<1>18. r = [g EXCEPT !.mem_meta = m1, !.mem_free = m2]
  <2>1. c2 = c + HEADER_SIZE + size
    BY DEF CanSplit
  <2> QED
    BY <2>1 DEF SplitChunk, g, h2, a2, h1
<1> HIDE DEF g, r
<1>19. m1 \in Counter /\ m2 \in Counter /\ g \in HeapType
  <2>1. /\ heap_chunk_size(h2, c2) \in Int /\ HEADER_SIZE \in Int
        /\ g.mem_meta \in Int /\ g.mem_free \in Int /\ g \in HeapType
    BY <1>15, <1>16, <1>17, SizeInt DEF Good
  <2> QED
    BY <2>1, AddType
<1> HIDE DEF m1, m2
<1>20. /\ r \in HeapType /\ r.all = g.all /\ r.free = g.free /\ r.used = g.used
       /\ r.free_chunk = g.free_chunk /\ r.mem_meta = m1
  BY <1>18, <1>19 DEF HeapType
<1>21. Good(r, K2, With(F, c2))
  BY <1>17, <1>20, OtherCounters
<1>22. r.mem_meta = MetaOf(K2)
  <2>1. Add(MetaOf(K), HEADER_SIZE) = MetaOf(K2)
    BY <1>1, <1>5, <1>6, <1>13, MetaSplit DEF With, K2
  <2> QED
    BY <1>1, <1>7, <1>12, <1>17, <1>20, <2>1 DEF m1
<1>23. FlagsBut(r.used, h.used, c2, FALSE)
  <2>1. \A d \in Addr : h1.used[d] = IF d = c2 THEN FALSE ELSE h.used[d]
    BY <1>1, <1>5, <1>7
  <2>2. r.used = h1.used
    BY <1>12, <1>17, <1>20
  <2> QED
    BY <2>1, <2>2 DEF FlagsBut
<1>24. SplitLinks(r.all.next, h.all.next, c, c2)
  BY <1>11, <1>12, <1>17, <1>20 DEF SplitLinks
<1> QED
  BY <1>5, <1>6, <1>21, <1>22, <1>23, <1>24 DEF r, K2

\* A chunk that is not listed disappears into one that is not listed either.
LEMMA MergeGood ==
  ASSUME NEW h, NEW K, NEW F, Good(h, K, F), h.mem_meta = MetaOf(K),
         NEW d \in K \ {head, tail}, d \notin F, h.all.prev[d] \notin F
  PROVE  LET r == MergeAway(h, d)
         IN  /\ Good(r, Without(K, d), F) /\ r.mem_meta = MetaOf(Without(K, d))
             /\ FlagsBut(r.used, h.used, d, FALSE)
             /\ MergeLinks(r.all.next, r.all.prev, h.all.next, h.all.prev, d)
             /\ SameFree(r.free, h.free, d)
<1> DEFINE r == MergeAway(h, d)
           a1 == dlist_remove(h.all, d)
           a2 == Scribbled(a1, d)
           f2 == Scribbled(h.free, d)
           m1 == Add(h.mem_meta, 0 - HEADER_SIZE)
           m2 == Add(h.mem_free, HEADER_SIZE)
           p == h.all.prev[d]
           n == h.all.next[d]
           K2 == K \ {d}
<1>1. /\ h \in HeapType /\ Tiling(h.all.next, h.all.prev, K)
      /\ F \subseteq K \ {head, tail} /\ d \in K /\ d # tail /\ d # head
      /\ Lists(h.free, h.free_chunk, F, ClassMap(h.all.next))
      /\ h.all \in Links /\ h.free \in Links /\ h.free_chunk \in Heads
      /\ h.used \in [Addr -> BOOLEAN]
  BY DEF Good, HeapType
<1>2. d \in Addr /\ p \in K /\ n \in K /\ p \in Addr /\ n \in Addr /\ p # d /\ n # d
  <2>1. d \in Addr /\ p \in K /\ n \in K /\ p \in Addr /\ n \in Addr
    BY <1>1 DEF Tiling
  <2>2. /\ d \in Nat /\ n \in Nat /\ p \in Nat /\ d + ChunkStruct <= n /\ p + ChunkStruct <= d
        /\ ChunkStruct \in Nat \ {0}
    BY <1>1, TileOrder, SizesPositive
  <2>3. p # d /\ n # d
    BY <2>2
  <2> QED
    BY <2>1, <2>3
<1>3. /\ a1 \in Links
      /\ a1.next = [h.all.next EXCEPT ![p] = n, ![d] = d]
      /\ a1.prev = [h.all.prev EXCEPT ![n] = p, ![d] = d]
  BY <1>1, <1>2, RemoveLinks
<1> HIDE DEF a1
<1>4. /\ a2 \in Links
      /\ \A x \in Addr : /\ a2.next[x] = IF x = d THEN NULL ELSE a1.next[x]
                         /\ a2.prev[x] = IF x = d THEN NULL ELSE a1.prev[x]
  BY <1>2, <1>3, ScribbledLinks
<1>5. /\ f2 \in Links
      /\ \A x \in Addr : /\ f2.next[x] = IF x = d THEN NULL ELSE h.free.next[x]
                         /\ f2.prev[x] = IF x = d THEN NULL ELSE h.free.prev[x]
  BY <1>1, <1>2, ScribbledLinks
<1>6. m1 \in Counter /\ m2 \in Counter
  BY <1>1, SizeInt, AddType
<1>7. r = [h EXCEPT !.all = a2, !.free = f2, !.used[d] = FALSE,
                    !.mem_meta = m1, !.mem_free = m2]
  BY <1>1 DEF MergeAway, HeapType, a1
<1> HIDE DEF a2, f2, m1, m2, r, p, n
<1>8. /\ r \in HeapType /\ r.all = a2 /\ r.free = f2
      /\ r.used = [h.used EXCEPT ![d] = FALSE]
      /\ r.free_chunk = h.free_chunk /\ r.mem_meta = m1
  BY <1>1, <1>2, <1>4, <1>5, <1>6, <1>7 DEF HeapType
<1>9. /\ \A x \in Addr : a2.next[x] = IF x = d THEN NULL ELSE IF x = p THEN n ELSE h.all.next[x]
      /\ \A x \in Addr : a2.prev[x] = IF x = d THEN NULL ELSE IF x = n THEN p ELSE h.all.prev[x]
  <2>1. h.all.next \in Link /\ h.all.prev \in Link
    BY <1>1 DEF Links
  <2>2. \A x \in Addr : x # d => a1.next[x] = IF x = p THEN n ELSE h.all.next[x]
    BY <1>2, <1>3, <2>1 DEF Link
  <2>3. \A x \in Addr : x # d => a1.prev[x] = IF x = n THEN p ELSE h.all.prev[x]
    BY <1>2, <1>3, <2>1 DEF Link
  <2> QED
    BY <1>4, <2>2, <2>3
<1>10. Tiling(a2.next, a2.prev, K2)
  BY <1>1, <1>9, TileMerge DEF p, n
<1>11. Lists(r.free, r.free_chunk, F, ClassMap(r.all.next))
  <2>1. \A x \in F : x \in Addr /\ x # d /\ x # p
    BY <1>1 DEF Tiling, p
  <2>2. \A x \in F : ClassMap(a2.next)[x] = ClassMap(h.all.next)[x]
    BY <1>9, <2>1 DEF ClassMap
  <2>3. \A x \in F : f2.next[x] = h.free.next[x] /\ f2.prev[x] = h.free.prev[x]
    BY <1>5, <2>1
  <2>4. Lists(f2, h.free_chunk, F, ClassMap(a2.next))
    BY <1>1, <2>2, <2>3, ListFrame
  <2> QED
    BY <1>8, <2>4
<1>12. Good(r, K2, F)
  BY <1>1, <1>8, <1>10, <1>11 DEF Good
<1>13. r.mem_meta = MetaOf(K2)
  BY <1>1, <1>8, MetaMerge DEF m1
<1>14. FlagsBut(r.used, h.used, d, FALSE)
  BY <1>1, <1>8 DEF FlagsBut
<1>15. MergeLinks(r.all.next, r.all.prev, h.all.next, h.all.prev, d)
  BY <1>8, <1>9 DEF MergeLinks, p, n
<1>16. SameFree(r.free, h.free, d)
  BY <1>5, <1>8 DEF SameFree
<1> QED
  BY <1>12, <1>13, <1>14, <1>15, <1>16 DEF r, Without

-----------------------------------------------------------------------------
(***************************************************************************)
(* kmalloc                                                                 *)
(***************************************************************************)
ChunksOf(h) == {c \in Addr : h.all.next[c] # NULL}
UsedOf(h) == {c \in ChunksOf(h) \ {head, tail} : h.used[c]}
FreeOf(h) == {c \in ChunksOf(h) \ {head, tail} : ~h.used[c]}

Separated(h) == /\ h.used[head] /\ h.used[tail]
                /\ \A c \in ChunksOf(h) : h.used[c] \/ h.used[h.all.next[c]]

GoodHeap(h) == /\ Good(h, ChunksOf(h), FreeOf(h))
               /\ h.mem_meta = MetaOf(ChunksOf(h))
               /\ Separated(h)

\* The new heap has one more used chunk, c, with room for size bytes.
Allocates(h, r, c, size) ==
  /\ c \in FreeOf(h) /\ GoodHeap(r) /\ UsedOf(r) = UsedOf(h) \cup {c}
  /\ heap_chunk_size(r, c) >= size
  /\ \A u \in UsedOf(h) : heap_chunk_size(r, u) = heap_chunk_size(h, u)

\* The new heap has one used chunk less.
Frees(h, r, c) ==
  /\ GoodHeap(r) /\ UsedOf(r) = UsedOf(h) \ {c}
  /\ \A u \in UsedOf(r) : heap_chunk_size(r, u) = heap_chunk_size(h, u)

\* The chunks are the addresses with links in the chunk list.
LEMMA ChunksAre ==
  ASSUME NEW h, NEW K, NEW F, Good(h, K, F)
  PROVE  ChunksOf(h) = K
<1>1. Tiling(h.all.next, h.all.prev, K)
  BY DEF Good
<1>2. \A c \in K : c \in Addr /\ h.all.next[c] \in Addr
  BY <1>1 DEF Tiling
<1>3. \A c \in Addr \ K : h.all.next[c] = NULL
  BY <1>1 DEF Tiling
<1> QED
  BY <1>2, <1>3, SizesPositive DEF ChunksOf

\* A request is rounded up to an aligned size that is no larger than the heap.
LEMMA RoundedSize ==
  ASSUME NEW request \in 0..HeapSize
  PROVE  /\ Rounded(request) \in 1..HeapSize /\ Rounded(request) % ALIGN = 0
         /\ Rounded(request) >= MIN_SIZE /\ Rounded(request) >= request
<1> DEFINE b == request + ALIGN - 1
           q == b \div ALIGN
           H == HeapSize \div ALIGN
           up == q * ALIGN
<1>1. /\ ALIGN \in Nat \ {0} /\ MIN_SIZE \in Nat \ {0} /\ HeapSize \in Nat
      /\ MIN_SIZE <= HeapSize /\ request \in Nat /\ request <= HeapSize
      /\ HeapSize % ALIGN = 0 /\ MIN_SIZE % ALIGN = 0
  BY SizesPositive, AlignedSizes
<1>2. b \in Nat /\ 0 \in 0..(ALIGN - 1)
  BY <1>1
<1> HIDE DEF b
<1>3. q \in Nat /\ b % ALIGN \in 0..(ALIGN - 1) /\ b = ALIGN * q + (b % ALIGN)
  BY <1>1, <1>2, DivideBy
<1>4. H \in Nat /\ HeapSize = ALIGN * H + 0
  BY <1>1, DivideBy
<1> HIDE DEF q, H
<1>5. up = ALIGN * q + 0 /\ up \in Nat
  BY <1>1, <1>3
<1>6. up % ALIGN = 0
  BY <1>1, <1>2, <1>3, <1>5, RemainderUnique
<1> HIDE DEF up
<1>7. up >= request
  BY <1>1, <1>3, <1>5 DEF b
<1>8. up <= HeapSize
  <2>1. CASE q <= H
    <3>1. ALIGN * q <= ALIGN * H
      BY <1>1, <1>3, <1>4, <2>1
    <3>2. ALIGN * q \in Nat /\ ALIGN * H \in Nat
      BY <1>1, <1>3, <1>4
    <3> QED
      BY <1>1, <1>4, <1>5, <3>1, <3>2
  <2>2. CASE q >= H + 1
    <3>1. ALIGN * q >= ALIGN * (H + 1) /\ ALIGN * (H + 1) = ALIGN * H + ALIGN
      BY <1>1, <1>3, <1>4, <2>2
    <3>2. b >= HeapSize + ALIGN
      BY <1>1, <1>3, <1>4, <1>5, <3>1
    <3> QED
      BY <1>1, <3>2 DEF b
  <2> QED
    BY <1>3, <1>4, <2>1, <2>2
<1>9. Rounded(request) = IF up < MIN_SIZE THEN MIN_SIZE ELSE up
  BY DEF Rounded, up, q, b
<1> QED
  BY <1>1, <1>5, <1>6, <1>7, <1>8, <1>9

\* The head of a class is in it, and a class with members has a head.
LEMMA ClassHead ==
  ASSUME NEW h, NEW K, NEW F, Good(h, K, F), NEW n \in Sizes
  PROVE  /\ h.free_chunk[n] # NULL =>
              /\ h.free_chunk[n] \in F
              /\ heap_chunk_slot[heap_chunk_size(h, h.free_chunk[n])] = n
         /\ \A c \in F : heap_chunk_slot[heap_chunk_size(h, c)] = n => h.free_chunk[n] # NULL
<1> DEFINE k == ClassMap(h.all.next)
           M == Class(F, k, n)
<1>1. Cycle(h.free.next, h.free.prev, h.free_chunk[n], M)
  BY DEF Good, Lists
<1>2. \A c \in F : c \in Addr /\ k[c] = heap_chunk_slot[heap_chunk_size(h, c)]
  BY DEF Good, Tiling, ClassMap, heap_chunk_size
<1> HIDE DEF k
<1>3. \A c \in M : c \in F /\ k[c] = n
  BY DEF Class
<1>4. \A c \in F : k[c] = n => c \in M
  BY DEF Class
<1> HIDE DEF M
<1>5. CASE M = {}
  BY <1>1, <1>2, <1>4, <1>5 DEF Cycle
<1>6. CASE M # {}
  <2>1. h.free_chunk[n] \in M
    BY <1>1, <1>6 DEF Cycle, OneCycle
  <2> QED
    BY <1>2, <1>3, <2>1, SizesPositive
<1> QED
  BY <1>5, <1>6

\* The last assignments of kmalloc.
Take(h, c, m1, m2) == [h EXCEPT !.used[c] = TRUE, !.free = Scribbled(@, c),
                                !.mem_free = m1, !.mem_used = m2]

\* A chunk that is not listed is given to a client.
LEMMA TakeGood ==
  ASSUME NEW h, NEW K, NEW F, Good(h, K, F), NEW c \in Addr, c \notin F,
         NEW m1 \in Counter, NEW m2 \in Counter
  PROVE  LET r == Take(h, c, m1, m2)
         IN  /\ Good(r, K, F) /\ r.mem_meta = h.mem_meta /\ r.all = h.all
             /\ FlagsBut(r.used, h.used, c, TRUE)
<1> DEFINE f == Scribbled(h.free, c)
           r == [h EXCEPT !.used[c] = TRUE, !.free = f, !.mem_free = m1, !.mem_used = m2]
<1>1. /\ h \in HeapType /\ h.free \in Links /\ h.used \in [Addr -> BOOLEAN]
      /\ Lists(h.free, h.free_chunk, F, ClassMap(h.all.next))
  BY DEF Good, HeapType
<1>2. /\ f \in Links
      /\ \A x \in Addr : /\ f.next[x] = IF x = c THEN NULL ELSE h.free.next[x]
                         /\ f.prev[x] = IF x = c THEN NULL ELSE h.free.prev[x]
  BY <1>1, ScribbledLinks
<1> HIDE DEF f
<1>3. /\ r \in HeapType /\ r.all = h.all /\ r.free = f
      /\ r.used = [h.used EXCEPT ![c] = TRUE]
      /\ r.free_chunk = h.free_chunk /\ r.mem_meta = h.mem_meta
  BY <1>1, <1>2 DEF HeapType
<1>4. Take(h, c, m1, m2) = r
  BY DEF Take, f
<1> HIDE DEF r
<1>5. \A d \in F : d \in Addr /\ d # c
  BY DEF Good, Tiling
<1>6. Lists(f, h.free_chunk, F, ClassMap(h.all.next))
  <2>1. \A d \in F : f.next[d] = h.free.next[d] /\ f.prev[d] = h.free.prev[d]
    BY <1>2, <1>5
  <2> QED
    BY <1>1, <2>1, ListFrame
<1>7. Good(r, K, F)
  BY <1>3, <1>6 DEF Good
<1>8. FlagsBut(r.used, h.used, c, TRUE)
  BY <1>1, <1>3 DEF FlagsBut
<1> QED
  BY <1>3, <1>4, <1>7, <1>8

\* What GoodHeap says about a chunk that is free.
LEMMA FreeChunk ==
  ASSUME NEW h, GoodHeap(h), NEW c \in FreeOf(h)
  PROVE  /\ c \in ChunksOf(h) \ {head, tail} /\ c \in Addr /\ ~h.used[c]
         /\ h.all.next[c] \in ChunksOf(h) /\ h.all.next[c] \in Addr
         /\ h.used[h.all.next[c]] /\ h.all.next[c] # c
         /\ h.used \in [Addr -> BOOLEAN] /\ h \in HeapType
<1>1. c \in ChunksOf(h) \ {head, tail} /\ c \in Addr /\ ~h.used[c]
  BY DEF FreeOf, ChunksOf
<1>2. h.all.next[c] \in ChunksOf(h) /\ h.all.next[c] \in Addr
  BY <1>1 DEF GoodHeap, Good, Tiling
<1>3. h.used[h.all.next[c]]
  BY <1>1 DEF GoodHeap, Separated
<1> QED
  BY <1>1, <1>2, <1>3 DEF GoodHeap, Good, HeapType

\* A free chunk is handed out as a whole.
LEMMA AllocatesWhole ==
  ASSUME NEW h, GoodHeap(h), NEW c \in FreeOf(h), NEW g, NEW size,
         Good(g, ChunksOf(h), Without(FreeOf(h), c)), g.mem_meta = h.mem_meta, g.all = h.all,
         FlagsBut(g.used, h.used, c, TRUE), heap_chunk_size(h, c) >= size
  PROVE  Allocates(h, g, c, size)
<1> DEFINE K == ChunksOf(h)
<1>0. \A d \in Addr : g.used[d] = IF d = c THEN TRUE ELSE h.used[d]
  BY DEF FlagsBut
<1>1. ChunksOf(g) = K
  BY ChunksAre
<1>2. \A d \in K : d \in Addr
  BY DEF ChunksOf
<1>3. c \in K \ {head, tail} /\ c \in Addr /\ ~h.used[c]
  BY FreeChunk
<1> HIDE DEF K
<1>4. FreeOf(g) = Without(FreeOf(h), c)
  BY <1>0, <1>1, <1>2, <1>3 DEF FreeOf, Without, K
<1>5. UsedOf(g) = UsedOf(h) \cup {c}
  BY <1>0, <1>1, <1>2, <1>3 DEF UsedOf, K
<1>6. Separated(g)
  <2>1. head \in Addr /\ tail \in Addr
    BY AlignedSizes
  <2>2. g.used[head] /\ g.used[tail]
    BY <1>0, <2>1 DEF GoodHeap, Separated
  <2>3. ASSUME NEW d \in K PROVE g.used[d] \/ g.used[g.all.next[d]]
    <3>1. h.all.next[d] \in Addr
      BY DEF GoodHeap, Good, Tiling, K
    <3>2. h.used[d] \/ h.used[h.all.next[d]]
      BY DEF GoodHeap, Separated, K
    <3> QED
      BY <1>0, <1>2, <3>1, <3>2
  <2> QED
    BY <1>1, <2>2, <2>3 DEF Separated
<1>7. GoodHeap(g)
  BY <1>1, <1>4, <1>6 DEF GoodHeap, K
<1>8. \A u : heap_chunk_size(g, u) = heap_chunk_size(h, u)
  BY DEF heap_chunk_size
<1> QED
  BY <1>5, <1>7, <1>8 DEF Allocates

\* A free chunk is cut and its first part handed out.
LEMMA AllocatesCut ==
  ASSUME NEW h, GoodHeap(h), NEW c \in FreeOf(h), NEW g, NEW size \in Nat,
         NEW c2 \in Addr \ ChunksOf(h), c2 = c + HEADER_SIZE + size,
         Good(g, With(ChunksOf(h), c2), With(Without(FreeOf(h), c), c2)),
         g.mem_meta = MetaOf(With(ChunksOf(h), c2)),
         SplitLinks(g.all.next, h.all.next, c, c2),
         NEW u1, FlagsBut(u1, h.used, c2, FALSE), FlagsBut(g.used, u1, c, TRUE)
  PROVE  Allocates(h, g, c, size)
<1> DEFINE K == ChunksOf(h)
           K2 == With(K, c2)
<1>0. /\ \A d \in Addr : g.all.next[d] = IF d = c THEN c2
                                         ELSE IF d = c2 THEN h.all.next[c]
                                         ELSE h.all.next[d]
      /\ \A d \in Addr : g.used[d] = IF d = c THEN TRUE
                                     ELSE IF d = c2 THEN FALSE ELSE h.used[d]
  BY DEF SplitLinks, FlagsBut
<1>1. ChunksOf(g) = K2
  BY ChunksAre
<1>2. (\A d \in K : d \in Addr) /\ c2 \notin K /\ c2 \in Addr
  BY DEF ChunksOf
<1>3. /\ c \in K \ {head, tail} /\ c \in Addr /\ ~h.used[c]
      /\ h.all.next[c] \in K /\ h.used[h.all.next[c]] /\ h.all.next[c] # c
  BY FreeChunk
<1>4. head \in K /\ tail \in K
  BY DEF GoodHeap, Good, Tiling
<1> HIDE DEF K
<1>5. FreeOf(g) = With(Without(FreeOf(h), c), c2)
  <2>1. \A d : d \in FreeOf(g) <=> d \in K2 /\ d # head /\ d # tail /\ ~g.used[d]
    BY <1>1 DEF FreeOf
  <2>2. \A d : d \in FreeOf(h) <=> d \in K /\ d # head /\ d # tail /\ ~h.used[d]
    BY DEF FreeOf, K
  <2>3. ASSUME NEW d \in FreeOf(g) PROVE d \in (FreeOf(h) \ {c}) \cup {c2}
    BY <1>0, <1>2, <1>3, <2>1, <2>2 DEF With
  <2>4. ASSUME NEW d \in (FreeOf(h) \ {c}) \cup {c2} PROVE d \in FreeOf(g)
    BY <1>0, <1>2, <1>3, <1>4, <2>1, <2>2, ZenonT(60) DEF With
  <2> QED
    BY <2>3, <2>4 DEF With, Without
<1>6. UsedOf(g) = UsedOf(h) \cup {c}
  BY <1>0, <1>1, <1>2, <1>3, <1>4, ZenonT(60) DEF UsedOf, With, K
<1>7. Separated(g)
  <2>1. g.used[head] /\ g.used[tail]
    BY <1>0, <1>2, <1>3, <1>4 DEF GoodHeap, Separated
  <2>2. ASSUME NEW d \in K2 PROVE g.used[d] \/ g.used[g.all.next[d]]
    <3>1. CASE d = c
      BY <1>0, <1>3, <3>1
    <3>2. CASE d = c2
      BY <1>0, <1>2, <1>3, <3>2
    <3>3. CASE d \in K /\ d # c
      <4>1. h.all.next[d] \in K
        BY <3>3 DEF GoodHeap, Good, Tiling, K
      <4>2. h.used[d] \/ h.used[h.all.next[d]]
        BY <3>3 DEF GoodHeap, Separated, K
      <4>3. g.all.next[d] = h.all.next[d]
        BY <1>0, <1>2, <3>3
      <4> QED
        BY <1>0, <1>2, <3>3, <4>1, <4>2, <4>3
    <3> QED
      BY <3>1, <3>2, <3>3 DEF With
  <2> QED
    BY <1>1, <2>1, <2>2 DEF Separated
<1>8. GoodHeap(g)
  BY <1>1, <1>5, <1>7 DEF GoodHeap, K
<1>9. ASSUME NEW u \in UsedOf(h) PROVE heap_chunk_size(g, u) = heap_chunk_size(h, u)
  <2>1. u \in Addr /\ u # c /\ u # c2
    BY <1>2, <1>3 DEF UsedOf, K
  <2> QED
    BY <1>0, <2>1 DEF heap_chunk_size
<1>10. heap_chunk_size(g, c) >= size
  <2>1. c \in Nat /\ HEADER_SIZE \in Nat /\ g.all.next[c] = c2
    BY <1>0, <1>3, SizesPositive DEF Addr
  <2> QED
    BY <2>1 DEF heap_chunk_size
<1> QED
  BY <1>6, <1>8, <1>9, <1>10 DEF Allocates

(***************************************************************************)
(* kmalloc returns NULL and changes nothing, and then no free chunk is     *)
(* twice as large as the request; or it hands out a free chunk.            *)
(***************************************************************************)
LEMMA KmallocGood ==
  ASSUME NEW h, GoodHeap(h), NEW request \in 0..HeapSize
  PROVE  LET r == Kmalloc(h, request)
         IN  \/ /\ r.ptr = NULL /\ r.h = h
                /\ \A c \in FreeOf(h) : heap_chunk_size(h, c) < 2 * Rounded(request)
             \/ \E c \in FreeOf(h) : /\ r.ptr = c + HEADER_SIZE
                                     /\ Allocates(h, r.h, c, Rounded(request))
<1> DEFINE r == Kmalloc(h, request)
           size == Rounded(request)
           classes == {n \in FirstClass(size)..(NUM_SIZES - 1) : h.free_chunk[n] # NULL}
           K == ChunksOf(h)
           F == FreeOf(h)
<1>1. size \in 1..HeapSize /\ size % ALIGN = 0 /\ size >= MIN_SIZE /\ size \in Nat
  BY RoundedSize
<1>2. FirstClass(size) \in Nat
  <2>1. size - 1 \in 0..HeapSize
    BY <1>1, SizesPositive
  <2>2. heap_chunk_slot[size - 1] \in Int /\ heap_chunk_slot[size - 1] >= -1
    BY <2>1, SlotEquation, SlotMonotone
  <2> QED
    BY <2>2 DEF FirstClass
<1>3. Good(h, K, F) /\ h.mem_meta = MetaOf(K) /\ F \subseteq K \ {head, tail}
  BY DEF GoodHeap, Good
<1>4. ASSUME NEW c \in F
      PROVE  /\ heap_chunk_size(h, c) \in 1..HeapSize
             /\ heap_chunk_slot[heap_chunk_size(h, c)] \in Sizes
  <2>1. heap_chunk_size(h, c) \in 1..HeapSize
    BY <1>3, SizeInt
  <2> QED
    BY <2>1, SlotMonotone
<1>5. CASE classes = {}
  <2>1. r = [h |-> h, ptr |-> NULL]
    BY <1>5 DEF Kmalloc
  <2>2. ASSUME NEW c \in F PROVE heap_chunk_size(h, c) < 2 * size
    <3> DEFINE n == heap_chunk_slot[heap_chunk_size(h, c)]
    <3>1. n \in Sizes
      BY <1>4
    <3>2. h.free_chunk[n] # NULL
      BY <1>3, <3>1, ClassHead
    <3>3. n < FirstClass(size)
      BY <1>2, <1>5, <3>1, <3>2, SizesPositive DEF Sizes
    <3> QED
      BY <1>1, <1>4, <3>3, ClassShort
  <2> QED
    BY <2>1, <2>2
<1>6. CASE classes # {}
  <2> DEFINE n == Min(classes)
             c == h.free_chunk[n]
             size2 == heap_chunk_size(h, c)
             h1 == RemoveFree(h, n, c)
             cut == Splits(size, size2)
             h2 == IF cut THEN SplitChunk(h1, c, size) ELSE h1
             len == IF cut THEN size2 - size - HEADER_SIZE ELSE 0
             m1 == Add(h2.mem_free, 0 - size2)
             m2 == Add(h2.mem_used, size2 - len - HEADER_SIZE)
             g == Take(h2, c, m1, m2)
             c2 == c + HEADER_SIZE + size
  <2>1. n \in classes
    <3>1. classes \in SUBSET Nat
      BY <1>2, SizesPositive
    <3> HIDE DEF classes
    <3> QED
      BY <1>6, <3>1, MinOfNaturals
  <2>2. r = [h |-> g, ptr |-> c + HEADER_SIZE]
    BY <1>6 DEF Kmalloc, Take
  <2> HIDE DEF n
  <2>3. n \in Sizes /\ n >= FirstClass(size) /\ h.free_chunk[n] # NULL
    BY <1>2, <2>1, SizesPositive DEF Sizes
  <2>4. c \in F /\ n = heap_chunk_slot[size2]
    BY <1>3, <2>3, ClassHead
  <2> HIDE DEF c, classes, g
  <2>5. c \in K \ {head, tail} /\ c \in Addr /\ size2 \in 1..HeapSize /\ size2 \in Int
    BY <1>3, <1>4, <2>4, SizesPositive DEF ChunksOf
  <2>6. size2 >= size
    BY <1>1, <2>3, <2>4, <2>5, ClassFits
  <2>7. /\ Good(h1, K, Without(F, c)) /\ h1.all = h.all /\ h1.used = h.used
        /\ h1.mem_meta = h.mem_meta
    BY <1>3, <2>4, RemoveFreeGood
  <2> HIDE DEF h1
  <2>8. heap_chunk_size(h1, c) = size2
    BY <2>7 DEF heap_chunk_size
  <2>9. HEADER_SIZE \in Int
    BY SizesPositive
  <2>10. CASE cut
    <3> DEFINE K2 == With(K, c2)
               F1 == Without(F, c)
               F2 == With(F1, c2)
    <3>1. h2 = SplitChunk(h1, c, size) /\ len \in Int
      BY <1>1, <2>5, <2>9, <2>10
    <3> HIDE DEF cut, h2, K, F, size, size2
    <3>2. /\ c2 \in Addr \ K
          /\ Good(h2, K2, F2) /\ h2.mem_meta = MetaOf(K2)
          /\ FlagsBut(h2.used, h1.used, c2, FALSE)
          /\ SplitLinks(h2.all.next, h1.all.next, c, c2)
      <4>1. CanSplit(h1, K, F1, c, size, c2)
        BY <1>1, <1>3, <2>5, <2>7, <2>8, <2>10 DEF CanSplit, Without, cut
      <4> DEFINE s == SplitChunk(h1, c, size)
      <4> HIDE DEF F1, c2
      <4>2. /\ c2 \in Addr \ K
            /\ Good(s, With(K, c2), With(F1, c2)) /\ s.mem_meta = MetaOf(With(K, c2))
            /\ FlagsBut(s.used, h1.used, c2, FALSE)
            /\ SplitLinks(s.all.next, h1.all.next, c, c2)
        BY <4>1, SplitGood
      <4> HIDE DEF s
      <4>3. h2 = s
        BY <3>1 DEF s
      <4> QED
        BY <4>2, <4>3
    <3>3. m1 \in Counter /\ m2 \in Counter
      <4>1. h2.mem_free \in Int /\ h2.mem_used \in Int
        BY <3>2, SizesPositive DEF Good, HeapType, Counter
      <4> QED
        BY <2>5, <2>9, <3>1, <4>1, AddType
    <3> HIDE DEF m1, m2
    <3>4. c # c2 /\ c \notin F2
      <4> HIDE DEF c2
      <4> QED
        BY <2>5, <3>2 DEF With, Without
    <3> HIDE DEF c2, K2, F2
    <3>5. /\ Good(g, K2, F2) /\ g.mem_meta = h2.mem_meta /\ g.all = h2.all
          /\ FlagsBut(g.used, h2.used, c, TRUE)
      BY <2>5, <3>2, <3>3, <3>4, TakeGood DEF g
    <3>6. /\ SplitLinks(g.all.next, h.all.next, c, c2)
          /\ FlagsBut(h2.used, h.used, c2, FALSE) /\ FlagsBut(g.used, h2.used, c, TRUE)
      BY <2>7, <3>2, <3>5
    <3>7. Allocates(h, g, c, size)
      <4>1. /\ c2 \in Addr \ ChunksOf(h) /\ c2 = c + HEADER_SIZE + size
            /\ c \in FreeOf(h) /\ size \in Nat /\ g.mem_meta = MetaOf(With(ChunksOf(h), c2))
            /\ Good(g, With(ChunksOf(h), c2), With(Without(FreeOf(h), c), c2))
        BY <1>1, <2>4, <3>2, <3>5 DEF K, F, c2, K2, F1, F2
      <4> QED
        BY <3>6, <4>1, AllocatesCut
    <3> QED
      BY <2>2, <2>4, <3>7 DEF F, size
  <2>11. CASE ~cut
    <3>1. h2 = h1 /\ len \in Int
      BY <2>11
    <3> HIDE DEF cut, h2, K, F, size, size2
    <3>2. m1 \in Counter /\ m2 \in Counter
      <4>1. h2.mem_free \in Int /\ h2.mem_used \in Int
        BY <2>7, <3>1, SizesPositive DEF Good, HeapType, Counter
      <4> QED
        BY <2>5, <2>9, <3>1, <4>1, AddType
    <3> HIDE DEF m1, m2
    <3>3. /\ Good(g, K, Without(F, c)) /\ g.mem_meta = h2.mem_meta /\ g.all = h2.all
          /\ FlagsBut(g.used, h2.used, c, TRUE)
      <4> DEFINE F1 == Without(F, c)
      <4>1. c \notin F1 /\ Good(h2, K, F1)
        BY <2>7, <3>1 DEF Without
      <4> HIDE DEF F1
      <4>2. Good(g, K, F1) /\ g.mem_meta = h2.mem_meta /\ g.all = h2.all
            /\ FlagsBut(g.used, h2.used, c, TRUE)
        BY <2>5, <3>2, <4>1, TakeGood DEF g
      <4> QED
        BY <4>2 DEF F1
    <3>4. Allocates(h, g, c, size)
      <4>1. heap_chunk_size(h, c) >= size
        BY <2>6 DEF size2
      <4> QED
        BY <2>4, <2>7, <3>1, <3>3, <4>1, AllocatesWhole DEF K, F
    <3> QED
      BY <2>2, <2>4, <3>4 DEF F, size
  <2> QED
    BY <2>10, <2>11
<1> QED
  BY <1>5, <1>6

-----------------------------------------------------------------------------
(***************************************************************************)
(* kfree                                                                   *)
(***************************************************************************)

\* The heap r after c is freed: what is left to show of its flags and links.
Coalesced(h, r, c, K, F) ==
  /\ Good(r, K, F) /\ r.mem_meta = MetaOf(K)
  /\ K \subseteq ChunksOf(h)
  /\ \A d \in K : r.used[d] <=> h.used[d] /\ d # c
  /\ \A d \in K : r.used[d] => r.all.next[d] = h.all.next[d]
  /\ \A d \in UsedOf(h) : d # c => d \in K
  /\ \A d \in K : d \in F <=> d \notin {head, tail} /\ ~r.used[d]
  /\ \A d \in F : r.used[r.all.next[d]]

\* Then r is a good heap with one used chunk less.
LEMMA CoalescedFrees ==
  ASSUME NEW h, GoodHeap(h), NEW c \in UsedOf(h), NEW r, NEW K, NEW F,
         Coalesced(h, r, c, K, F)
  PROVE  Frees(h, r, c)
<1>1. /\ Good(r, K, F) /\ r.mem_meta = MetaOf(K) /\ K \subseteq ChunksOf(h)
      /\ \A d \in K : r.used[d] <=> h.used[d] /\ d # c
      /\ \A d \in K : r.used[d] => r.all.next[d] = h.all.next[d]
      /\ \A d \in UsedOf(h) : d # c => d \in K
      /\ \A d \in K : d \in F <=> d \notin {head, tail} /\ ~r.used[d]
      /\ \A d \in F : r.used[r.all.next[d]]
  BY DEF Coalesced
<1>2. ChunksOf(r) = K
  BY <1>1, ChunksAre
<1>3. F \subseteq K /\ head \in K /\ tail \in K
  BY <1>1 DEF Good, Tiling
<1>4. FreeOf(r) = F
  BY <1>1, <1>2, <1>3 DEF FreeOf
<1>5. c # head /\ c # tail
  BY DEF UsedOf
<1>6. UsedOf(r) = UsedOf(h) \ {c}
  BY <1>1, <1>2, <1>5 DEF UsedOf
<1>7. r.used[head] /\ r.used[tail]
  BY <1>1, <1>3, <1>5 DEF GoodHeap, Separated
<1>8. Separated(r)
  BY <1>1, <1>2, <1>7 DEF Separated
<1>9. GoodHeap(r)
  BY <1>1, <1>2, <1>4, <1>8 DEF GoodHeap
<1>10. ASSUME NEW u \in UsedOf(r) PROVE heap_chunk_size(r, u) = heap_chunk_size(h, u)
  BY <1>1, <1>2 DEF UsedOf, heap_chunk_size
<1> QED
  BY <1>6, <1>9, <1>10 DEF Frees

\* The heap g before c, a used chunk, becomes free: the chunk after c is used.
NextUsed(h, g, c, K, F) ==
  /\ Good(g, K, F) /\ g.mem_meta = MetaOf(K)
  /\ K \subseteq ChunksOf(h) /\ c \in K
  /\ \A d \in K : g.used[d] = h.used[d]
  /\ \A d \in K : d # c => g.all.next[d] = h.all.next[d]
  /\ \A d \in UsedOf(h) : d \in K
  /\ \A d \in K : d \in F <=> d \in FreeOf(h)
  /\ h.used[g.all.next[c]] /\ g.all.next[c] # c
  /\ g.all.prev[c] = h.all.prev[c] /\ h.all.prev[c] \in K

\* What GoodHeap says about a chunk that is used.
LEMMA UsedChunk ==
  ASSUME NEW h, GoodHeap(h), NEW c \in UsedOf(h)
  PROVE  /\ c \in ChunksOf(h) \ {head, tail} /\ c \in Addr /\ h.used[c] /\ c \notin FreeOf(h)
         /\ h.all.next[c] \in ChunksOf(h) /\ h.all.next[c] \in Addr /\ h.all.next[c] # head
         /\ h.all.prev[c] \in ChunksOf(h) /\ h.all.prev[c] \in Addr /\ h.all.prev[c] # tail
         /\ h.all.prev[h.all.next[c]] = c /\ h.all.next[h.all.prev[c]] = c
         /\ c \in Nat /\ h.all.next[c] \in Nat /\ h.all.prev[c] \in Nat
         /\ h.all.prev[c] < c /\ c < h.all.next[c]
         /\ h.all.next[c] # tail =>
              h.all.next[h.all.next[c]] \in Nat /\ h.all.next[c] < h.all.next[h.all.next[c]]
         /\ Good(h, ChunksOf(h), FreeOf(h))
<1> DEFINE K == ChunksOf(h)
           n == h.all.next[c]
           p == h.all.prev[c]
<1>1. c \in K \ {head, tail} /\ c \in Addr /\ h.used[c] /\ c \notin FreeOf(h)
  BY DEF UsedOf, FreeOf, ChunksOf
<1>2. Good(h, K, FreeOf(h)) /\ Tiling(h.all.next, h.all.prev, K)
  BY DEF GoodHeap, Good
<1> HIDE DEF K
<1>3. /\ n \in K /\ n \in Addr /\ p \in K /\ p \in Addr
      /\ h.all.prev[n] = c /\ h.all.next[p] = c
  BY <1>1, <1>2 DEF Tiling
<1>4. /\ c \in Nat /\ n \in Nat /\ p \in Nat /\ n # head /\ p # tail
      /\ p + ChunkStruct <= c /\ c + ChunkStruct <= n
  BY <1>1, <1>2, TileOrder
<1>5. n # tail => h.all.next[n] \in Nat /\ n + ChunkStruct <= h.all.next[n]
  BY <1>2, <1>3, TileOrder
<1>6. ChunkStruct \in Nat \ {0}
  BY SizesPositive
<1>7. p < c /\ c < n /\ (n # tail => n < h.all.next[n])
  BY <1>4, <1>5, <1>6
<1> QED
  BY <1>1, <1>2, <1>3, <1>4, <1>5, <1>7 DEF K

\* The chunk after c is merged into c when it is free.
LEMMA MergeNextGood ==
  ASSUME NEW h, GoodHeap(h), NEW c \in UsedOf(h), NEW h1 \in HeapType,
         h1.all = h.all, h1.free = h.free, h1.free_chunk = h.free_chunk,
         h1.used = h.used, h1.mem_meta = h.mem_meta
  PROVE  \E K, F : NextUsed(h, MergeNext(h1, h.all.next[c]), c, K, F)
<1> DEFINE K == ChunksOf(h)
           F == FreeOf(h)
           n == h.all.next[c]
           p == h.all.prev[c]
           g == MergeNext(h1, n)
<1>1. /\ c \in K \ {head, tail} /\ c \in Addr /\ h.used[c] /\ c \notin F
      /\ n \in K /\ n \in Addr /\ n # head /\ p \in K /\ p \in Addr
      /\ h.all.prev[n] = c /\ h.all.next[p] = c
      /\ c \in Nat /\ n \in Nat /\ p \in Nat /\ p < c /\ c < n
      /\ n # tail => h.all.next[n] \in Nat /\ n < h.all.next[n]
      /\ Good(h, K, F)
  BY UsedChunk
<1>2. Good(h1, K, F) /\ h1.mem_meta = MetaOf(K)
  BY <1>1, OtherCounters DEF GoodHeap
<1>3. /\ \A d \in K : d \in F <=> d \notin {head, tail} /\ ~h.used[d]
      /\ F \subseteq K
      /\ \A d \in UsedOf(h) : d \in K /\ h.used[d]
      /\ \A d \in K : d \in Addr
      /\ \A d \in F : h.used[h.all.next[d]]
      /\ h.used[tail]
  BY DEF FreeOf, UsedOf, ChunksOf, GoodHeap, Separated
<1>4. CASE h.used[n]
  <2>1. g = h1
    BY <1>4 DEF MergeNext
  <2> HIDE DEF g
  <2>2. n # c
    BY <1>1
  <2>3. NextUsed(h, g, c, K, F)
    BY <1>1, <1>2, <1>3, <1>4, <2>1, <2>2 DEF NextUsed
  <2> HIDE DEF K, F
  <2> QED
    BY <2>3 DEF g
<1>5. CASE ~h.used[n]
  <2> DEFINE h2 == heap_remove_free(h1, n)
             K2 == Without(K, n)
             F2 == Without(F, n)
  <2>1. g = MergeAway(h2, n)
    BY <1>5 DEF MergeNext
  <2>2. n \in F /\ n # tail /\ n # head
    BY <1>1, <1>3, <1>5
  <2> HIDE DEF K, F, n, g
  <2>3. Good(h2, K, F2) /\ h2.all = h1.all /\ h2.used = h1.used /\ h2.mem_meta = h1.mem_meta
    BY <1>2, <2>2, HeapRemoveFreeGood
  <2> HIDE DEF h2
  <2>4. /\ h2.all.prev[n] \notin F2 /\ n \notin F2 /\ h2.mem_meta = MetaOf(K)
        /\ n \in K \ {head, tail}
    BY <1>1, <1>2, <2>2, <2>3 DEF Without
  <2> HIDE DEF F2
  <2>5. /\ Good(g, K2, F2) /\ g.mem_meta = MetaOf(K2)
        /\ FlagsBut(g.used, h.used, n, FALSE)
        /\ MergeLinks(g.all.next, g.all.prev, h.all.next, h.all.prev, n)
    <3> DEFINE m == MergeAway(h2, n)
    <3>1. /\ Good(m, Without(K, n), F2) /\ m.mem_meta = MetaOf(Without(K, n))
          /\ FlagsBut(m.used, h2.used, n, FALSE)
          /\ MergeLinks(m.all.next, m.all.prev, h2.all.next, h2.all.prev, n)
      BY <2>3, <2>4, MergeGood
    <3> HIDE DEF m
    <3>2. g = m
      BY <2>1 DEF m
    <3> QED
      BY <2>3, <3>1, <3>2
  <2>6. /\ \A d \in K2 : d \in K /\ d # n
        /\ \A d \in K : d # n => d \in K2
        /\ \A d \in K2 : d \in F2 <=> d \in F
    BY DEF Without, K2, F2
  <2> HIDE DEF K2
  <2>7. \A d \in K2 : g.used[d] = h.used[d]
    BY <1>3, <2>5, <2>6 DEF FlagsBut
  <2>8. \A d \in K2 : g.all.next[d] = IF d = c THEN h.all.next[n] ELSE h.all.next[d]
    BY <1>1, <1>3, <2>5, <2>6, ZenonT(60) DEF MergeLinks
  <2>9. g.all.prev[c] = p
    <3>1. c # n /\ c # h.all.next[n]
      BY <1>1, <2>2
    <3> QED
      BY <1>1, <2>5, <3>1 DEF MergeLinks
  <2>10. c \in K2 /\ p \in K2 /\ h.all.next[n] # c
    BY <1>1, <2>2, <2>6
  <2>11. h.used[g.all.next[c]] /\ g.all.next[c] # c
    BY <1>3, <2>2, <2>8, <2>10
  <2>12. \A d \in UsedOf(h) : d \in K2
    BY <1>3, <1>5, <2>6
  <2>13. \A d \in K2 : d # c => g.all.next[d] = h.all.next[d]
    BY <2>8
  <2>14. NextUsed(h, g, c, K2, F2)
    BY <2>5, <2>6, <2>7, <2>9, <2>10, <2>11, <2>12, <2>13 DEF NextUsed, K, F
  <2> QED
    BY <2>14 DEF g, n
<1> QED
  BY <1>4, <1>5

\* The freed chunk is put on the list of its class.
LEMMA FreeAlone ==
  ASSUME NEW h, GoodHeap(h), NEW c \in UsedOf(h), h.used[h.all.prev[c]],
         NEW g, NEW K, NEW F, NextUsed(h, g, c, K, F)
  PROVE  LET r == heap_push_free([g EXCEPT !.used[c] = FALSE, !.free = dlist_init(@, c)], c)
         IN  Coalesced(h, r, c, K, With(F, c))
<1> DEFINE f == dlist_init(g.free, c)
           g1 == [g EXCEPT !.used[c] = FALSE, !.free = f]
           r == heap_push_free(g1, c)
<1>1. /\ Good(g, K, F) /\ g.mem_meta = MetaOf(K)
      /\ K \subseteq ChunksOf(h) /\ c \in K
      /\ \A d \in K : g.used[d] = h.used[d]
      /\ \A d \in K : d # c => g.all.next[d] = h.all.next[d]
      /\ \A d \in UsedOf(h) : d \in K
      /\ \A d \in K : d \in F <=> d \in FreeOf(h)
      /\ h.used[g.all.next[c]] /\ g.all.next[c] # c
  BY DEF NextUsed
<1>2. c \in ChunksOf(h) \ {head, tail} /\ c \in Addr /\ c \notin FreeOf(h)
  BY UsedChunk
<1>3. /\ g \in HeapType /\ g.free \in Links /\ g.used \in [Addr -> BOOLEAN]
      /\ Lists(g.free, g.free_chunk, F, ClassMap(g.all.next))
      /\ F \subseteq K /\ c \notin F /\ \A d \in K : d \in Addr
  BY <1>1, <1>2 DEF Good, HeapType, Tiling
<1>4. /\ f \in Links /\ f.next[c] = c /\ f.prev[c] = c
      /\ \A d \in F : f.next[d] = g.free.next[d] /\ f.prev[d] = g.free.prev[d]
  BY <1>2, <1>3, InitLinks
<1> HIDE DEF f
<1>5. /\ g1 \in HeapType /\ g1.all = g.all /\ g1.free = f
      /\ g1.used = [g.used EXCEPT ![c] = FALSE]
      /\ g1.free_chunk = g.free_chunk /\ g1.mem_meta = g.mem_meta
  BY <1>3, <1>4 DEF HeapType
<1> HIDE DEF g1
<1>6. Lists(f, g.free_chunk, F, ClassMap(g.all.next))
  BY <1>3, <1>4, ListFrame
<1>7. Good(g1, K, F)
  BY <1>1, <1>5, <1>6 DEF Good
<1>8. /\ Good(r, K, With(F, c)) /\ r.all = g1.all /\ r.used = g1.used
      /\ r.mem_meta = g1.mem_meta
  BY <1>1, <1>2, <1>3, <1>4, <1>5, <1>7, HeapPushFreeGood
<1> HIDE DEF r
<1>9. \A d \in Addr : r.used[d] = IF d = c THEN FALSE ELSE g.used[d]
  BY <1>3, <1>5, <1>8
<1>10. \A d \in K : r.used[d] <=> h.used[d] /\ d # c
  BY <1>1, <1>3, <1>9
<1>11. \A d \in K : r.used[d] => r.all.next[d] = h.all.next[d]
  BY <1>1, <1>5, <1>8, <1>10
<1>12. \A d \in K : d \in With(F, c) <=> d \notin {head, tail} /\ ~r.used[d]
  BY <1>1, <1>2, <1>10 DEF FreeOf, With
<1>13. ASSUME NEW d \in With(F, c) PROVE r.used[r.all.next[d]]
  <2>1. r.all.next[d] \in K /\ d \in K
    BY <1>1, <1>3, <1>5, <1>8 DEF Good, Tiling, With
  <2>2. CASE d = c
    BY <1>1, <1>5, <1>8, <1>10, <2>1, <2>2
  <2>3. CASE d # c
    <3>1. d \in FreeOf(h) /\ g.all.next[d] = h.all.next[d]
      BY <1>1, <2>1, <2>3, <1>3 DEF With
    <3>2. h.used[h.all.next[d]] /\ ~h.used[d]
      BY <3>1, FreeChunk
    <3>3. h.all.next[d] # c
      <4>1. h.all.prev[h.all.next[d]] = d
        BY <1>1, <2>1 DEF GoodHeap, Good, Tiling
      <4> QED
        BY <3>2, <4>1
    <3> QED
      BY <1>5, <1>8, <1>10, <2>1, <3>1, <3>2, <3>3
  <2> QED
    BY <2>2, <2>3
<1>14. r.mem_meta = MetaOf(K)
  BY <1>1, <1>5, <1>8
<1>15. Coalesced(h, r, c, K, With(F, c))
  BY <1>1, <1>8, <1>10, <1>11, <1>12, <1>13, <1>14 DEF Coalesced
<1> QED
  BY <1>15 DEF r, g1, f

\* The freed chunk disappears into the free chunk before it.
LEMMA FreeToPrev ==
  ASSUME NEW h, GoodHeap(h), NEW c \in UsedOf(h), ~h.used[h.all.prev[c]],
         NEW g, NEW K, NEW F, NextUsed(h, g, c, K, F)
  PROVE  LET p == h.all.prev[c]
         IN  Coalesced(h, MergePrev(g, p, c), c, Without(K, c), With(Without(F, p), p))
<1> DEFINE p == h.all.prev[c]
           g1 == heap_remove_free(g, p)
           g2 == MergeAway(g1, c)
           r == heap_push_free(g2, p)
           K2 == Without(K, c)
           F1 == Without(F, p)
           F2 == With(F1, p)
<1>1. /\ Good(g, K, F) /\ g.mem_meta = MetaOf(K)
      /\ K \subseteq ChunksOf(h) /\ c \in K
      /\ \A d \in K : g.used[d] = h.used[d]
      /\ \A d \in K : d # c => g.all.next[d] = h.all.next[d]
      /\ \A d \in UsedOf(h) : d \in K
      /\ \A d \in K : d \in F <=> d \in FreeOf(h)
      /\ h.used[g.all.next[c]] /\ g.all.next[c] # c
      /\ g.all.prev[c] = p /\ p \in K
  BY DEF NextUsed
<1>2. /\ c \in ChunksOf(h) \ {head, tail} /\ c \in Addr /\ c \notin FreeOf(h)
      /\ p \in ChunksOf(h) /\ p \in Addr /\ p # tail /\ h.used[c] /\ p # c
  BY UsedChunk
<1>3. p # head
  BY DEF GoodHeap, Separated
<1>4. p \in FreeOf(h)
  BY <1>2, <1>3 DEF FreeOf
<1>5. /\ F \subseteq K /\ c \notin F /\ p \in F /\ \A d \in K : d \in Addr
      /\ p \in K \ {head, tail} /\ c \in K \ {head, tail}
      /\ \A d \in K : g.all.next[d] \in K
  BY <1>1, <1>2, <1>3, <1>4 DEF Good, Tiling
<1> HIDE DEF p
<1>6. /\ Good(g1, K, F1) /\ g1.all = g.all /\ g1.used = g.used
      /\ g1.free.next[p] = p /\ g1.free.prev[p] = p /\ g1.mem_meta = g.mem_meta
  BY <1>1, <1>5, HeapRemoveFreeGood
<1> HIDE DEF g1
<1>7. g1.all.prev[c] \notin F1 /\ c \notin F1 /\ p \notin F1 /\ g1.mem_meta = MetaOf(K)
  BY <1>1, <1>5, <1>6 DEF Without
<1> HIDE DEF F1
<1>8. /\ Good(g2, K2, F1) /\ g2.mem_meta = MetaOf(K2)
      /\ FlagsBut(g2.used, g1.used, c, FALSE)
      /\ MergeLinks(g2.all.next, g2.all.prev, g1.all.next, g1.all.prev, c)
      /\ SameFree(g2.free, g1.free, c)
  BY <1>5, <1>6, <1>7, MergeGood
<1> HIDE DEF g2
<1>9. g2.free.next[p] = p /\ g2.free.prev[p] = p
  BY <1>2, <1>6, <1>8 DEF SameFree
<1>10. p \in K2 \ {head, tail}
  BY <1>2, <1>5 DEF Without
<1>11. /\ \A d \in K2 : d \in K /\ d # c
       /\ \A d \in K : d # c => d \in K2
       /\ \A d : d \in F2 <=> d \in F
  BY <1>5 DEF Without, With, K2, F1
<1> HIDE DEF K2
<1>12. /\ Good(r, K2, F2) /\ r.all = g2.all /\ r.used = g2.used
       /\ r.mem_meta = g2.mem_meta
  BY <1>7, <1>8, <1>9, <1>10, HeapPushFreeGood
<1>13. MergePrev(g, p, c) = r
  BY DEF MergePrev, g2, g1
<1> HIDE DEF r, F2
<1>14. \A d \in K2 : r.used[d] <=> h.used[d] /\ d # c
  <2>1. FlagsBut(r.used, g.used, c, FALSE)
    BY <1>6, <1>8, <1>12
  <2> QED
    BY <1>1, <1>5, <1>11, <2>1 DEF FlagsBut
<1>15. \A d \in K2 : r.all.next[d] = IF d = p THEN g.all.next[c] ELSE h.all.next[d]
  <2>1. MergeLinks(r.all.next, r.all.prev, g.all.next, g.all.prev, c)
    BY <1>6, <1>8, <1>12
  <2>2. \A d \in K2 : r.all.next[d] = IF d = p THEN g.all.next[c] ELSE g.all.next[d]
    BY <1>1, <1>5, <1>11, <2>1 DEF MergeLinks
  <2> QED
    BY <1>1, <1>11, <2>2
<1>16. ~h.used[p]
  BY DEF p
<1>17. \A d \in K2 : r.used[d] => r.all.next[d] = h.all.next[d]
  BY <1>14, <1>15, <1>16
<1>18. \A d \in K2 : d \in F2 <=> d \notin {head, tail} /\ ~r.used[d]
  BY <1>1, <1>11, <1>14 DEF FreeOf
<1>19. ASSUME NEW d \in F2 PROVE r.used[r.all.next[d]]
  <2>1. d \in K2 /\ r.all.next[d] \in K2 /\ d \in K /\ d \in FreeOf(h)
    BY <1>1, <1>5, <1>11, <1>12 DEF Good, Tiling
  <2>2. CASE d = p
    BY <1>1, <1>14, <1>15, <2>1, <2>2
  <2>3. CASE d # p
    <3>1. h.used[h.all.next[d]]
      BY <2>1, FreeChunk
    <3>2. h.all.next[d] # c
      <4>1. h.all.prev[h.all.next[d]] = d
        BY <1>1, <2>1 DEF GoodHeap, Good, Tiling
      <4> QED
        BY <2>3, <4>1 DEF p
    <3> QED
      BY <1>14, <1>15, <2>1, <2>3, <3>1, <3>2
  <2> QED
    BY <2>2, <2>3
<1>20. r.mem_meta = MetaOf(K2) /\ K2 \subseteq ChunksOf(h) /\ \A d \in UsedOf(h) : d # c => d \in K2
  BY <1>1, <1>8, <1>11, <1>12
<1>21. Coalesced(h, r, c, K2, F2)
  BY <1>12, <1>14, <1>17, <1>18, <1>19, <1>20 DEF Coalesced
<1> QED
  BY <1>13, <1>21 DEF K2, F2, F1, p

(***************************************************************************)
(* kfree of a used chunk leaves a good heap with one used chunk less, and  *)
(* the other used chunks where they are.                                   *)
(***************************************************************************)
LEMMA KfreeGood ==
  ASSUME NEW h, GoodHeap(h), NEW c \in UsedOf(h), NEW ptr, ptr = c + HEADER_SIZE
  PROVE  Frees(h, Kfree(h, ptr), c)
<1> DEFINE n == h.all.next[c]
           p == h.all.prev[c]
           m == Add(h.mem_used, 0 - heap_chunk_size(h, c))
           h1 == [h EXCEPT !.mem_used = m]
           g == MergeNext(h1, n)
           g1 == [g EXCEPT !.used[c] = FALSE, !.free = dlist_init(@, c)]
           r == IF ~h.used[p] THEN MergePrev(g, p, c) ELSE heap_push_free(g1, c)
<1>1. c \in ChunksOf(h) \ {head, tail} /\ c \in Nat /\ Good(h, ChunksOf(h), FreeOf(h))
  BY UsedChunk
<1>2. ptr - HEADER_SIZE = c
  BY <1>1, SizesPositive
<1>3. Kfree(h, ptr) = r
  BY <1>2 DEF Kfree
<1>4. m \in Counter
  BY <1>1, SizeInt, AddType
<1> HIDE DEF m
<1>5. /\ h1 \in HeapType /\ h1.all = h.all /\ h1.free = h.free /\ h1.used = h.used
      /\ h1.free_chunk = h.free_chunk /\ h1.mem_meta = h.mem_meta
  BY <1>1, <1>4, SetMemUsed DEF Good
<1> HIDE DEF h1, r
<1>6. PICK K, F : NextUsed(h, g, c, K, F)
  BY <1>5, MergeNextGood
<1> HIDE DEF g
<1>7. CASE h.used[p]
  <2>1. r = heap_push_free(g1, c)
    BY <1>7 DEF r
  <2>2. Coalesced(h, heap_push_free(g1, c), c, K, With(F, c))
    BY <1>6, <1>7, FreeAlone
  <2> QED
    BY <1>3, <2>1, <2>2, CoalescedFrees
<1>8. CASE ~h.used[p]
  <2>1. r = MergePrev(g, p, c)
    BY <1>8 DEF r
  <2>2. Coalesced(h, MergePrev(g, p, c), c, Without(K, c), With(Without(F, p), p))
    BY <1>6, <1>8, FreeToPrev
  <2> QED
    BY <1>3, <2>1, <2>2, CoalescedFrees
<1> QED
  BY <1>7, <1>8

-----------------------------------------------------------------------------
(***************************************************************************)
(* mrvn_heap_init                                                          *)
(***************************************************************************)

\* The links l2 are l with d linked to itself.
SingleAt(l2, l, d) ==
  \A x \in Addr : /\ l2.next[x] = IF x = d THEN d ELSE l.next[x]
                  /\ l2.prev[x] = IF x = d THEN d ELSE l.prev[x]

\* dlist_init links a chunk to itself.
LEMMA InitSingle ==
  ASSUME NEW l \in Links, NEW d \in Addr
  PROVE  SingleAt(dlist_init(l, d), l, d)
  BY InitLinks DEF SingleAt

\* Three list heads at head, first and tail, and nothing else.
LEMMA InitChunks ==
  LET h1 == heap_chunk_init(heap_chunk_init(heap_chunk_init(Blank, head), first), tail)
  IN  /\ h1 \in HeapType
      /\ \A x \in Addr :
           /\ h1.all.next[x] = IF x \in {head, first, tail} THEN x ELSE NULL
           /\ h1.all.prev[x] = IF x \in {head, first, tail} THEN x ELSE NULL
      /\ h1.free.next[first] = first /\ h1.free.prev[first] = first
      /\ \A n \in Sizes : h1.free_chunk[n] = NULL
      /\ \A x \in Addr : ~h1.used[x]
<1> DEFINE b1 == heap_chunk_init(Blank, head)
           b2 == heap_chunk_init(b1, first)
           h1 == heap_chunk_init(b2, tail)
<1>1. head \in Addr /\ tail \in Addr /\ first \in Addr
  BY AlignedSizes
<1>2. 0 \in Counter
  BY SizesPositive DEF Counter
<1>3. /\ Blank \in HeapType
      /\ \A x \in Addr : Blank.all.next[x] = NULL /\ Blank.all.prev[x] = NULL
      /\ \A x \in Addr : Blank.used[x] = FALSE
      /\ \A n \in Sizes : Blank.free_chunk[n] = NULL
  <2> DEFINE none == [a \in Addr |-> NULL]
             l == [next |-> none, prev |-> none]
             u == [a \in Addr |-> FALSE]
             fc == [n \in Sizes |-> NULL]
  <2>1. /\ none \in Link /\ u \in [Addr -> BOOLEAN] /\ fc \in Heads
        /\ \A x \in Addr : none[x] = NULL /\ u[x] = FALSE
        /\ \A n \in Sizes : fc[n] = NULL
    BY DEF Link, Heads
  <2>2. Blank = [all |-> l, free |-> l, used |-> u, free_chunk |-> fc,
                 mem_free |-> 0, mem_used |-> 0, mem_meta |-> 0]
    BY DEF Blank
  <2> HIDE DEF none, u, fc
  <2>3. l \in Links /\ l.next = none /\ l.prev = none
    BY <2>1 DEF Links
  <2> HIDE DEF l
  <2>4. Blank \in HeapType /\ Blank.all = l /\ Blank.used = u /\ Blank.free_chunk = fc
    BY <1>2, <2>1, <2>2, <2>3 DEF HeapType
  <2> QED
    BY <2>1, <2>3, <2>4
<1>4. /\ b1 \in HeapType /\ b1.all = dlist_init(Blank.all, head)
      /\ b1.used = [Blank.used EXCEPT ![head] = FALSE]
      /\ b1.free_chunk = Blank.free_chunk
  BY <1>1, <1>3, ChunkInit
<1> HIDE DEF b1
<1>5. /\ b2 \in HeapType /\ b2.all = dlist_init(b1.all, first)
      /\ b2.free = dlist_init(b1.free, first)
      /\ b2.used = [b1.used EXCEPT ![first] = FALSE]
      /\ b2.free_chunk = b1.free_chunk
  BY <1>1, <1>4, ChunkInit
<1> HIDE DEF b2
<1>6. /\ h1 \in HeapType /\ h1.all = dlist_init(b2.all, tail)
      /\ h1.free = dlist_init(b2.free, tail)
      /\ h1.used = [b2.used EXCEPT ![tail] = FALSE]
      /\ h1.free_chunk = b2.free_chunk
  BY <1>1, <1>5, ChunkInit
<1> HIDE DEF h1
<1>7. Blank.all \in Links /\ b1.all \in Links /\ b2.all \in Links
      /\ b1.free \in Links /\ b2.free \in Links
  BY <1>3, <1>4, <1>5 DEF HeapType
<1>8. SingleAt(b1.all, Blank.all, head)
  BY <1>1, <1>4, <1>7, InitSingle
<1>9. SingleAt(b2.all, b1.all, first) /\ SingleAt(b2.free, b1.free, first)
  BY <1>1, <1>5, <1>7, InitSingle
<1>10. SingleAt(h1.all, b2.all, tail) /\ SingleAt(h1.free, b2.free, tail)
  BY <1>1, <1>6, <1>7, InitSingle
<1>11. \A x \in Addr :
         /\ h1.all.next[x] = IF x \in {head, first, tail} THEN x ELSE NULL
         /\ h1.all.prev[x] = IF x \in {head, first, tail} THEN x ELSE NULL
  BY <1>3, <1>8, <1>9, <1>10 DEF SingleAt
<1>12. b2.free.next[first] = first /\ b2.free.prev[first] = first
  BY <1>1, <1>9 DEF SingleAt
<1>13. h1.free.next[first] = first /\ h1.free.prev[first] = first
  BY <1>1, <1>10, <1>12 DEF SingleAt
<1>14. \A x \in Addr : ~h1.used[x]
  <2>1. /\ Blank.used \in [Addr -> BOOLEAN] /\ b1.used \in [Addr -> BOOLEAN]
        /\ b2.used \in [Addr -> BOOLEAN]
    BY <1>3, <1>4, <1>5 DEF HeapType
  <2>2. \A x \in Addr : b1.used[x] = FALSE
    BY <1>3, <1>4, <2>1
  <2>3. \A x \in Addr : b2.used[x] = FALSE
    BY <1>5, <2>1, <2>2
  <2>4. \A x \in Addr : h1.used[x] = FALSE
    BY <1>6, <2>1, <2>3
  <2> QED
    BY <2>4
<1>15. \A n \in Sizes : h1.free_chunk[n] = NULL
  BY <1>3, <1>4, <1>5, <1>6
<1> QED
  BY <1>6, <1>11, <1>13, <1>14, <1>15 DEF h1, b2, b1

\* The heap starts with one free chunk between its ends.
LEMMA InitGood ==
  GoodHeap(mrvn_heap_init) /\ UsedOf(mrvn_heap_init) = {}
<1> DEFINE h1 == heap_chunk_init(heap_chunk_init(heap_chunk_init(Blank, head), first), tail)
           a2 == dlist_insert_after(h1.all, head, first)
           a3 == dlist_insert_after(a2, first, tail)
           h3 == [h1 EXCEPT !.all = a3, !.used[head] = TRUE, !.used[tail] = TRUE]
           g == PushFree(h3, first)
           m1 == Add(0, heap_chunk_size(h3, first) - HEADER_SIZE)
           m2 == 2 * ChunkStruct + HEADER_SIZE
           r == [g EXCEPT !.mem_free = m1, !.mem_meta = m2]
           K == {head, first, tail}
           F == With({}, first)
<1>1. /\ h1 \in HeapType
      /\ \A x \in Addr : /\ h1.all.next[x] = IF x \in K THEN x ELSE NULL
                         /\ h1.all.prev[x] = IF x \in K THEN x ELSE NULL
      /\ h1.free.next[first] = first /\ h1.free.prev[first] = first
      /\ \A n \in Sizes : h1.free_chunk[n] = NULL
      /\ \A x \in Addr : ~h1.used[x]
  BY InitChunks
<1>2. mrvn_heap_init = r
  BY DEF mrvn_heap_init
<1> HIDE DEF h1, r
<1>3. /\ head \in Addr /\ tail \in Addr /\ first \in Addr
      /\ head = 0 /\ tail = HeapSize - ChunkStruct /\ first = ChunkStruct
      /\ HeapSize \in Nat /\ ChunkStruct \in Nat \ {0} /\ HeapSize > 3 * ChunkStruct
      /\ tail % ALIGN = 0 /\ head % ALIGN = 0 /\ first % ALIGN = 0
  BY AlignedSizes, SizesPositive
<1>4. head < first /\ first < tail /\ first >= head + ChunkStruct /\ tail >= first + ChunkStruct
  BY <1>3
<1>5. head # first /\ first # tail /\ head # tail
  BY <1>3
<1>6. /\ h1.all \in Links /\ h1.all.next[head] = head /\ h1.all.prev[first] = first
      /\ h1.used \in [Addr -> BOOLEAN]
  BY <1>1, <1>3 DEF HeapType
<1>7. /\ a2 \in Links
      /\ \A x \in Addr :
           /\ a2.next[x] = IF x = head THEN first
                           ELSE IF x = first THEN head ELSE h1.all.next[x]
           /\ a2.prev[x] = IF x = head THEN first
                           ELSE IF x = first THEN head ELSE h1.all.prev[x]
  BY <1>3, <1>5, <1>6, InsertAfterLinks
<1> HIDE DEF a2
<1>8. a2.next[first] = head /\ a2.prev[tail] = tail
  BY <1>1, <1>3, <1>5, <1>7
<1>9. /\ a3 \in Links
      /\ \A x \in Addr :
           /\ a3.next[x] = IF x = first THEN tail
                           ELSE IF x = tail THEN head ELSE a2.next[x]
           /\ a3.prev[x] = IF x = head THEN tail
                           ELSE IF x = tail THEN first ELSE a2.prev[x]
  BY <1>3, <1>5, <1>7, <1>8, InsertAfterLinks
<1> HIDE DEF a3
<1>10. /\ \A x \in Addr : a3.next[x] = IF x = head THEN first ELSE IF x = first THEN tail
                                       ELSE IF x = tail THEN head ELSE NULL
       /\ \A x \in Addr : a3.prev[x] = IF x = head THEN tail ELSE IF x = first THEN head
                                       ELSE IF x = tail THEN first ELSE NULL
  BY <1>1, <1>3, <1>5, <1>7, <1>9
<1>11. /\ h3 \in HeapType /\ h3.all = a3 /\ h3.free = h1.free
       /\ h3.free_chunk = h1.free_chunk
       /\ h3.used = [[h1.used EXCEPT ![head] = TRUE] EXCEPT ![tail] = TRUE]
  BY <1>1, <1>3, <1>6, <1>9 DEF HeapType
<1> HIDE DEF h3
<1>12. Tiling(a3.next, a3.prev, K)
  <2>1. /\ a3.next[head] = first /\ a3.next[first] = tail /\ a3.next[tail] = head
        /\ a3.prev[head] = tail /\ a3.prev[first] = head /\ a3.prev[tail] = first
    BY <1>3, <1>5, <1>10
  <2>2. \A c \in Addr \ K : a3.next[c] = NULL
    BY <1>10
  <2>3. \A c \in K : /\ a3.next[c] \in K /\ a3.prev[a3.next[c]] = c
                     /\ a3.prev[c] \in K /\ a3.next[a3.prev[c]] = c
                     /\ c % ALIGN = 0
    BY <1>3, <2>1
  <2>4. \A c \in K \ {tail} : /\ a3.next[c] >= c + ChunkStruct
                              /\ \A d \in K : ~(c < d /\ d < a3.next[c])
    BY <1>3, <1>4, <2>1
  <2> QED
    BY <1>3, <2>1, <2>2, <2>3, <2>4 DEF Tiling
<1>13. Lists(h3.free, h3.free_chunk, {}, ClassMap(h3.all.next))
  BY <1>1, <1>11 DEF Lists, Class, Cycle
<1>14. Good(h3, K, {})
  BY <1>11, <1>12, <1>13 DEF Good
<1>15. /\ first \in K \ {head, tail} /\ first \notin {}
       /\ h3.free.next[first] = first /\ h3.free.prev[first] = first
  BY <1>1, <1>5, <1>11
<1> HIDE DEF K
<1>16. Good(g, K, F) /\ g.all = h3.all /\ g.used = h3.used
  BY <1>14, <1>15, PushFreeGood
<1> HIDE DEF g, F
<1>17. m1 \in Counter /\ m2 \in Counter /\ g \in HeapType
  <2>1. heap_chunk_size(h3, first) \in Int /\ HEADER_SIZE \in Int
    BY <1>14, <1>15, SizeInt
  <2>2. m1 \in Counter
    BY <2>1, AddType
  <2>3. m2 \in Counter
    BY SizesPositive DEF Counter
  <2> QED
    BY <1>16, <2>2, <2>3 DEF Good
<1> HIDE DEF m1, m2
<1>18. /\ r \in HeapType /\ r.all = g.all /\ r.free = g.free /\ r.used = g.used
       /\ r.free_chunk = g.free_chunk /\ r.mem_meta = m2
  BY <1>17 DEF HeapType, r
<1>19. Good(r, K, F)
  BY <1>16, <1>18, OtherCounters
<1>20. ChunksOf(r) = K
  BY <1>19, ChunksAre
<1>21. \A x \in Addr : r.used[x] = (x = head \/ x = tail)
  <2>1. h1.used \in [Addr -> BOOLEAN] /\ \A x \in Addr : h1.used[x] = FALSE
    BY <1>1, <1>6
  <2>2. \A x \in Addr : h3.used[x] = (x = head \/ x = tail)
    BY <1>3, <1>11, <2>1
  <2> QED
    BY <1>16, <1>18, <2>2
<1>22. FreeOf(r) = F /\ UsedOf(r) = {}
  BY <1>3, <1>5, <1>20, <1>21 DEF FreeOf, UsedOf, K, F, With
<1>23. r.mem_meta = MetaOf(K)
  <2>1. K \ {head, tail} = {first}
    BY <1>5 DEF K
  <2>2. Cardinality({first}) = 1
    BY FS_Singleton
  <2> QED
    BY <1>18, <2>1, <2>2, SizesPositive DEF MetaOf, m2
<1>24. Separated(r)
  <2>1. r.used[head] /\ r.used[tail]
    BY <1>3, <1>21
  <2>2. r.all.next[first] = tail
    BY <1>3, <1>5, <1>10, <1>11, <1>16, <1>18
  <2> QED
    BY <1>20, <2>1, <2>2 DEF Separated, K
<1> QED
  BY <1>2, <1>19, <1>20, <1>22, <1>23, <1>24 DEF GoodHeap

-----------------------------------------------------------------------------
(***************************************************************************)
(* The inductive invariant: the heap is good, and the clients own its used *)
(* chunks.                                                                 *)
(***************************************************************************)
Owned(h, L) ==
  /\ \A a \in L : /\ a \in [ptr : Addr, req : 0..HeapSize]
                  /\ a.ptr - HEADER_SIZE \in UsedOf(h)
                  /\ heap_chunk_size(h, a.ptr - HEADER_SIZE) >= a.req
  /\ \A c \in UsedOf(h) : \E a \in L : a.ptr = c + HEADER_SIZE
  /\ \A a, b \in L : a.ptr = b.ptr => a = b

HeapInv == /\ GoodHeap(heap)
           /\ Owned(heap, live)
           /\ ret \in Addr \cup {NULL}

\* What the client remembers of the block in chunk c.
Handle(c, size) == [ptr |-> c + HEADER_SIZE, req |-> size]

\* The payload of a used chunk lies inside the heap, on the alignment.
LEMMA Payload ==
  ASSUME NEW h, GoodHeap(h), NEW c \in UsedOf(h)
  PROVE  /\ c \in Nat /\ c + HEADER_SIZE \in Addr /\ c + HEADER_SIZE \in Nat
         /\ c + HEADER_SIZE - HEADER_SIZE = c
         /\ (c + HEADER_SIZE) % ALIGN = 0
         /\ heap_chunk_size(h, c) \in 1..HeapSize
         /\ c + HEADER_SIZE + heap_chunk_size(h, c) = h.all.next[c]
         /\ h.all.next[c] \in Nat /\ h.all.next[c] <= HeapSize - 1
<1> DEFINE K == ChunksOf(h)
           n == h.all.next[c]
<1>1. c \in K \ {head, tail} /\ Tiling(h.all.next, h.all.prev, K) /\ n \in K
  BY UsedChunk DEF Good
<1>2. /\ n - c - HEADER_SIZE \in 1..HeapSize /\ c \in Addr /\ n \in Nat
      /\ c + ChunkStruct <= n /\ c + HEADER_SIZE + (n - c - HEADER_SIZE) = n
  BY <1>1, SizeRange
<1>3. n <= tail /\ c \in Nat
  BY <1>1, TileOrder
<1>4. c % ALIGN = 0
  BY <1>1 DEF Tiling
<1>5. /\ HEADER_SIZE \in Nat \ {0} /\ MIN_SIZE \in Nat \ {0} /\ HeapSize \in Nat
      /\ ChunkStruct = HEADER_SIZE + MIN_SIZE /\ tail = HeapSize - ChunkStruct
      /\ HEADER_SIZE % ALIGN = 0
  BY SizesPositive, AlignedSizes
<1>6. (c + HEADER_SIZE) % ALIGN = 0
  BY <1>3, <1>4, <1>5, AlignedSum
<1>7. c + HEADER_SIZE \in Nat /\ c + HEADER_SIZE <= n /\ n <= HeapSize - 1
  BY <1>2, <1>3, <1>5
<1>8. c + HEADER_SIZE \in Addr /\ c + HEADER_SIZE - HEADER_SIZE = c
  BY <1>2, <1>3, <1>5, <1>7 DEF Addr
<1> QED
  BY <1>2, <1>3, <1>6, <1>7, <1>8 DEF heap_chunk_size

\* A new block has an owner.
LEMMA OwnedAlloc ==
  ASSUME NEW h, NEW L, GoodHeap(h), Owned(h, L), NEW r, NEW c, NEW room \in Nat,
         Allocates(h, r, c, room), NEW size \in 0..HeapSize, size <= room
  PROVE  Owned(r, With(L, Handle(c, size)))
<1> DEFINE new == Handle(c, size)
           L2 == With(L, new)
<1>1. /\ c \in FreeOf(h) /\ GoodHeap(r) /\ UsedOf(r) = UsedOf(h) \cup {c}
      /\ heap_chunk_size(r, c) >= room
      /\ \A u \in UsedOf(h) : heap_chunk_size(r, u) = heap_chunk_size(h, u)
  BY DEF Allocates
<1>2. c \in UsedOf(r) /\ c \notin UsedOf(h) /\ \A u \in UsedOf(h) : u \in UsedOf(r)
  BY <1>1 DEF FreeOf, UsedOf
<1>3. /\ c \in Nat /\ c + HEADER_SIZE \in Addr /\ c + HEADER_SIZE - HEADER_SIZE = c
      /\ heap_chunk_size(r, c) \in 1..HeapSize
  BY <1>1, <1>2, Payload
<1>4. new.ptr = c + HEADER_SIZE /\ new.req = size /\ new \in [ptr : Addr, req : 0..HeapSize]
  BY <1>3 DEF Handle
<1>0. new.ptr - HEADER_SIZE = c
  BY <1>3, <1>4, SizesPositive
<1> HIDE DEF new
<1>5. /\ \A a \in L : /\ a \in [ptr : Addr, req : 0..HeapSize]
                      /\ a.ptr - HEADER_SIZE \in UsedOf(h)
                      /\ heap_chunk_size(h, a.ptr - HEADER_SIZE) >= a.req
      /\ \A u \in UsedOf(h) : \E a \in L : a.ptr = u + HEADER_SIZE
      /\ \A a, b \in L : a.ptr = b.ptr => a = b
  BY DEF Owned
<1>6. \A a : a \in L2 <=> a \in L \/ a = new
  BY DEF With
<1> HIDE DEF L2
<1>7. heap_chunk_size(r, c) >= size
  BY <1>1, <1>3, SizesPositive
<1>8. ASSUME NEW a \in L2
      PROVE  /\ a \in [ptr : Addr, req : 0..HeapSize]
             /\ a.ptr - HEADER_SIZE \in UsedOf(r)
             /\ heap_chunk_size(r, a.ptr - HEADER_SIZE) >= a.req
  <2>1. CASE a = new
    <3>1. a.ptr - HEADER_SIZE = c /\ a.req = size
      BY <1>0, <1>4, <2>1
    <3> QED
      BY <1>2, <1>4, <1>7, <2>1, <3>1
  <2>2. CASE a \in L
    BY <1>1, <1>2, <1>5, <2>2
  <2> QED
    BY <1>6, <2>1, <2>2
<1>9. ASSUME NEW u \in UsedOf(r) PROVE \E a \in L2 : a.ptr = u + HEADER_SIZE
  BY <1>1, <1>4, <1>5, <1>6
<1>10. ASSUME NEW a \in L PROVE a.ptr # new.ptr
  <2>1. a.ptr - HEADER_SIZE # c
    BY <1>2, <1>5
  <2> QED
    BY <1>0, <2>1
<1>11. \A a, b \in L2 : a.ptr = b.ptr => a = b
  BY <1>5, <1>6, <1>10
<1> QED
  BY <1>8, <1>9, <1>11 DEF Owned, L2, new

\* A freed block has none any more.
LEMMA OwnedFree ==
  ASSUME NEW h, NEW L, GoodHeap(h), Owned(h, L), NEW a \in L, NEW r,
         Frees(h, r, a.ptr - HEADER_SIZE)
  PROVE  Owned(r, Without(L, a))
<1> DEFINE c == a.ptr - HEADER_SIZE
           L2 == Without(L, a)
<1>1. /\ \A b \in L : /\ b \in [ptr : Addr, req : 0..HeapSize]
                      /\ b.ptr - HEADER_SIZE \in UsedOf(h)
                      /\ heap_chunk_size(h, b.ptr - HEADER_SIZE) >= b.req
      /\ \A u \in UsedOf(h) : \E b \in L : b.ptr = u + HEADER_SIZE
      /\ \A b, d \in L : b.ptr = d.ptr => b = d
  BY DEF Owned
<1>2. /\ UsedOf(r) = UsedOf(h) \ {c}
      /\ \A u \in UsedOf(r) : heap_chunk_size(r, u) = heap_chunk_size(h, u)
  BY DEF Frees
<1>3. HEADER_SIZE \in Nat /\ \A x \in Addr : x \in Nat
  BY SizesPositive DEF Addr
<1>4. \A b : b \in L2 <=> b \in L /\ b # a
  BY DEF Without
<1>5. \A b \in L : b.ptr \in Nat
  BY <1>1, <1>3
<1>6. ASSUME NEW b \in L2
      PROVE  /\ b \in [ptr : Addr, req : 0..HeapSize]
             /\ b.ptr - HEADER_SIZE \in UsedOf(r)
             /\ heap_chunk_size(r, b.ptr - HEADER_SIZE) >= b.req
  <2>1. b \in L /\ b.ptr # a.ptr
    BY <1>1, <1>4
  <2>2. b.ptr - HEADER_SIZE # c
    BY <1>3, <1>5, <2>1
  <2>3. b.ptr - HEADER_SIZE \in UsedOf(r)
    BY <1>1, <1>2, <2>1, <2>2
  <2> QED
    BY <1>1, <1>2, <2>1, <2>3
<1>7. ASSUME NEW u \in UsedOf(r) PROVE \E b \in L2 : b.ptr = u + HEADER_SIZE
  <2>1. u \in UsedOf(h) /\ u # c
    BY <1>2
  <2>2. PICK b \in L : b.ptr = u + HEADER_SIZE
    BY <1>1, <2>1
  <2>3. u \in Nat
    BY <2>1, Payload
  <2>4. b # a
    BY <1>3, <2>1, <2>2, <2>3
  <2> QED
    BY <1>4, <2>2, <2>4
<1> QED
  BY <1>1, <1>4, <1>6, <1>7 DEF Owned

\* The owner of a block may ask for less or more of it.
LEMMA OwnedResize ==
  ASSUME NEW h, NEW L, Owned(h, L), NEW a \in L, NEW size \in 0..HeapSize,
         size <= heap_chunk_size(h, a.ptr - HEADER_SIZE)
  PROVE  Owned(h, With(Without(L, a), [a EXCEPT !.req = size]))
<1> DEFINE new == [a EXCEPT !.req = size]
           L2 == With(Without(L, a), new)
           c == a.ptr - HEADER_SIZE
<1>1. /\ \A b \in L : /\ b \in [ptr : Addr, req : 0..HeapSize]
                      /\ b.ptr - HEADER_SIZE \in UsedOf(h)
                      /\ heap_chunk_size(h, b.ptr - HEADER_SIZE) >= b.req
      /\ \A u \in UsedOf(h) : \E b \in L : b.ptr = u + HEADER_SIZE
      /\ \A b, d \in L : b.ptr = d.ptr => b = d
  BY DEF Owned
<1>2. new.ptr = a.ptr /\ new.req = size /\ new \in [ptr : Addr, req : 0..HeapSize]
  BY <1>1
<1> HIDE DEF new
<1>3. \A b : b \in L2 <=> (b \in L /\ b # a) \/ b = new
  BY DEF With, Without
<1> HIDE DEF L2
<1>4. c \in UsedOf(h)
  BY <1>1
<1>5. size \in Int /\ size <= heap_chunk_size(h, c)
  BY SizesPositive
<1> HIDE DEF c
<1>6. ASSUME NEW b \in L2
      PROVE  /\ b \in [ptr : Addr, req : 0..HeapSize]
             /\ b.ptr - HEADER_SIZE \in UsedOf(h)
             /\ heap_chunk_size(h, b.ptr - HEADER_SIZE) >= b.req
  <2>1. CASE b = new
    <3>1. b.ptr - HEADER_SIZE = c /\ b.req = size
      BY <1>2, <2>1 DEF c
    <3>2. heap_chunk_size(h, c) >= size
      BY DEF c
    <3> QED
      BY <1>2, <1>4, <2>1, <3>1, <3>2
  <2>2. CASE b \in L
    BY <1>1, <2>2
  <2> QED
    BY <1>3, <2>1, <2>2
<1>7. ASSUME NEW u \in UsedOf(h) PROVE \E b \in L2 : b.ptr = u + HEADER_SIZE
  BY <1>1, <1>2, <1>3
<1>8. \A b, d \in L2 : b.ptr = d.ptr => b = d
  BY <1>1, <1>2, <1>3
<1> QED
  BY <1>6, <1>7, <1>8 DEF Owned, L2, new

(***************************************************************************)
(* What a step can do: nothing to the heap, hand out a chunk, take one     *)
(* back, leave one to its owner, or move a block to a new chunk.           *)
(***************************************************************************)
Refused == heap' = heap /\ live' = live /\ ret' \in {ret, NULL}

Allocated(size) ==
  \E c \in FreeOf(heap) : /\ Allocates(heap, heap', c, Rounded(size))
                          /\ live' = With(live, Handle(c, size))
                          /\ ret' = c + HEADER_SIZE

Freed(a) == /\ Frees(heap, heap', a.ptr - HEADER_SIZE)
            /\ live' = Without(live, a) /\ ret' \in {ret, NULL}

Resized(a, size) == /\ size <= heap_chunk_size(heap, a.ptr - HEADER_SIZE)
                    /\ heap' = heap /\ ret' = a.ptr
                    /\ live' = With(Without(live, a), [a EXCEPT !.req = size])

Moved(a, size) ==
  \E g : \E c \in FreeOf(heap) :
    /\ size > heap_chunk_size(heap, a.ptr - HEADER_SIZE)
    /\ Allocates(heap, g, c, Rounded(size))
    /\ Frees(g, heap', a.ptr - HEADER_SIZE)
    /\ live' = Without(With(live, Handle(c, size)), a)
    /\ ret' = c + HEADER_SIZE

Outcome == \/ Refused
           \/ \E size \in 0..HeapSize : Allocated(size)
           \/ \E a \in live : Freed(a)
           \/ \E a \in live, size \in 0..HeapSize : Resized(a, size) \/ Moved(a, size)

\* A pointer that is returned is not NULL.
LEMMA PointerNotNull ==
  ASSUME NEW h, GoodHeap(h), NEW c \in FreeOf(h)
  PROVE  c + HEADER_SIZE # NULL /\ c \in Nat /\ c \notin UsedOf(h)
<1>1. c \in Addr /\ c \notin UsedOf(h)
  BY DEF FreeOf, UsedOf, ChunksOf
<1>2. c + HEADER_SIZE \in Nat /\ c \in Nat
  BY <1>1, SizesPositive DEF Addr
<1> QED
  BY <1>1, <1>2, SizesPositive

\* A live pointer points to a used chunk.
LEMMA LiveChunk ==
  ASSUME HeapInv, NEW a \in live
  PROVE  /\ a.ptr - HEADER_SIZE \in UsedOf(heap)
         /\ a.ptr = (a.ptr - HEADER_SIZE) + HEADER_SIZE /\ a.ptr \in Addr /\ a.ptr \in Nat
<1>1. a \in [ptr : Addr, req : 0..HeapSize] /\ a.ptr - HEADER_SIZE \in UsedOf(heap)
  BY DEF HeapInv, Owned
<1>2. a.ptr \in Addr /\ a.ptr \in Nat /\ HEADER_SIZE \in Nat
  BY <1>1, SizesPositive DEF Addr
<1> QED
  BY <1>1, <1>2

\* kmalloc refuses, or hands out a chunk.
LEMMA KmallocOutcome ==
  ASSUME HeapInv, NEW size \in 0..HeapSize, kmalloc(size)
  PROVE  Refused \/ Allocated(size)
<1> DEFINE r == Kmalloc(heap, size)
<1>1. heap' = r.h /\ ret' = r.ptr /\ live' = live \cup Given(r.ptr, size)
  BY DEF kmalloc
<1>2. \/ r.ptr = NULL /\ r.h = heap
      \/ \E c \in FreeOf(heap) : /\ r.ptr = c + HEADER_SIZE
                                 /\ Allocates(heap, r.h, c, Rounded(size))
  BY KmallocGood DEF HeapInv
<1> HIDE DEF r
<1>3. CASE r.ptr = NULL /\ r.h = heap
  BY <1>1, <1>3 DEF Given, Refused
<1>4. ASSUME NEW c \in FreeOf(heap), r.ptr = c + HEADER_SIZE,
             Allocates(heap, r.h, c, Rounded(size))
      PROVE  Allocated(size)
  <2>1. r.ptr # NULL
    BY <1>4, PointerNotNull DEF HeapInv
  <2>2. live' = With(live, Handle(c, size))
    BY <1>1, <1>4, <2>1 DEF Given, With, Handle
  <2> QED
    BY <1>1, <1>4, <2>2 DEF Allocated
<1> QED
  BY <1>2, <1>3, <1>4

\* krealloc frees the block, leaves it, moves it, or refuses.
LEMMA KreallocOutcome ==
  ASSUME HeapInv, NEW a \in live, NEW size \in 0..HeapSize, krealloc(a, size)
  PROVE  Refused \/ Freed(a) \/ Resized(a, size) \/ Moved(a, size)
<1> DEFINE r == Kmalloc(heap, size)
           o == a.ptr - HEADER_SIZE
           old_size == heap_chunk_size(heap, o)
<1>1. GoodHeap(heap) /\ o \in UsedOf(heap) /\ a.ptr = o + HEADER_SIZE /\ a.ptr \in Nat
  BY LiveChunk DEF HeapInv
<1>2. CASE size = 0 /\ heap' = Kfree(heap, a.ptr) /\ ret' = NULL /\ live' = live \ {a}
  <2>1. Frees(heap, heap', o)
    BY <1>1, <1>2, KfreeGood
  <2> QED
    BY <1>2, <2>1 DEF Freed, Without
<1>3. CASE /\ size # 0 /\ size <= old_size /\ ret' = a.ptr /\ UNCHANGED heap
           /\ live' = (live \ {a}) \cup {[a EXCEPT !.req = size]}
  BY <1>3 DEF Resized, With, Without
<1>4. CASE /\ size > old_size /\ ret' = r.ptr
           /\ heap' = IF r.ptr = NULL THEN r.h ELSE Kfree(r.h, a.ptr)
           /\ live' = IF r.ptr = NULL THEN live
                                      ELSE (live \ {a}) \cup Given(r.ptr, size)
  <2>1. \/ r.ptr = NULL /\ r.h = heap
        \/ \E c \in FreeOf(heap) : /\ r.ptr = c + HEADER_SIZE
                                   /\ Allocates(heap, r.h, c, Rounded(size))
    BY <1>1, KmallocGood
  <2> HIDE DEF r
  <2>2. CASE r.ptr = NULL /\ r.h = heap
    BY <1>4, <2>2 DEF Refused
  <2>3. ASSUME NEW c \in FreeOf(heap), r.ptr = c + HEADER_SIZE,
               Allocates(heap, r.h, c, Rounded(size))
        PROVE  Moved(a, size)
    <3>1. r.ptr # NULL /\ c \in Nat /\ c # o
      BY <1>1, <2>3, PointerNotNull
    <3>2. heap' = Kfree(r.h, a.ptr) /\ live' = (live \ {a}) \cup {Handle(c, size)}
      BY <1>4, <2>3, <3>1 DEF Given, Handle
    <3>3. Handle(c, size) # a
      <4>1. Handle(c, size).ptr = c + HEADER_SIZE
        BY DEF Handle
      <4>2. c + HEADER_SIZE # a.ptr
        BY <1>1, <3>1, SizesPositive
      <4> QED
        BY <4>1, <4>2
    <3>4. live' = Without(With(live, Handle(c, size)), a)
      BY <3>2, <3>3 DEF With, Without
    <3>5. GoodHeap(r.h) /\ o \in UsedOf(r.h)
      BY <1>1, <2>3 DEF Allocates
    <3>6. Frees(r.h, heap', o)
      BY <1>1, <3>2, <3>5, KfreeGood
    <3>7. size > old_size /\ ret' = c + HEADER_SIZE
      BY <1>4, <2>3
    <3> QED
      BY <2>3, <3>4, <3>6, <3>7 DEF Moved
  <2> QED
    BY <2>1, <2>2, <2>3
<1> QED
  BY <1>2, <1>3, <1>4 DEF krealloc

\* A step has one of the outcomes.
LEMMA StepOutcome ==
  ASSUME HeapInv, [Next]_vars PROVE Outcome
<1>1. CASE UNCHANGED vars
  BY <1>1 DEF vars, Outcome, Refused
<1>2. ASSUME NEW size \in Requests, kmalloc(size) PROVE Outcome
  <2>1. size \in 0..HeapSize
    BY SizesPositive
  <2> QED
    BY <1>2, <2>1, KmallocOutcome DEF Outcome
<1>3. ASSUME NEW size \in Requests, 2 * size <= HeapSize, kcalloc(2, size) PROVE Outcome
  <2>1. 2 * size \in 0..HeapSize
    BY <1>3, SizesPositive
  <2>2. kmalloc(2 * size)
    BY <1>3 DEF kcalloc
  <2> QED
    BY <2>1, <2>2, KmallocOutcome DEF Outcome
<1>4. ASSUME NEW a \in live, kfree(a) PROVE Outcome
  <2>1. /\ GoodHeap(heap) /\ a.ptr - HEADER_SIZE \in UsedOf(heap)
        /\ a.ptr = (a.ptr - HEADER_SIZE) + HEADER_SIZE
    BY LiveChunk DEF HeapInv
  <2>2. Frees(heap, heap', a.ptr - HEADER_SIZE)
    BY <1>4, <2>1, KfreeGood DEF kfree
  <2>3. Freed(a)
    BY <1>4, <2>2 DEF kfree, Freed, Without
  <2> QED
    BY <2>3 DEF Outcome
<1>5. ASSUME NEW a \in live, NEW size \in Requests, krealloc(a, size) PROVE Outcome
  <2>1. size \in 0..HeapSize
    BY SizesPositive
  <2> QED
    BY <1>5, <2>1, KreallocOutcome DEF Outcome
<1> QED
  BY <1>1, <1>2, <1>3, <1>4, <1>5 DEF Next

\* The invariant is inductive.
LEMMA HeapInvStep ==
  ASSUME HeapInv, [Next]_vars PROVE HeapInv'
<1>1. GoodHeap(heap) /\ Owned(heap, live) /\ ret \in Addr \cup {NULL}
  BY DEF HeapInv
<1>2. Outcome
  BY StepOutcome
<1>3. SUFFICES GoodHeap(heap') /\ Owned(heap', live') /\ ret' \in Addr \cup {NULL}
  BY DEF HeapInv
<1>4. CASE Refused
  BY <1>1, <1>4 DEF Refused
<1>5. ASSUME NEW size \in 0..HeapSize, NEW c \in FreeOf(heap), NEW g,
             Allocates(heap, g, c, Rounded(size))
      PROVE  /\ GoodHeap(g) /\ Owned(g, With(live, Handle(c, size)))
             /\ c + HEADER_SIZE \in Addr
  <2>1. Rounded(size) \in Nat /\ size <= Rounded(size)
    BY RoundedSize, SizesPositive
  <2>2. Owned(g, With(live, Handle(c, size)))
    BY <1>1, <1>5, <2>1, OwnedAlloc
  <2>3. GoodHeap(g) /\ c \in UsedOf(g)
    BY <1>5 DEF Allocates
  <2> QED
    BY <2>2, <2>3, Payload
<1>6. ASSUME NEW size \in 0..HeapSize, Allocated(size)
      PROVE  GoodHeap(heap') /\ Owned(heap', live') /\ ret' \in Addr \cup {NULL}
  <2>1. PICK c \in FreeOf(heap) : /\ Allocates(heap, heap', c, Rounded(size))
                                  /\ live' = With(live, Handle(c, size))
                                  /\ ret' = c + HEADER_SIZE
    BY <1>6 DEF Allocated
  <2> QED
    BY <1>5, <2>1
<1>7. ASSUME NEW a \in live, Freed(a)
      PROVE  GoodHeap(heap') /\ Owned(heap', live') /\ ret' \in Addr \cup {NULL}
  <2>1. /\ Frees(heap, heap', a.ptr - HEADER_SIZE)
        /\ live' = Without(live, a) /\ ret' \in {ret, NULL}
    BY <1>7 DEF Freed
  <2>2. Owned(heap', Without(live, a))
    BY <1>1, <2>1, OwnedFree
  <2> QED
    BY <1>1, <2>1, <2>2 DEF Frees
<1>8. ASSUME NEW a \in live, NEW size \in 0..HeapSize, Resized(a, size)
      PROVE  GoodHeap(heap') /\ Owned(heap', live') /\ ret' \in Addr \cup {NULL}
  <2>1. /\ size <= heap_chunk_size(heap, a.ptr - HEADER_SIZE)
        /\ heap' = heap /\ ret' = a.ptr
        /\ live' = With(Without(live, a), [a EXCEPT !.req = size])
    BY <1>8 DEF Resized
  <2>2. Owned(heap, With(Without(live, a), [a EXCEPT !.req = size]))
    BY <1>1, <2>1, OwnedResize
  <2>3. a.ptr \in Addr
    BY LiveChunk
  <2> QED
    BY <1>1, <2>1, <2>2, <2>3
<1>9. ASSUME NEW a \in live, NEW size \in 0..HeapSize, Moved(a, size)
      PROVE  GoodHeap(heap') /\ Owned(heap', live') /\ ret' \in Addr \cup {NULL}
  <2>1. PICK g : \E c \in FreeOf(heap) :
               /\ Allocates(heap, g, c, Rounded(size))
               /\ Frees(g, heap', a.ptr - HEADER_SIZE)
               /\ live' = Without(With(live, Handle(c, size)), a)
               /\ ret' = c + HEADER_SIZE
    BY <1>9 DEF Moved
  <2>2. PICK c \in FreeOf(heap) :
               /\ Allocates(heap, g, c, Rounded(size))
               /\ Frees(g, heap', a.ptr - HEADER_SIZE)
               /\ live' = Without(With(live, Handle(c, size)), a)
               /\ ret' = c + HEADER_SIZE
    BY <2>1
  <2> DEFINE L == With(live, Handle(c, size))
  <2>3. GoodHeap(g) /\ Owned(g, L) /\ c + HEADER_SIZE \in Addr
    BY <1>5, <2>2
  <2>4. a \in L
    BY DEF With
  <2> HIDE DEF L
  <2>5. Owned(heap', Without(L, a))
    BY <2>2, <2>3, <2>4, OwnedFree
  <2> QED
    BY <2>2, <2>3, <2>5 DEF Frees, L
<1> QED
  BY <1>2, <1>4, <1>6, <1>7, <1>8, <1>9 DEF Outcome

\* The invariant holds at the start.
LEMMA HeapInvInit ==
  ASSUME Init PROVE HeapInv
<1>1. GoodHeap(heap) /\ UsedOf(heap) = {} /\ live = {} /\ ret = NULL
  BY InitGood DEF Init
<1> QED
  BY <1>1 DEF HeapInv, Owned

(***************************************************************************)
(* The inductive invariant of the heap holds: after any sequence of        *)
(* kmalloc, kcalloc, kfree and krealloc the chunk list, the free lists, the*)
(* flags, the counter of header bytes and the clients agree.               *)
(***************************************************************************)
THEOREM HeapInvariant == Spec => []HeapInv
<1>1. Init => HeapInv
  BY HeapInvInit
<1>2. HeapInv /\ [Next]_vars => HeapInv'
  BY HeapInvStep
<1> QED
  BY <1>1, <1>2, PTL DEF Spec

-----------------------------------------------------------------------------
(***************************************************************************)
(* What the invariant says                                                 *)
(***************************************************************************)

\* The sets of the invariant are those of the properties.
LEMMA SameSets ==
  /\ ChunksOf(heap) = Chunks /\ FreeOf(heap) = FreeChunks
  /\ UsedOf(heap) = Inner \ FreeChunks /\ Inner = ChunksOf(heap) \ {head, tail}
<1>1. ChunksOf(heap) = Chunks
  BY DEF ChunksOf, Chunks
<1> QED
  BY <1>1 DEF FreeOf, UsedOf, FreeChunks, Inner

\* The types.
LEMMA InvTypeOK ==
  ASSUME HeapInv PROVE TypeOK
<1>1. heap \in HeapType
  BY DEF HeapInv, GoodHeap, Good
<1>2. live \subseteq [ptr : Addr, req : 0..HeapSize] /\ ret \in Addr \cup {NULL}
  BY DEF HeapInv, Owned
<1> QED
  BY <1>1, <1>2 DEF TypeOK, HeapType, Links, Link, Heads, Counter

\* The order of the chunks.
LEMMA InvTiles ==
  ASSUME HeapInv PROVE ChunksTileHeap
<1>1. Tiling(heap.all.next, heap.all.prev, Chunks)
  BY SameSets DEF HeapInv, GoodHeap, Good
<1> QED
  BY <1>1, InvTypeOK DEF ChunksTileHeap, Tiling

\* The free lists.
LEMMA InvFreeLists ==
  ASSUME HeapInv PROVE FreeListsExact
<1> DEFINE k == ClassMap(heap.all.next)
<1>1. /\ Lists(heap.free, heap.free_chunk, FreeChunks, k)
      /\ \A c \in FreeChunks : c \in Addr
  BY SameSets DEF HeapInv, GoodHeap, Good, Tiling
<1>2. \A c \in FreeChunks : k[c] = heap_chunk_slot[SizeOf(c)]
  BY <1>1 DEF ClassMap, SizeOf, heap_chunk_size
<1> HIDE DEF k
<1>3. SUFFICES ASSUME NEW n \in Sizes
      PROVE LET members == {c \in FreeChunks : heap_chunk_slot[SizeOf(c)] = n}
                next == heap.free.next
            IN  IF members = {} THEN heap.free_chunk[n] = NULL
                ELSE /\ heap.free_chunk[n] \in members
                     /\ \A c \in members : next[c] \in members /\ heap.free.prev[next[c]] = c
                     /\ \A S \in (SUBSET members) \ {{}} :
                          (\A c \in S : next[c] \in S) => S = members
  BY DEF FreeListsExact
<1> DEFINE members == {c \in FreeChunks : heap_chunk_slot[SizeOf(c)] = n}
<1>4. Class(FreeChunks, k, n) = members
  BY <1>2 DEF Class
<1>5. Cycle(heap.free.next, heap.free.prev, heap.free_chunk[n], members)
  BY <1>1, <1>4 DEF Lists
<1> HIDE DEF members
<1>6. IF members = {} THEN heap.free_chunk[n] = NULL
      ELSE /\ heap.free_chunk[n] \in members
           /\ \A c \in members : heap.free.next[c] \in members
                                 /\ heap.free.prev[heap.free.next[c]] = c
           /\ \A S \in (SUBSET members) \ {{}} :
                (\A c \in S : heap.free.next[c] \in S) => S = members
  <2>1. CASE members = {}
    BY <1>5, <2>1 DEF Cycle
  <2>2. CASE members # {}
    <3>1. OneCycle(heap.free.next, heap.free.prev, heap.free_chunk[n], members)
      BY <1>5, <2>2 DEF Cycle
    <3>2. ASSUME NEW S \in (SUBSET members) \ {{}}, \A c \in S : heap.free.next[c] \in S
          PROVE  S = members
      <4>1. S \in SUBSET members /\ S # {} /\ Closed(heap.free.next, S)
        BY <3>2 DEF Closed
      <4> QED
        BY <3>1, <4>1 DEF OneCycle
    <3>3. /\ heap.free_chunk[n] \in members
          /\ \A c \in members : heap.free.next[c] \in members
                                /\ heap.free.prev[heap.free.next[c]] = c
      BY <3>1 DEF OneCycle
    <3> QED
      BY <2>2, <3>2, <3>3
  <2> QED
    BY <2>1, <2>2
<1> QED
  BY <1>6 DEF members

\* The flags of neighbours.
LEMMA InvSeparated ==
  ASSUME HeapInv PROVE NoAdjacentFree
  BY SameSets DEF HeapInv, GoodHeap, Separated, NoAdjacentFree

\* The live blocks.
LEMMA InvLive ==
  ASSUME HeapInv PROVE LiveBlocksKept
<1>1. /\ \A a \in live : /\ a.ptr - HEADER_SIZE \in UsedOf(heap)
                         /\ heap_chunk_size(heap, a.ptr - HEADER_SIZE) >= a.req
      /\ \A c \in UsedOf(heap) : \E a \in live : a.ptr = c + HEADER_SIZE
      /\ \A a, b \in live : a.ptr = b.ptr => a = b
  BY DEF HeapInv, Owned
<1>2. ASSUME NEW c \in UsedOf(heap) PROVE \E a \in live : a.ptr - HEADER_SIZE = c
  <2>1. PICK a \in live : a.ptr = c + HEADER_SIZE
    BY <1>1
  <2>2. c \in Nat /\ HEADER_SIZE \in Nat
    BY Payload, SizesPositive DEF HeapInv
  <2>3. a.ptr - HEADER_SIZE = c
    BY <2>1, <2>2
  <2> QED
    BY <2>3
<1>3. {a.ptr - HEADER_SIZE : a \in live} = UsedOf(heap)
  BY <1>1, <1>2
<1> QED
  BY <1>1, <1>3, SameSets DEF LiveBlocksKept, SizeOf

\* The header bytes.
LEMMA InvMeta ==
  ASSUME HeapInv PROVE MetaExact
  BY SameSets DEF HeapInv, GoodHeap, MetaOf, MetaExact

-----------------------------------------------------------------------------
(***************************************************************************)
(* The chunks tile the heap after any sequence of splits and merges.       *)
(***************************************************************************)
THEOREM HeapChunksTile == Spec => []ChunksTileHeap
  BY HeapInvariant, InvTiles, PTL

(***************************************************************************)
(* The free lists are exact: class n of free_chunk is one cycle through the*)
(* free chunks whose size has slot n.                                      *)
(***************************************************************************)
THEOREM HeapFreeLists == Spec => []FreeListsExact
  BY HeapInvariant, InvFreeLists, PTL

(***************************************************************************)
(* kfree leaves no two neighbours free, and never merges the ends.         *)
(***************************************************************************)
THEOREM HeapNoAdjacentFree == Spec => []NoAdjacentFree
  BY HeapInvariant, InvSeparated, PTL

(***************************************************************************)
(* The used chunks are the live blocks, each with the room asked for.      *)
(***************************************************************************)
THEOREM HeapLiveBlocks == Spec => []LiveBlocksKept
  BY HeapInvariant, InvLive, PTL

(***************************************************************************)
(* mem_meta is the memory the headers take; it never wraps.                *)
(***************************************************************************)
THEOREM HeapMeta == Spec => []MetaExact
  BY HeapInvariant, InvMeta, PTL

\* A step of kmalloc that returns NULL.
LEMMA ShortStep ==
  ASSUME HeapInv
  PROVE  \A size \in Requests :
           (kmalloc(size) /\ ret' = NULL)
              => \A c \in FreeChunks : SizeOf(c) < 2 * Rounded(size)
<1> SUFFICES ASSUME NEW size \in Requests, kmalloc(size), ret' = NULL,
                    NEW c \in FreeChunks
             PROVE  SizeOf(c) < 2 * Rounded(size)
  OBVIOUS
<1> DEFINE r == Kmalloc(heap, size)
<1>1. size \in 0..HeapSize /\ GoodHeap(heap) /\ r.ptr = NULL /\ c \in FreeOf(heap)
  BY SizesPositive, SameSets DEF HeapInv, kmalloc
<1>2. \/ \A d \in FreeOf(heap) : heap_chunk_size(heap, d) < 2 * Rounded(size)
      \/ \E d \in FreeOf(heap) : r.ptr = d + HEADER_SIZE
  BY <1>1, KmallocGood
<1> HIDE DEF r
<1>3. \A d \in FreeOf(heap) : heap_chunk_size(heap, d) < 2 * Rounded(size)
  BY <1>1, <1>2, PointerNotNull
<1> QED
  BY <1>1, <1>3 DEF SizeOf

(***************************************************************************)
(* kmalloc gives up only when no free chunk is twice as large as the       *)
(* rounded request.                                                        *)
(***************************************************************************)
THEOREM HeapFailsOnlyWhenShort == Spec => FailsOnlyWhenShort
<1>1. HeapInv => [\A size \in Requests :
                    (kmalloc(size) /\ ret' = NULL)
                       => \A c \in FreeChunks : SizeOf(c) < 2 * Rounded(size)]_vars
  BY ShortStep
<1> QED
  BY <1>1, HeapInvariant, PTL DEF FailsOnlyWhenShort

-----------------------------------------------------------------------------
(***************************************************************************)
(* The refinement of the arena: a block is the payload of a used chunk.    *)
(***************************************************************************)
BlockAt(h, c) == [at |-> c + HEADER_SIZE, len |-> heap_chunk_size(h, c)]
BlocksOf(h) == {BlockAt(h, c) : c \in UsedOf(h)}

\* The clients' blocks are the payloads of the used chunks.
LEMMA BlocksAre ==
  ASSUME NEW h, GoodHeap(h), NEW L, Owned(h, L)
  PROVE  {[at |-> a.ptr, len |-> heap_chunk_size(h, a.ptr - HEADER_SIZE)] : a \in L}
           = BlocksOf(h)
<1> DEFINE b(a) == [at |-> a.ptr, len |-> heap_chunk_size(h, a.ptr - HEADER_SIZE)]
<1>1. /\ \A a \in L : a \in [ptr : Addr, req : 0..HeapSize]
                      /\ a.ptr - HEADER_SIZE \in UsedOf(h)
      /\ \A c \in UsedOf(h) : \E a \in L : a.ptr = c + HEADER_SIZE
  BY DEF Owned
<1>2. HEADER_SIZE \in Nat /\ \A x \in Addr : x \in Nat
  BY SizesPositive DEF Addr
<1>3. ASSUME NEW a \in L PROVE b(a) = BlockAt(h, a.ptr - HEADER_SIZE)
  <2>1. a.ptr \in Nat
    BY <1>1, <1>2
  <2>2. a.ptr - HEADER_SIZE + HEADER_SIZE = a.ptr
    BY <1>2, <2>1
  <2> QED
    BY <2>2 DEF BlockAt
<1>4. ASSUME NEW c \in UsedOf(h) PROVE \E a \in L : b(a) = BlockAt(h, c)
  <2>1. PICK a \in L : a.ptr = c + HEADER_SIZE
    BY <1>1
  <2>2. c \in Nat
    BY Payload
  <2>3. a.ptr - HEADER_SIZE = c
    BY <1>2, <2>1, <2>2
  <2> QED
    BY <1>3, <2>3
<1> HIDE DEF b
<1>5. {b(a) : a \in L} = {BlockAt(h, c) : c \in UsedOf(h)}
  BY <1>1, <1>3, <1>4
<1> QED
  BY <1>5 DEF b, BlocksOf

\* A block determines its chunk.
LEMMA BlockAtInjective ==
  ASSUME NEW h, GoodHeap(h), NEW r, NEW c \in Nat, NEW u \in UsedOf(h),
         BlockAt(r, c) = BlockAt(h, u)
  PROVE  c = u
<1>1. BlockAt(r, c).at = c + HEADER_SIZE /\ BlockAt(h, u).at = u + HEADER_SIZE
  BY DEF BlockAt
<1>2. u \in Nat /\ HEADER_SIZE \in Nat
  BY Payload, SizesPositive
<1> QED
  BY <1>1, <1>2

\* A block that may be handed out beside the blocks B, as the arena says.
NewBlock(b, B) == /\ b \in [at : 0..(HeapSize - 1), len : 1..HeapSize]
                  /\ b.at % ALIGN = 0
                  /\ b.at + b.len - 1 <= HeapSize - 1
                  /\ \A d \in B : ~(b.at < d.at + d.len /\ d.at < b.at + b.len)

\* Two used chunks do not overlap.
LEMMA NoOverlap ==
  ASSUME NEW h, GoodHeap(h), NEW c \in UsedOf(h), NEW u \in UsedOf(h), c # u
  PROVE  LET b == BlockAt(h, c)
             d == BlockAt(h, u)
         IN  ~(b.at < d.at + d.len /\ d.at < b.at + b.len)
<1>0. HEADER_SIZE \in Nat /\ HEADER_SIZE > 0
  BY SizesPositive
<1>1. /\ c \in Nat /\ c + HEADER_SIZE + heap_chunk_size(h, c) = h.all.next[c]
      /\ h.all.next[c] \in Nat
      /\ u \in Nat /\ u + HEADER_SIZE + heap_chunk_size(h, u) = h.all.next[u]
      /\ h.all.next[u] \in Nat
  BY Payload
<1>2. c \in ChunksOf(h) /\ u \in ChunksOf(h) /\ Tiling(h.all.next, h.all.prev, ChunksOf(h))
  BY UsedChunk DEF Good
<1>3. /\ c < u => h.all.next[c] <= u
      /\ u < c => h.all.next[u] <= c
  BY <1>2, TileOrder
<1>4. /\ ~(c + HEADER_SIZE < u + HEADER_SIZE + heap_chunk_size(h, u)
           /\ u + HEADER_SIZE < c + HEADER_SIZE + heap_chunk_size(h, c))
  BY <1>0, <1>1, <1>3
<1> QED
  BY <1>4 DEF BlockAt

\* The blocks after a chunk is handed out.
LEMMA AllocBlocks ==
  ASSUME NEW h, GoodHeap(h), NEW r, NEW c \in FreeOf(h), NEW size, Allocates(h, r, c, size)
  PROVE  /\ BlocksOf(r) = BlocksOf(h) \cup {BlockAt(r, c)}
         /\ BlockAt(r, c) \notin BlocksOf(h)
         /\ NewBlock(BlockAt(r, c), BlocksOf(h))
<1> DEFINE b == BlockAt(r, c)
<1>1. /\ GoodHeap(r) /\ UsedOf(r) = UsedOf(h) \cup {c}
      /\ \A u \in UsedOf(h) : heap_chunk_size(r, u) = heap_chunk_size(h, u)
  BY DEF Allocates
<1>2. c \notin UsedOf(h) /\ c \in Nat
  BY PointerNotNull
<1>3. \A u \in UsedOf(h) : BlockAt(r, u) = BlockAt(h, u)
  BY <1>1 DEF BlockAt
<1>4. BlocksOf(r) = BlocksOf(h) \cup {b}
  BY <1>1, <1>3 DEF BlocksOf
<1>5. b \notin BlocksOf(h)
  BY <1>2, BlockAtInjective DEF BlocksOf
<1>6. /\ c + HEADER_SIZE \in Addr /\ (c + HEADER_SIZE) % ALIGN = 0 /\ c + HEADER_SIZE \in Nat
      /\ heap_chunk_size(r, c) \in 1..HeapSize
      /\ c + HEADER_SIZE + heap_chunk_size(r, c) <= HeapSize - 1
  BY <1>1, Payload
<1>7. /\ b.at = c + HEADER_SIZE /\ b.len = heap_chunk_size(r, c)
      /\ b \in [at : 0..(HeapSize - 1), len : 1..HeapSize]
  BY <1>6 DEF BlockAt, Addr
<1>8. b.at + b.len - 1 <= HeapSize - 1
  BY <1>6, <1>7, SizesPositive
<1>9. ASSUME NEW d \in BlocksOf(h) PROVE ~(b.at < d.at + d.len /\ d.at < b.at + b.len)
  <2>1. PICK u \in UsedOf(h) : d = BlockAt(h, u)
    BY DEF BlocksOf
  <2>2. d = BlockAt(r, u) /\ u \in UsedOf(r) /\ u # c /\ c \in UsedOf(r)
    BY <1>1, <1>2, <1>3, <2>1
  <2> QED
    BY <1>1, <2>2, NoOverlap
<1>10. b.at % ALIGN = 0
  BY <1>6, <1>7
<1> HIDE DEF b
<1> QED
  BY <1>4, <1>5, <1>7, <1>8, <1>9, <1>10 DEF NewBlock, b

\* The blocks after a chunk is taken back.
LEMMA FreeBlocks ==
  ASSUME NEW h, GoodHeap(h), NEW r, NEW c \in UsedOf(h), Frees(h, r, c)
  PROVE  /\ BlocksOf(r) = BlocksOf(h) \ {BlockAt(h, c)}
         /\ BlockAt(h, c) \in BlocksOf(h)
<1>1. /\ UsedOf(r) = UsedOf(h) \ {c}
      /\ \A u \in UsedOf(r) : heap_chunk_size(r, u) = heap_chunk_size(h, u)
  BY DEF Frees
<1>2. \A u \in UsedOf(r) : BlockAt(r, u) = BlockAt(h, u)
  BY <1>1 DEF BlockAt
<1>3. c \in Nat
  BY Payload
<1>4. \A u \in UsedOf(h) : BlockAt(h, c) = BlockAt(h, u) => u = c
  BY <1>3, BlockAtInjective
<1> QED
  BY <1>1, <1>2, <1>4 DEF BlocksOf

\* A step of the heap is a step of the arena.
LEMMA ArenaStep ==
  ASSUME HeapInv, HeapInv', [Next]_vars
  PROVE  [Blocks!Next]_ClientBlocks
<1>1. /\ ClientBlocks = BlocksOf(heap) /\ ClientBlocks' = BlocksOf(heap')
      /\ GoodHeap(heap) /\ GoodHeap(heap')
  <2>1. GoodHeap(heap) /\ Owned(heap, live) /\ GoodHeap(heap') /\ Owned(heap', live')
    BY DEF HeapInv
  <2>2. ClientBlocks = BlocksOf(heap)
    BY <2>1, BlocksAre DEF ClientBlocks, SizeOf
  <2>3. ClientBlocks' = BlocksOf(heap')
    BY <2>1, BlocksAre DEF ClientBlocks, SizeOf
  <2> QED
    BY <2>1, <2>2, <2>3
<1>2. Outcome
  BY StepOutcome
<1>3. CASE Refused
  BY <1>1, <1>3 DEF Refused
<1>4. ASSUME NEW b, NewBlock(b, ClientBlocks) PROVE b \in Blocks!Block /\ Blocks!Placeable(b)
  <2>1. HeapSize - 1 - 0 + 1 = HeapSize
    BY SizesPositive
  <2> QED
    BY <1>4, <2>1 DEF NewBlock, Blocks!Block, Blocks!Placeable, Blocks!Overlap
<1>5. ASSUME NEW size \in 0..HeapSize, Allocated(size) PROVE Blocks!Next
  <2>1. PICK c \in FreeOf(heap) : Allocates(heap, heap', c, Rounded(size))
    BY <1>5 DEF Allocated
  <2> DEFINE b == BlockAt(heap', c)
  <2>2. /\ BlocksOf(heap') = BlocksOf(heap) \cup {b} /\ b \notin BlocksOf(heap)
        /\ NewBlock(b, BlocksOf(heap))
    BY <1>1, <2>1, AllocBlocks
  <2> HIDE DEF b
  <2>3. /\ b \in ClientBlocks' \ ClientBlocks /\ ClientBlocks' = ClientBlocks \cup {b}
        /\ b \in Blocks!Block /\ Blocks!Placeable(b)
    BY <1>1, <1>4, <2>2
  <2>4. Blocks!Alloc
    BY <2>3 DEF Blocks!Alloc
  <2> QED
    BY <2>4 DEF Blocks!Next
<1>6. ASSUME NEW a \in live, Freed(a) PROVE Blocks!Next
  <2> DEFINE c == a.ptr - HEADER_SIZE
             b == BlockAt(heap, c)
  <2>1. c \in UsedOf(heap) /\ Frees(heap, heap', c)
    BY <1>6, LiveChunk DEF Freed
  <2>2. BlocksOf(heap') = BlocksOf(heap) \ {b} /\ b \in BlocksOf(heap)
    BY <1>1, <2>1, FreeBlocks
  <2> HIDE DEF b
  <2>3. Blocks!Free
    BY <1>1, <2>2 DEF Blocks!Free
  <2> QED
    BY <2>3 DEF Blocks!Next
<1>7. ASSUME NEW a \in live, NEW size \in 0..HeapSize, Resized(a, size)
      PROVE  UNCHANGED ClientBlocks
  BY <1>1, <1>7 DEF Resized
<1>8. ASSUME NEW a \in live, NEW size \in 0..HeapSize, Moved(a, size) PROVE Blocks!Next
  <2> DEFINE o == a.ptr - HEADER_SIZE
  <2>1. PICK g : \E c \in FreeOf(heap) :
               /\ size > heap_chunk_size(heap, o)
               /\ Allocates(heap, g, c, Rounded(size)) /\ Frees(g, heap', o)
    BY <1>8 DEF Moved
  <2>2. PICK c \in FreeOf(heap) :
               /\ size > heap_chunk_size(heap, o)
               /\ Allocates(heap, g, c, Rounded(size)) /\ Frees(g, heap', o)
    BY <2>1
  <2>3. o \in UsedOf(heap)
    BY LiveChunk
  <2> HIDE DEF o
  <2>4. /\ GoodHeap(g) /\ o \in UsedOf(g) /\ heap_chunk_size(g, o) = heap_chunk_size(heap, o)
        /\ c \in UsedOf(g) /\ heap_chunk_size(g, c) >= Rounded(size)
    BY <2>2, <2>3 DEF Allocates
  <2> DEFINE new == BlockAt(g, c)
             old == BlockAt(heap, o)
  <2>5. /\ BlocksOf(g) = BlocksOf(heap) \cup {new} /\ new \notin BlocksOf(heap)
        /\ NewBlock(new, BlocksOf(heap))
    BY <1>1, <2>2, AllocBlocks
  <2>6. BlockAt(g, o) = old
    BY <2>4 DEF BlockAt
  <2>7. BlocksOf(heap') = BlocksOf(g) \ {old} /\ old \in BlocksOf(heap)
    <3>1. BlocksOf(heap') = BlocksOf(g) \ {BlockAt(g, o)}
      BY <2>2, <2>4, FreeBlocks
    <3>2. old \in BlocksOf(heap)
      BY <2>3 DEF BlocksOf
    <3> QED
      BY <2>6, <3>1, <3>2
  <2>8. new.len > old.len
    <3>1. new.len = heap_chunk_size(g, c) /\ old.len = heap_chunk_size(heap, o)
      BY DEF BlockAt
    <3>2. Rounded(size) \in 1..HeapSize /\ Rounded(size) >= size /\ size \in Int
      BY RoundedSize, SizesPositive
    <3>3. heap_chunk_size(g, c) \in 1..HeapSize /\ heap_chunk_size(heap, o) \in 1..HeapSize
      BY <1>1, <2>3, <2>4, Payload
    <3> QED
      BY <2>2, <2>4, <3>1, <3>2, <3>3, SizesPositive
  <2> HIDE DEF new, old
  <2>9. /\ old \in ClientBlocks /\ new \in ClientBlocks' \ ClientBlocks
        /\ ClientBlocks' = (ClientBlocks \ {old}) \cup {new}
    BY <1>1, <2>5, <2>7
  <2>10. new \in Blocks!Block /\ Blocks!Placeable(new)
    BY <1>1, <1>4, <2>5
  <2>11. Blocks!Move
    BY <2>8, <2>9, <2>10 DEF Blocks!Move
  <2> QED
    BY <2>11 DEF Blocks!Next
<1> QED
  BY <1>2, <1>3, <1>5, <1>6, <1>7, <1>8 DEF Outcome

(***************************************************************************)
(* The chunk lists implement the arena: kmalloc, kcalloc, kfree and        *)
(* krealloc hand out disjoint aligned blocks inside the heap, and never    *)
(* change the block of another client.                                     *)
(***************************************************************************)
THEOREM HeapImplementsArena == Spec => ImplementsArena
<1>1. Init => Blocks!Init
  BY DEF Init, Blocks!Init, ClientBlocks
<1>2. HeapInv /\ HeapInv' /\ [Next]_vars => [Blocks!Next]_ClientBlocks
  BY ArenaStep
<1> QED
  BY <1>1, <1>2, HeapInvariant, PTL DEF Spec, ImplementsArena, Blocks!Spec
=============================================================================
