---------------------------- MODULE ShellProofs ----------------------------
(***************************************************************************)
(* Proofs about Shell, for screens, histories and commands of any size and *)
(* for any keys: the history holds the commands that were entered, and the *)
(* texts in it always end inside the memory.                               *)
(***************************************************************************)
EXTENDS Shell, SequenceTheorems, WellFoundedInduction, TLAPS

-----------------------------------------------------------------------------
(***************************************************************************)
(* Numbers                                                                 *)
(***************************************************************************)
\* A set of naturals that is not empty has a least element.
LEMMA LeastNatural ==
  ASSUME NEW S \in SUBSET Nat, S # {}
  PROVE  \E x \in S : \A y \in S : x <= y
<1> DEFINE Less == {ss \in Nat \X Nat : ss[1] < ss[2]}
<1>1. IsWellFoundedOn(Less, Nat)
  BY NatLessThanWellFounded DEF OpToRel
<1> HIDE DEF Less
<1>2. PICK x \in S : \A y \in S : ~(<<y, x>> \in Less)
  BY <1>1, WFMin
<1>3. \A y \in S : x <= y
  <2> SUFFICES ASSUME NEW y \in S, y < x PROVE FALSE
    OBVIOUS
  <2>1. <<y, x>> \in Less
    BY DEF Less
  <2> QED
    BY <1>2, <2>1
<1> QED
  BY <1>3

\* What holds of 0, and of a number when it holds of the one before, holds up to N.
LEMMA Upwards ==
  ASSUME NEW N \in Nat, NEW T, 0 \in T, \A n \in 1..N : n - 1 \in T => n \in T
  PROVE  \A n \in 0..N : n \in T
<1> DEFINE S == {n \in 0..N : n \notin T}
<1> SUFFICES ASSUME S # {} PROVE FALSE
  OBVIOUS
<1>1. PICK x \in S : \A y \in S : x <= y
  <2>1. S \in SUBSET Nat
    OBVIOUS
  <2> QED
    BY <2>1, LeastNatural
<1>2. x \in 1..N /\ x - 1 \in 0..N
  OBVIOUS
<1>3. x - 1 \in S
  BY <1>2
<1> QED
  BY <1>1, <1>2, <1>3

\* A remainder after at most one turn.
LEMMA OneTurn ==
  ASSUME NEW c \in Nat \ {0}, NEW a \in 0..(2 * c - 1)
  PROVE  a % c = IF a < c THEN a ELSE a - c
<1>1. CASE a < c
  BY <1>1
<1>2. CASE a >= c
  <2>1. (a - c) \in 0..(c - 1) /\ a = c * 1 + (a - c)
    BY <1>2
  <2>2. a \div c = 1
    BY <1>2
  <2> QED
    BY <2>1, <2>2
<1> QED
  BY <1>1, <1>2

LEMMA SumTurn ==
  ASSUME NEW c \in Nat \ {0}, NEW x \in 0..(c - 1), NEW y \in 0..(c - 1)
  PROVE  (x + y) % c = IF x + y < c THEN x + y ELSE x + y - c
<1> DEFINE a == x + y
<1>1. a \in 0..(2 * c - 1)
  OBVIOUS
<1> SUFFICES a % c = IF a < c THEN a ELSE a - c
  OBVIOUS
<1> HIDE DEF a
<1> QED
  BY <1>1, OneTurn

-----------------------------------------------------------------------------
(***************************************************************************)
(* Texts in the memory                                                     *)
(***************************************************************************)
Places == SH_MAX_HISTORY + 1
Top == Places * (SH_MAX_COMMAND + 1) - 1
Memories == [0..Top -> Nat]

LEMMA Sizes == /\ Places \in Nat /\ Places >= 2 /\ SH_MAX_HISTORY = Places - 1
               /\ SH_MAX_COMMAND \in Nat /\ SH_MAX_COMMAND >= 1
               /\ Top \in Nat
<1>1. /\ Places \in Nat /\ Places >= 2 /\ SH_MAX_HISTORY = Places - 1
      /\ SH_MAX_COMMAND \in Nat /\ SH_MAX_COMMAND >= 1
  BY ShellAssumption DEF Places
<1>2. ASSUME NEW x \in Nat, NEW y \in Nat, x >= 1, y >= 1 PROVE x * y - 1 \in Nat
  <2>1. x * y \in Nat /\ x * y >= 1 * y
    BY <1>2
  <2> QED
    BY <1>2, <2>1
<1>3. Top \in Nat
  BY <1>1, <1>2 DEF Top
<1> QED
  BY <1>1, <1>3

\* The text at a ends after k characters.
Ends(m, a, k) == /\ k \in Nat /\ a \in Nat /\ a + k \in DOMAIN m
                 /\ m[a + k] = NUL
                 /\ \A j \in 0..(k - 1) : m[a + j] # NUL

Text(m, a, k) == [i \in 1..k |-> m[a + i - 1]]

\* What strlen returns, and the text that is read.
LEMMA LengthOfText ==
  ASSUME NEW m \in Memories, NEW a \in Nat, NEW k \in Nat, Ends(m, a, k)
  PROVE  /\ strlen(m, a) = k
         /\ TextAt(m, a) = Text(m, a, k)
         /\ Text(m, a, k) \in Seq(Nat) /\ Len(Text(m, a, k)) = k
         /\ \A j \in 0..(k - 1) : Text(m, a, k)[j + 1] = m[a + j]
<1>0. Top \in Nat /\ m \in [0..Top -> Nat]
  BY Sizes DEF Memories
<1> USE <1>0
<1>1. k \in DOMAIN m /\ k \in Nat /\ a \in Nat /\ a + k <= Top
  BY DEF Ends
<1>2. ASSUME NEW h \in DOMAIN m, m[a + h] = NUL, \A j \in 0..(h - 1) : m[a + j] # NUL
      PROVE  h = k
  <2>1. h \in Nat
    OBVIOUS
  <2>2. ~(h < k)
    BY <1>1, <1>2, <2>1 DEF Ends
  <2>3. ~(k < h)
    BY <1>1, <1>2, <2>1 DEF Ends
  <2> QED
    BY <1>1, <2>1, <2>2, <2>3
<1>3. strlen(m, a) = k
  BY <1>1, <1>2 DEF strlen, Rounds, Ends
<1>4. TextAt(m, a) = Text(m, a, k)
  BY <1>3 DEF TextAt, Text
<1>5. Text(m, a, k) \in [1..k -> Nat]
  <2>1. ASSUME NEW i \in 1..k PROVE m[a + i - 1] \in Nat
    <3>1. a + i - 1 \in 0..Top
      BY <1>1
    <3> QED
      BY <3>1
  <2> QED
    BY <2>1 DEF Text
<1>6. Text(m, a, k) \in Seq(Nat) /\ Len(Text(m, a, k)) = k
  BY <1>1, <1>5
<1>7. ASSUME NEW j \in 0..(k - 1) PROVE Text(m, a, k)[j + 1] = m[a + j]
  <2>1. j + 1 \in 1..k /\ a + (j + 1) - 1 = a + j
    BY <1>1
  <2> QED
    BY <2>1 DEF Text
<1> QED
  BY <1>3, <1>4, <1>6, <1>7

\* In front of a NUL, or at it, a text ends.
LEMMA TextEnds ==
  ASSUME NEW m \in Memories, NEW a \in Nat, NEW k \in Nat,
         a + k <= Top, m[a + k] = NUL
  PROVE  \E l \in 0..k : Ends(m, a, l)
<1>0. Top \in Nat /\ m \in [0..Top -> Nat]
  BY Sizes DEF Memories
<1> USE <1>0
<1> DEFINE S == {l \in 0..k : m[a + l] = NUL}
<1>1. k \in S /\ S \in SUBSET Nat
  OBVIOUS
<1>2. PICK l \in S : \A y \in S : l <= y
  BY <1>1, LeastNatural
<1>3. l \in 0..k /\ m[a + l] = NUL /\ a + l \in DOMAIN m
  OBVIOUS
<1>4. ASSUME NEW j \in 0..(l - 1) PROVE m[a + j] # NUL
  <2> SUFFICES ASSUME m[a + j] = NUL PROVE FALSE
    OBVIOUS
  <2>1. j \in Nat /\ j \in 0..k /\ j < l
    BY <1>3
  <2>2. j \in S
    BY <2>1
  <2> HIDE DEF S
  <2>3. l <= j
    BY <1>2, <2>2
  <2> QED
    BY <1>3, <2>1, <2>3
<1> HIDE DEF S
<1>5. Ends(m, a, l)
  BY <1>3, <1>4 DEF Ends
<1> QED
  BY <1>3, <1>5

\* k bytes and one more at b in w are those at a in m.
Same(m, a, w, b, k) == \A j \in 0..k : w[b + j] = m[a + j]

\* The same bytes are the same text.
LEMMA SameText ==
  ASSUME NEW m \in Memories, NEW w \in Memories,
         NEW a \in Nat, NEW b \in Nat, NEW k \in Nat, Ends(m, a, k), b + k <= Top,
         Same(m, a, w, b, k)
  PROVE  /\ Ends(w, b, k)
         /\ TextAt(w, b) = TextAt(m, a)
<1>0. Top \in Nat /\ m \in [0..Top -> Nat] /\ w \in [0..Top -> Nat]
  BY Sizes DEF Memories
<1> USE <1>0
<1>1. k \in Nat /\ a \in Nat
  BY DEF Ends
<1>2. Ends(w, b, k)
  <2>1. w[b + k] = NUL /\ b + k \in DOMAIN w
    BY <1>1 DEF Ends, Same
  <2>2. ASSUME NEW j \in 0..(k - 1) PROVE w[b + j] # NUL
    <3>1. j \in 0..k
      BY <1>1
    <3>2. m[a + j] # NUL
      BY DEF Ends
    <3> QED
      BY <3>1, <3>2 DEF Same
  <2> QED
    BY <1>1, <2>1, <2>2 DEF Ends
<1>3. ASSUME NEW i \in 1..k PROVE w[b + i - 1] = m[a + i - 1]
  <2>1. i - 1 \in 0..k /\ b + (i - 1) = b + i - 1 /\ a + (i - 1) = a + i - 1
    BY <1>1
  <2> QED
    BY <2>1 DEF Same
<1>4. Text(w, b, k) = Text(m, a, k)
  BY <1>3 DEF Text
<1> QED
  BY <1>2, <1>4, LengthOfText

\* strequ tells whether two texts are the same.
LEMMA EqualTexts ==
  ASSUME NEW m \in Memories, NEW a \in Nat, NEW b \in Nat, NEW k \in Nat, NEW l \in Nat,
         Ends(m, a, k), Ends(m, b, l)
  PROVE  strequ(m, a, b) <=> TextAt(m, a) = TextAt(m, b)
<1>0. Top \in Nat /\ m \in [0..Top -> Nat]
  BY Sizes DEF Memories
<1> USE <1>0
<1> DEFINE Stop(i) == m[a + i] = NUL \/ m[a + i] # m[b + i]
           S == {i \in 0..k : Stop(i)}
<1>1. /\ k \in Nat /\ a \in Nat /\ a + k \in 0..Top /\ m[a + k] = NUL
      /\ l \in Nat /\ b \in Nat /\ b + l \in 0..Top /\ m[b + l] = NUL
      /\ \A j \in 0..(k - 1) : m[a + j] # NUL
      /\ \A j \in 0..(l - 1) : m[b + j] # NUL
  BY DEF Ends
<1>2. PICK i \in S : \A y \in S : i <= y
  <2>1. k \in S /\ S \in SUBSET Nat
    BY <1>1
  <2> QED
    BY <2>1, LeastNatural
<1>3. i \in 0..k /\ Stop(i) /\ i \in DOMAIN m
  BY <1>1
<1>4. \A j \in 0..(i - 1) : ~Stop(j)
  <2> SUFFICES ASSUME NEW j \in 0..(i - 1), Stop(j) PROVE FALSE
    OBVIOUS
  <2>1. j \in S /\ j < i
    BY <1>1, <1>3
  <2> HIDE DEF S
  <2>2. i <= j
    BY <1>2, <2>1
  <2> QED
    BY <1>3, <2>1, <2>2
<1>5. ASSUME NEW h \in DOMAIN m, Stop(h), \A j \in 0..(h - 1) : ~Stop(j)
      PROVE  h = i
  <2>1. h \in Nat /\ i \in Nat
    BY <1>1, <1>3
  <2>2. ~(h < i)
    BY <1>4, <1>5, <2>1
  <2>3. ~(i < h)
    BY <1>3, <1>5, <2>1
  <2> QED
    BY <2>1, <2>2, <2>3
<1>6. strequ(m, a, b) <=> m[a + i] - m[b + i] = 0
  <2>1. Rounds(m, LAMBDA n : m[a + n] = NUL \/ m[a + n] # m[b + n]) = i
    BY <1>3, <1>4, <1>5 DEF Rounds
  <2> QED
    BY <2>1 DEF strequ, strcmp
<1>7. i <= l
  <2> SUFFICES ASSUME l < i PROVE FALSE
    BY <1>1, <1>3
  <2>1. l \in 0..(i - 1) /\ l \in 0..(k - 1)
    BY <1>1, <1>3
  <2>2. m[a + l] # NUL /\ m[a + l] = m[b + l]
    BY <1>1, <1>4, <2>1
  <2> QED
    BY <1>1, <2>2
<1>8. m[a + i] \in Nat /\ m[b + i] \in Nat
  <2>1. a + i \in 0..Top /\ b + i \in 0..Top
    BY <1>1, <1>3, <1>7
  <2> QED
    BY <2>1
<1>9. strequ(m, a, b) <=> m[a + i] = m[b + i]
  BY <1>6, <1>8
<1>10. ASSUME m[a + i] = m[b + i] PROVE TextAt(m, a) = TextAt(m, b)
  <2>1. m[a + i] = NUL /\ m[b + i] = NUL
    BY <1>3, <1>10
  <2>2. i = k /\ i = l
    BY <1>1, <1>3, <1>7, <2>1
  <2>3. Same(m, a, m, b, k)
    <3> SUFFICES \A j \in 0..k : m[b + j] = m[a + j]
      BY DEF Same
    <3> TAKE j \in 0..k
    <3>1. CASE j = k
      BY <1>10, <2>2, <3>1
    <3>2. CASE j # k
      <4>1. j \in 0..(i - 1)
        BY <1>1, <2>2, <3>2
      <4> QED
        BY <1>4, <4>1
    <3> QED
      BY <3>1, <3>2
  <2>4. b + k <= Top
    BY <1>1, <2>2
  <2>5. a \in Nat /\ b \in Nat /\ k \in Nat
    BY <1>1
  <2> HIDE DEF S, Stop
  <2> QED
    BY <2>3, <2>4, <2>5, SameText
<1>11. ASSUME TextAt(m, a) = TextAt(m, b) PROVE m[a + i] = m[b + i]
  <2>1. k = l /\ \A j \in 0..(k - 1) : m[a + j] = m[b + j]
    <3>1. /\ TextAt(m, a) = Text(m, a, k) /\ Len(Text(m, a, k)) = k
          /\ \A j \in 0..(k - 1) : Text(m, a, k)[j + 1] = m[a + j]
      BY LengthOfText
    <3>2. /\ TextAt(m, b) = Text(m, b, l) /\ Len(Text(m, b, l)) = l
          /\ \A j \in 0..(l - 1) : Text(m, b, l)[j + 1] = m[b + j]
      BY LengthOfText
    <3>3. k = l
      BY <1>11, <3>1, <3>2
    <3>4. ASSUME NEW j \in 0..(k - 1) PROVE m[a + j] = m[b + j]
      <4>1. Text(m, a, k)[j + 1] = m[a + j]
        BY <3>1
      <4>2. Text(m, b, l)[j + 1] = m[b + j]
        BY <3>2, <3>3
      <4>3. Text(m, a, k) = Text(m, b, l)
        BY <1>11, <3>1, <3>2
      <4> QED
        BY <4>1, <4>2, <4>3
    <3> QED
      BY <3>3, <3>4
  <2>2. CASE i = k
    BY <1>1, <2>1, <2>2
  <2>3. CASE i # k
    BY <1>1, <1>3, <2>1, <2>3
  <2> QED
    BY <2>2, <2>3
<1> QED
  BY <1>9, <1>10, <1>11

-----------------------------------------------------------------------------
(***************************************************************************)
(* The commands without repetitions                                        *)
(***************************************************************************)
\* What is kept of the first i commands, for i up to n.
Chain(s, n, f) == [i \in 0..n |-> IF i = 0 THEN <<>>
                                  ELSE IF i > 1 /\ s[i] = s[i - 1] THEN f[i - 1]
                                  ELSE Append(f[i - 1], s[i])]

\* There is such a function.
LEMMA ChainExists ==
  ASSUME NEW s, NEW N \in Nat
  PROVE  \E f : f = Chain(s, N, f)
<1> DEFINE T == {n \in Nat : \E f : f = Chain(s, n, f)}
<1>1. 0 \in T
  <2> DEFINE f == [i \in 0..0 |-> <<>>]
  <2>1. f = Chain(s, 0, f)
    BY DEF Chain
  <2> QED
    BY <2>1
<1>2. ASSUME NEW n \in 1..N, n - 1 \in T PROVE n \in T
  <2>1. PICK f : f = Chain(s, n - 1, f)
    BY <1>2
  <2> DEFINE e == IF n > 1 /\ s[n] = s[n - 1] THEN f[n - 1] ELSE Append(f[n - 1], s[n])
             g == [i \in 0..n |-> IF i = n THEN e ELSE f[i]]
  <2>2. ASSUME NEW i \in 0..n
        PROVE  g[i] = IF i = 0 THEN <<>>
                      ELSE IF i > 1 /\ s[i] = s[i - 1] THEN g[i - 1]
                      ELSE Append(g[i - 1], s[i])
    <3>1. CASE i = n
      <4>1. g[n - 1] = f[n - 1] /\ g[i] = e
        BY <3>1
      <4> QED
        BY <3>1, <4>1
    <3>2. CASE i # n
      <4>1. i \in 0..(n - 1) /\ g[i] = f[i] /\ (i # 0 => g[i - 1] = f[i - 1])
        BY <3>2
      <4>2. f[i] = IF i = 0 THEN <<>>
                   ELSE IF i > 1 /\ s[i] = s[i - 1] THEN f[i - 1]
                   ELSE Append(f[i - 1], s[i])
        BY <2>1, <4>1 DEF Chain
      <4> QED
        BY <4>1, <4>2
    <3> QED
      BY <3>1, <3>2
  <2>3. g = Chain(s, n, g)
    <3>1. g = [i \in 0..n |-> g[i]]
      OBVIOUS
    <3> HIDE DEF g
    <3> QED
      BY <2>2, <3>1 DEF Chain
  <2> HIDE DEF g
  <2> QED
    BY <2>3
<1> HIDE DEF T
<1>3. \A n \in 0..N : n \in T
  BY <1>1, <1>2, Upwards
<1> QED
  BY <1>3 DEF T

\* Two such functions agree, also when one goes further.
LEMMA ChainUnique ==
  ASSUME NEW s, NEW w, NEW N \in Nat, NEW K \in Nat, N <= K,
         \A i \in 1..N : w[i] = s[i],
         NEW f, NEW g, f = Chain(s, N, f), g = Chain(w, K, g)
  PROVE  \A i \in 0..N : g[i] = f[i]
<1> DEFINE T == {n \in 0..N : g[n] = f[n]}
<1>1. 0 \in T
  <2>1. f[0] = <<>>
    BY DEF Chain
  <2>2. g[0] = <<>>
    BY DEF Chain
  <2> QED
    BY <2>1, <2>2
<1>2. ASSUME NEW n \in 1..N, n - 1 \in T PROVE n \in T
  <2>1. f[n] = IF n > 1 /\ s[n] = s[n - 1] THEN f[n - 1] ELSE Append(f[n - 1], s[n])
    <3>1. n \in 0..N /\ n # 0
      OBVIOUS
    <3> QED
      BY <3>1 DEF Chain
  <2>2. g[n] = IF n > 1 /\ w[n] = w[n - 1] THEN g[n - 1] ELSE Append(g[n - 1], w[n])
    <3>1. n \in 0..K /\ n # 0
      OBVIOUS
    <3> QED
      BY <3>1 DEF Chain
  <2>3. w[n] = s[n] /\ (n > 1 => w[n - 1] = s[n - 1])
    OBVIOUS
  <2>4. g[n - 1] = f[n - 1]
    BY <1>2
  <2> QED
    BY <2>1, <2>2, <2>3, <2>4
<1> HIDE DEF T
<1>3. \A n \in 0..N : n \in T
  BY <1>1, <1>2, Upwards
<1> QED
  BY <1>3 DEF T

\* Texts are entered.
Commands == Seq(Nat)

LEMMA NoRepeatsIsChain ==
  ASSUME NEW s \in Seq(Commands)
  PROVE  \E f : f = Chain(s, Len(s), f) /\ NoRepeats(s) = f[Len(s)]
<1> DEFINE f == CHOOSE g : g = Chain(s, Len(s), g)
<1>1. Len(s) \in Nat
  OBVIOUS
<1>2. \E g : g = Chain(s, Len(s), g)
  BY <1>1, ChainExists
<1>3. f = Chain(s, Len(s), f)
  BY <1>2
<1>4. NoRepeats(s) = f[Len(s)]
  BY DEF NoRepeats, Chain
<1> HIDE DEF f
<1> QED
  BY <1>3, <1>4

LEMMA NoRepeatsEmpty == NoRepeats(<<>>) = <<>>
<1>1. <<>> \in Seq(Commands) /\ Len(<<>>) = 0
  OBVIOUS
<1>2. PICK f : f = Chain(<<>>, 0, f) /\ NoRepeats(<<>>) = f[0]
  BY <1>1, NoRepeatsIsChain
<1> QED
  BY <1>2 DEF Chain

\* What one more command changes.
LEMMA NoRepeatsAppend ==
  ASSUME NEW s \in Seq(Commands), NEW x \in Commands
  PROVE  NoRepeats(Append(s, x)) = IF s # <<>> /\ x = s[Len(s)] THEN NoRepeats(s)
                                   ELSE Append(NoRepeats(s), x)
<1> DEFINE n == Len(s)
           w == Append(s, x)
<1>1. /\ n \in Nat /\ w \in Seq(Commands) /\ Len(w) = n + 1
      /\ \A i \in 1..n : w[i] = s[i]
      /\ w[n + 1] = x
      /\ (s = <<>>) <=> (n = 0)
  BY AppendProperties
<1>2. PICK f : f = Chain(s, n, f) /\ NoRepeats(s) = f[n]
  BY NoRepeatsIsChain
<1>3. PICK g : g = Chain(w, n + 1, g) /\ NoRepeats(w) = g[n + 1]
  BY <1>1, NoRepeatsIsChain
<1> HIDE DEF n, w
<1>4. g[n] = f[n]
  <2>1. n + 1 \in Nat /\ n <= n + 1 /\ n \in 0..n
    BY <1>1
  <2> QED
    BY <1>1, <1>2, <1>3, <2>1, ChainUnique, SMTT(30)
<1>5. g[n + 1] = IF n + 1 > 1 /\ w[n + 1] = w[n] THEN g[n] ELSE Append(g[n], w[n + 1])
  <2>1. n + 1 \in 0..(n + 1) /\ n + 1 # 0 /\ (n + 1) - 1 = n
    BY <1>1
  <2> QED
    BY <1>3, <2>1 DEF Chain
<1>6. n > 0 => w[n] = s[n]
  BY <1>1
<1> QED
  BY <1>1, <1>2, <1>3, <1>4, <1>5, <1>6 DEF n, w

\* The last of the commands is the last that is kept.
LastKept(s) == /\ NoRepeats(s) \in Seq(Commands)
               /\ IF s = <<>> THEN NoRepeats(s) = <<>>
                  ELSE /\ Len(NoRepeats(s)) > 0
                       /\ NoRepeats(s)[Len(NoRepeats(s))] = s[Len(s)]

LEMMA LastKeptAppend ==
  ASSUME NEW s \in Seq(Commands), NEW x \in Commands, LastKept(s)
  PROVE  LastKept(Append(s, x))
<1> DEFINE w == Append(s, x)
           k == NoRepeats(s)
<1>1. w \in Seq(Commands) /\ w # <<>> /\ w[Len(w)] = x
  BY AppendProperties
<1>2. CASE s # <<>> /\ x = s[Len(s)]
  <2>1. NoRepeats(w) = k
    BY <1>2, NoRepeatsAppend
  <2> QED
    BY <1>1, <1>2, <2>1 DEF LastKept
<1>3. CASE ~(s # <<>> /\ x = s[Len(s)])
  <2>1. NoRepeats(w) = Append(k, x)
    BY <1>3, NoRepeatsAppend
  <2>2. k \in Seq(Commands)
    BY DEF LastKept
  <2>3. /\ Append(k, x) \in Seq(Commands) /\ Len(Append(k, x)) = Len(k) + 1
        /\ Append(k, x)[Len(k) + 1] = x /\ Len(k) \in Nat
    BY <2>2, AppendProperties
  <2> QED
    BY <1>1, <2>1, <2>3 DEF LastKept
<1> QED
  BY <1>2, <1>3

-----------------------------------------------------------------------------
(***************************************************************************)
(* The slots                                                               *)
(***************************************************************************)
Rings == [buf : [0..(Places - 1) -> {0}], head : 0..(Places - 1), tail : 0..(Places - 1),
          size : 1..Places]

\* The first byte of place p, and the place of the n-th entry.
Base(p) == SH_MAX_COMMAND * p
Phys(r, n) == (r.head + n) % Places

\* The slots lie one behind the other, with room for a NUL behind the last.
LEMMA SlotsApart ==
  /\ Base(0) = 0
  /\ \A p \in 0..(Places - 1) : Base(p) \in Nat /\ Base(p) + SH_MAX_COMMAND <= Top
  /\ \A p \in 0..(Places - 1), q \in 0..(Places - 1) :
       p < q => Base(p) + SH_MAX_COMMAND <= Base(q)
<1> DEFINE M == SH_MAX_COMMAND
           P == Places
<1>1. P \in Nat /\ P >= 2 /\ M \in Nat /\ M >= 1
  BY Sizes
<1>2. Top = P * M + P - 1 /\ P * M \in Nat
  BY <1>1 DEF Top
<1> HIDE DEF M, P
<1>3. ASSUME NEW p \in Nat, NEW q \in Nat, p < q
      PROVE  M * p \in Nat /\ M * p + M <= M * q
  <2>1. M * p \in Nat /\ M * (p + 1) = M * p + M
    BY <1>1
  <2>2. M * (p + 1) <= M * q
    BY <1>1, <1>3
  <2> QED
    BY <2>1, <2>2
<1>4. M * 0 = 0
  BY <1>1
<1>5. ASSUME NEW p \in 0..(P - 1) PROVE M * p \in Nat /\ M * p + M <= Top
  <2>1. M * p + M <= M * P /\ M * p \in Nat
    BY <1>1, <1>3
  <2>2. M * P = P * M
    BY <1>1
  <2> QED
    BY <1>1, <1>2, <2>1, <2>2
<1> QED
  BY <1>1, <1>3, <1>4, <1>5 DEF Base, M, P

\* The places of the entries: none is the place of another.
LEMMA PlaceOf ==
  ASSUME NEW r \in Rings, NEW n \in 0..(Places - 1)
  PROVE  /\ Phys(r, n) \in 0..(Places - 1)
         /\ Phys(r, n) = IF r.head + n < Places THEN r.head + n ELSE r.head + n - Places
         /\ SlotAt(r, n) = Base(Phys(r, n))
         /\ n # 0 => Phys(r, n) # r.head
         /\ Phys(r, 0) = r.head
<1>1. r.head \in 0..(Places - 1) /\ Places \in Nat \ {0}
  BY Sizes DEF Rings
<1>2. r.head + n \in 0..(2 * Places - 1)
  BY <1>1
<1>3. Phys(r, n) = IF r.head + n < Places THEN r.head + n ELSE r.head + n - Places
  <2> DEFINE x == r.head
  <2>1. Phys(r, n) = (x + n) % Places
    BY Zenon DEF Phys
  <2>2. x \in 0..(Places - 1)
    BY <1>1
  <2> HIDE DEF x
  <2>3. Phys(r, n) = IF x + n < Places THEN x + n ELSE x + n - Places
    BY <1>1, <2>1, <2>2, SumTurn
  <2> QED
    BY <2>3 DEF x
<1>4. Phys(r, 0) = r.head
  <2>1. r.head \in 0..(2 * Places - 1) /\ r.head + 0 = r.head /\ r.head < Places
    BY <1>1
  <2>2. r.head % Places = r.head
    BY ONLY <1>1, <2>1, OneTurn
  <2> QED
    BY <2>1, <2>2 DEF Phys
<1>5. SlotAt(r, n) = Base(Phys(r, n))
  BY DEF SlotAt, Base, Phys, Places, History!circ_buf_peekn_head
<1> QED
  BY <1>1, <1>3, <1>4, <1>5

\* A new head is the place before the old one.
LEMMA NewHead ==
  ASSUME NEW r \in Rings
  PROVE  LET s == History!circ_buf_enqueue_head(r, 0)
         IN  /\ s \in Rings
             /\ s.head = IF r.head = 0 THEN Places - 1 ELSE r.head - 1
             /\ s.size = IF r.size < Places THEN r.size + 1 ELSE r.size
             /\ \A n \in 1..(Places - 1) : Phys(s, n) = Phys(r, n - 1)
<1> DEFINE s == History!circ_buf_enqueue_head(r, 0)
           h == History!Decrement(r.head)
<1>1. /\ r.head \in 0..(Places - 1) /\ r.tail \in 0..(Places - 1) /\ r.size \in 1..Places
      /\ r.buf \in [0..(Places - 1) -> {0}]
      /\ Places \in Nat \ {0} /\ Places >= 2
  BY Sizes DEF Rings
<1>2. ASSUME NEW i \in 0..(Places - 1)
      PROVE  History!Decrement(i) = IF i = 0 THEN Places - 1 ELSE i - 1
  <2> DEFINE a == i + Places - 1
  <2>1. a \in 0..(2 * Places - 1)
    BY <1>1
  <2>2. History!Decrement(i) = a % Places
    BY DEF History!Decrement, Places
  <2> HIDE DEF a
  <2>3. a % Places = IF a < Places THEN a ELSE a - Places
    BY ONLY <1>1, <2>1, OneTurn
  <2> QED
    BY <1>1, <2>2, <2>3 DEF a
<1>3. h = IF r.head = 0 THEN Places - 1 ELSE r.head - 1
  BY <1>1, <1>2
<1>4. h \in 0..(Places - 1) /\ History!Decrement(r.tail) \in 0..(Places - 1)
  BY <1>1, <1>2, <1>3
<1> DEFINE b == [r.buf EXCEPT ![h] = 0]
           l == IF r.size < Places THEN r.tail ELSE History!Decrement(r.tail)
           k == IF r.size < Places THEN r.size + 1 ELSE r.size
<1>5. s = [r EXCEPT !.head = h, !.buf = b, !.size = k, !.tail = l]
  BY DEF History!circ_buf_enqueue_head, Places
<1>6. s \in Rings /\ s.head = h /\ s.size = k
  <2>1. b \in [0..(Places - 1) -> {0}] /\ l \in 0..(Places - 1) /\ k \in 1..Places
    BY <1>1, <1>4
  <2>2. h \in 0..(Places - 1)
    BY <1>4
  <2> HIDE DEF b, l, k, s, h
  <2> QED
    BY <1>5, <2>1, <2>2 DEF Rings
<1> HIDE DEF s, h
<1>7. ASSUME NEW n \in 1..(Places - 1) PROVE Phys(s, n) = Phys(r, n - 1)
  <2>1. n \in 0..(Places - 1) /\ n - 1 \in 0..(Places - 1)
    BY <1>1
  <2>2. Phys(s, n) = IF s.head + n < Places THEN s.head + n ELSE s.head + n - Places
    BY <1>6, <2>1, PlaceOf
  <2>3. Phys(r, n - 1) = IF r.head + (n - 1) < Places THEN r.head + (n - 1)
                         ELSE r.head + (n - 1) - Places
    BY <2>1, PlaceOf
  <2>4. s.head = IF r.head = 0 THEN Places - 1 ELSE r.head - 1
    BY <1>3, <1>6
  <2> QED
    BY <1>1, <2>2, <2>3, <2>4
<1> QED
  BY <1>3, <1>6, <1>7 DEF s

-----------------------------------------------------------------------------
(***************************************************************************)
(* The history in the memory                                               *)
(***************************************************************************)
\* The text at place p ends; one that fills its slot ends in the next, which is
\* never the one that is typed into.
Ended(m, r, full, p) ==
  \E k \in 0..SH_MAX_COMMAND : /\ m[Base(p) + k] = NUL
                               /\ k = SH_MAX_COMMAND => full /\ p + 1 # r.head

\* Until the slots are used up, they are taken from the last to the first.
Sound(m, r, full) ==
  /\ m \in Memories /\ r \in Rings
  /\ r.size < Places => r.head = Places - r.size
  /\ r.size = 1 => m[0] = NUL
  /\ \A n \in 1..(r.size - 1) : Ended(m, r, full, Phys(r, n))

\* The texts of the history are the same in m and w.
SameHistory(m, w, r) ==
  \A n \in 1..(r.size - 1) : TextAt(w, SlotAt(r, n)) = TextAt(m, SlotAt(r, n))

\* The history of s in w is the command and the history of r in m.
Shifted(m, r, w, s) ==
  \A n \in 1..(s.size - 1) : TextAt(w, SlotAt(s, n)) = TextAt(m, SlotAt(r, n - 1))

\* The byte at a belongs to the slot at place p.
In(a, p) == Base(p) <= a /\ a < Base(p) + SH_MAX_COMMAND

\* Only the slot of the command was written, or the NUL behind it.
EditedOnly(m, w, r, full) ==
  \A a \in 0..Top : \/ w[a] = m[a]
                    \/ In(a, r.head)
                    \/ a = Base(r.head) + SH_MAX_COMMAND /\ w[a] = NUL /\ full

\* A byte of another slot is not one of place h.
LEMMA OtherSlot ==
  ASSUME NEW p \in 0..(Places - 1), NEW h \in 0..(Places - 1), p # h,
         NEW k \in 0..SH_MAX_COMMAND, k = SH_MAX_COMMAND => p + 1 # h
  PROVE  /\ Base(p) + k \in 0..Top
         /\ ~In(Base(p) + k, h)
         /\ k = SH_MAX_COMMAND => Base(p) + k # Base(h) + SH_MAX_COMMAND
<1> DEFINE M == SH_MAX_COMMAND
<1>1. M \in Nat /\ M >= 1 /\ Places \in Nat /\ Top \in Nat
  BY Sizes
<1>2. /\ Base(p) \in Nat /\ Base(h) \in Nat /\ Base(p) + M <= Top
      /\ p < h => Base(p) + M <= Base(h)
      /\ h < p => Base(h) + M <= Base(p)
  BY SlotsApart
<1>3. p < h /\ p + 1 # h => Base(p) + 2 * M <= Base(h)
  <2> SUFFICES ASSUME p < h, p + 1 # h PROVE Base(p) + 2 * M <= Base(h)
    OBVIOUS
  <2>1. p + 1 \in 0..(Places - 1) /\ p < p + 1 /\ p + 1 < h
    BY <1>1
  <2>2. /\ Base(p) + M <= Base(p + 1) /\ Base(p + 1) + M <= Base(h)
        /\ Base(p + 1) \in Nat
    BY <2>1, SlotsApart
  <2> QED
    BY <1>1, <1>2, <2>2
<1> HIDE DEF M
<1>4. Base(p) + k \in 0..Top /\ k \in 0..M
  BY <1>1, <1>2 DEF M
<1>5. CASE p < h
  <2>1. k # M => ~In(Base(p) + k, h)
    BY <1>1, <1>2, <1>4, <1>5 DEF In, M
  <2>2. k = M => ~In(Base(p) + k, h) /\ Base(p) + k # Base(h) + M
    BY <1>1, <1>2, <1>3, <1>4, <1>5 DEF In, M
  <2> QED
    BY <1>4, <2>1, <2>2 DEF M
<1>6. CASE h < p
  <2>1. ~In(Base(p) + k, h) /\ (k = M => Base(p) + k # Base(h) + M)
    BY <1>1, <1>2, <1>4, <1>6 DEF In, M
  <2> QED
    BY <1>4, <2>1 DEF M
<1> QED
  BY <1>1, <1>5, <1>6

\* A text that ends before the end of its slot is not changed by bytes that
\* belong to another slot.
LEMMA TextUntouched ==
  ASSUME NEW m \in Memories, NEW w \in Memories, NEW p \in 0..(Places - 1),
         NEW h \in 0..(Places - 1), p # h,
         \A a \in 0..Top : w[a] = m[a] \/ In(a, h),
         NEW k \in 0..(SH_MAX_COMMAND - 1), m[Base(p) + k] = NUL
  PROVE  TextAt(w, Base(p)) = TextAt(m, Base(p))
<1>1. SH_MAX_COMMAND \in Nat /\ Top \in Nat /\ Base(p) \in Nat
  BY Sizes, SlotsApart
<1>2. \A j \in 0..k : Base(p) + j \in 0..Top /\ w[Base(p) + j] = m[Base(p) + j]
  <2> TAKE j \in 0..k
  <2>1. j \in 0..SH_MAX_COMMAND /\ j # SH_MAX_COMMAND
    BY <1>1
  <2>2. Base(p) + j \in 0..Top /\ ~In(Base(p) + j, h)
    BY <2>1, OtherSlot
  <2> QED
    BY <2>2
<1>3. k \in Nat /\ Base(p) + k <= Top
  BY <1>1, <1>2
<1>4. PICK l \in 0..k : Ends(m, Base(p), l)
  BY <1>1, <1>3, TextEnds
<1>5. Base(p) + l <= Top /\ l \in Nat /\ Same(m, Base(p), w, Base(p), l)
  BY <1>1, <1>2, <1>3 DEF Same
<1> QED
  BY <1>1, <1>4, <1>5, SameText

\* What is done to the slot of the command leaves the history as it is.
LEMMA Edited ==
  ASSUME NEW m, NEW r, NEW full \in BOOLEAN, Sound(m, r, full),
         NEW w \in Memories, NEW full2 \in BOOLEAN, full => full2,
         EditedOnly(m, w, r, full2)
  PROVE  /\ Sound(w, r, full2)
         /\ ~full2 => SameHistory(m, w, r)
<1> DEFINE h == r.head
<1>1. /\ m \in Memories /\ r \in Rings /\ h \in 0..(Places - 1) /\ r.size \in 1..Places
      /\ Places \in Nat /\ Places >= 2 /\ Top \in Nat
  BY Sizes DEF Sound, Rings
<1>2. ASSUME NEW n \in 1..(r.size - 1)
      PROVE  /\ n \in 0..(Places - 1) /\ Phys(r, n) \in 0..(Places - 1) /\ Phys(r, n) # h
             /\ SlotAt(r, n) = Base(Phys(r, n))
  <2>1. n \in 0..(Places - 1) /\ n # 0
    BY <1>1
  <2> QED
    BY <1>1, <2>1, PlaceOf
<1>3. r.size = 1 => w[0] = NUL
  <2> SUFFICES ASSUME r.size = 1 PROVE w[0] = NUL
    OBVIOUS
  <2>1. m[0] = NUL /\ h = Places - 1 /\ 0 \in 0..Top
    BY <1>1 DEF Sound
  <2>2. 0 \in 0..(Places - 1) /\ 0 < h
    BY <1>1, <2>1
  <2>3. Base(0) = 0 /\ Base(0) + SH_MAX_COMMAND <= Base(h) /\ Base(h) \in Nat
    BY <1>1, <2>2, SlotsApart
  <2>4. ~In(0, h)
    BY <2>3, Sizes DEF In
  <2> QED
    BY <2>1, <2>4 DEF EditedOnly
<1>4. ASSUME NEW n \in 1..(r.size - 1) PROVE Ended(w, r, full2, Phys(r, n))
  <2>1. PICK k \in 0..SH_MAX_COMMAND : /\ m[Base(Phys(r, n)) + k] = NUL
                                       /\ k = SH_MAX_COMMAND => full /\ Phys(r, n) + 1 # h
    BY DEF Sound, Ended
  <2>2. Base(Phys(r, n)) + k \in 0..Top /\ ~In(Base(Phys(r, n)) + k, h)
    BY <1>1, <1>2, <2>1, OtherSlot
  <2>3. w[Base(Phys(r, n)) + k] = NUL
    BY <2>1, <2>2 DEF EditedOnly
  <2> QED
    BY <2>1, <2>3 DEF Ended
<1>5. ASSUME ~full2, NEW n \in 1..(r.size - 1)
      PROVE  TextAt(w, SlotAt(r, n)) = TextAt(m, SlotAt(r, n))
  <2>1. PICK k \in 0..SH_MAX_COMMAND : /\ m[Base(Phys(r, n)) + k] = NUL
                                       /\ k = SH_MAX_COMMAND => full
    BY DEF Sound, Ended
  <2>2. k \in 0..(SH_MAX_COMMAND - 1)
    BY <1>5, <2>1, Sizes
  <2>3. \A a \in 0..Top : w[a] = m[a] \/ In(a, h)
    BY <1>5 DEF EditedOnly
  <2> QED
    BY <1>1, <1>2, <2>1, <2>2, <2>3, TextUntouched
<1> QED
  BY <1>1, <1>3, <1>4, <1>5 DEF Sound, SameHistory

\* A command that was ended is kept, and the slot before it is taken.
LEMMA Kept ==
  ASSUME NEW m, NEW r, NEW full \in BOOLEAN, Sound(m, r, full),
         full => r.size < Places,
         NEW k \in 0..SH_MAX_COMMAND, m[Base(r.head) + k] = NUL, k = SH_MAX_COMMAND => full,
         NEW s, s = History!circ_buf_enqueue_head(r, 0),
         NEW w, w = Pushed(m, s)
  PROVE  /\ Sound(w, s, full)
         /\ s.size = IF r.size < Places THEN r.size + 1 ELSE r.size
         /\ ~full => Shifted(m, r, w, s)
<1> DEFINE h == s.head
<1>1. /\ m \in Memories /\ r \in Rings /\ r.head \in 0..(Places - 1) /\ r.size \in 1..Places
      /\ Places \in Nat /\ Places >= 2 /\ Top \in Nat /\ SH_MAX_COMMAND \in Nat
      /\ r.size < Places => r.head = Places - r.size
  BY Sizes DEF Sound, Rings
<1>2. /\ s \in Rings
      /\ h = IF r.head = 0 THEN Places - 1 ELSE r.head - 1
      /\ s.size = IF r.size < Places THEN r.size + 1 ELSE r.size
      /\ \A n \in 1..(Places - 1) : Phys(s, n) = Phys(r, n - 1)
  BY <1>1, NewHead
<1>3. h \in 0..(Places - 1) /\ s.size \in 2..Places
  BY <1>1, <1>2
<1>4. ASSUME NEW n \in 1..(s.size - 1)
      PROVE  /\ n \in 1..(Places - 1) /\ n - 1 \in 0..(r.size - 1) /\ n - 1 \in 0..(Places - 1)
             /\ Phys(s, n) \in 0..(Places - 1) /\ Phys(s, n) # h
             /\ Phys(s, n) = Phys(r, n - 1)
             /\ SlotAt(s, n) = Base(Phys(s, n)) /\ SlotAt(r, n - 1) = Base(Phys(s, n))
  <2>1. /\ n \in 1..(Places - 1) /\ n \in 0..(Places - 1) /\ n # 0
        /\ n - 1 \in 0..(r.size - 1) /\ n - 1 \in 0..(Places - 1)
    BY <1>1, <1>2, <1>3
  <2>2. Phys(s, n) = Phys(r, n - 1)
    BY <1>2, <2>1
  <2>3. SlotAt(r, n - 1) = Base(Phys(r, n - 1))
    BY <1>1, <2>1, PlaceOf
  <2>4. /\ Phys(s, n) \in 0..(Places - 1) /\ Phys(s, n) # h
        /\ SlotAt(s, n) = Base(Phys(s, n))
    BY <1>2, <2>1, PlaceOf
  <2> QED
    BY <2>1, <2>2, <2>3, <2>4
<1>5. ASSUME NEW n \in 1..(s.size - 1)
      PROVE  \E j \in 0..SH_MAX_COMMAND :
               /\ m[Base(Phys(s, n)) + j] = NUL
               /\ j = SH_MAX_COMMAND => full /\ Phys(s, n) + 1 # h
  <2>1. full => Phys(s, n) + 1 # h
    <3> SUFFICES ASSUME full PROVE Phys(s, n) + 1 # h
      OBVIOUS
    <3>1. r.head = Places - r.size /\ r.size < Places
      BY <1>1
    <3>2. Phys(r, n - 1) = IF r.head + (n - 1) < Places THEN r.head + (n - 1)
                           ELSE r.head + (n - 1) - Places
      BY <1>1, <1>4, PlaceOf
    <3>3. n - 1 \in 0..(r.size - 1) /\ Phys(s, n) = Phys(r, n - 1)
      BY <1>4
    <3> QED
      BY <1>1, <1>2, <3>1, <3>2, <3>3
  <2>2. CASE n = 1
    <3>1. Phys(s, n) = r.head
      <4>1. Phys(r, 0) = r.head
        BY <1>1, PlaceOf
      <4> QED
        BY <1>4, <2>2, <4>1
    <3> QED
      BY <2>1, <3>1
  <2>3. CASE n # 1
    <3>1. n - 1 \in 1..(r.size - 1)
      BY <1>1, <1>4, <2>3
    <3>2. Ended(m, r, full, Phys(r, n - 1))
      BY <3>1 DEF Sound
    <3> QED
      BY <1>4, <2>1, <3>2 DEF Ended
  <2> QED
    BY <2>2, <2>3
<1>6. w \in Memories /\ \A a \in 0..Top : w[a] = m[a] \/ In(a, h)
  <2>1. SlotAt(s, 0) = Base(h) /\ Base(h) \in Nat
    <3>1. 0 \in 0..(Places - 1)
      BY <1>1
    <3> QED
      BY <1>2, <1>3, <3>1, PlaceOf, SlotsApart
  <2>2. w = [a \in 0..Top |-> IF a = Base(h) THEN NUL
                              ELSE IF a > Base(h) /\ a < Base(h) + SH_MAX_COMMAND
                              THEN UNWRITTEN ELSE m[a]]
    BY <1>1, <2>1 DEF Pushed, Memories
  <2>3. ASSUME NEW a \in 0..Top PROVE w[a] \in Nat /\ (w[a] = m[a] \/ In(a, h))
    <3>1. m[a] \in Nat /\ NUL \in Nat /\ UNWRITTEN \in Nat
      BY <1>1 DEF Memories, NUL, UNWRITTEN
    <3>2. SH_MAX_COMMAND >= 1
      BY Sizes
    <3> QED
      BY <1>1, <2>1, <2>2, <3>1, <3>2 DEF In
  <2>4. w \in [0..Top -> Nat]
    <3>1. w = [a \in 0..Top |-> w[a]]
      BY <2>2
    <3> QED
      BY <2>3, <3>1
  <2> QED
    BY <2>3, <2>4 DEF Memories
<1>7. ASSUME NEW n \in 1..(s.size - 1) PROVE Ended(w, s, full, Phys(s, n))
  <2>1. PICK j \in 0..SH_MAX_COMMAND : /\ m[Base(Phys(s, n)) + j] = NUL
                                       /\ j = SH_MAX_COMMAND => full /\ Phys(s, n) + 1 # h
    BY <1>5
  <2>2. Base(Phys(s, n)) + j \in 0..Top /\ ~In(Base(Phys(s, n)) + j, h)
    BY <1>3, <1>4, <2>1, OtherSlot
  <2>3. w[Base(Phys(s, n)) + j] = NUL
    BY <1>6, <2>1, <2>2
  <2> QED
    BY <2>1, <2>3 DEF Ended
<1>8. ASSUME ~full, NEW n \in 1..(s.size - 1)
      PROVE  TextAt(w, SlotAt(s, n)) = TextAt(m, SlotAt(r, n - 1))
  <2>1. PICK j \in 0..SH_MAX_COMMAND : /\ m[Base(Phys(s, n)) + j] = NUL
                                       /\ j = SH_MAX_COMMAND => full
    BY <1>5
  <2>2. j \in 0..(SH_MAX_COMMAND - 1)
    BY <1>8, <2>1, Sizes
  <2>3. TextAt(w, Base(Phys(s, n))) = TextAt(m, Base(Phys(s, n)))
    BY <1>1, <1>3, <1>4, <1>6, <2>1, <2>2, TextUntouched
  <2> QED
    BY <1>4, <2>3
<1>9. s.size < Places => s.head = Places - s.size
  BY <1>1, <1>2
<1> QED
  BY <1>2, <1>3, <1>6, <1>7, <1>8, <1>9 DEF Sound, Shifted

-----------------------------------------------------------------------------
(***************************************************************************)
(* The empty command                                                       *)
(***************************************************************************)
LEMMA FoldEmpty ==
  ASSUME NEW s, DOMAIN s = {}
  PROVE  FoldLeft(vector_add, vector_init, s) = vector_init
<1> DEFINE G(g) == [u \in SUBSET DOMAIN s |->
                      IF u = {} THEN vector_init
                      ELSE vector_add(g[u \ {Max(u)}], s[Max(u)])]
<1>1. FoldLeft(vector_add, vector_init, s) = (CHOOSE g : g = G(g))[DOMAIN s]
  BY DEF FoldLeft, MapThenFoldSet
<1>2. \E g : g = G(g)
  <2> DEFINE g == [u \in SUBSET DOMAIN s |-> vector_init]
  <2>1. \A u \in SUBSET DOMAIN s : u = {}
    OBVIOUS
  <2>2. g = G(g)
    BY <2>1
  <2> QED
    BY <2>2
<1> DEFINE f == CHOOSE g : g = G(g)
<1>3. f = G(f)
  BY <1>2
<1>4. DOMAIN s \in SUBSET DOMAIN s
  OBVIOUS
<1> HIDE DEF f
<1>5. f[DOMAIN s] = vector_init
  BY <1>3, <1>4
<1> QED
  BY <1>1, <1>5 DEF f

\* A text that ends at once has no token.
LEMMA NoToken ==
  ASSUME NEW m, 0 \in DOMAIN m, DOMAIN m \subseteq Nat, m[0] = NUL
  PROVE  strtok(m, NULL, 0, 1) = [m |-> m, p |-> NULL, ret |-> NULL]
<1>1. ASSUME NEW k \in DOMAIN m, \A j \in 0..(k - 1) : ~(m[0 + j] = NUL)
      PROVE  k = 0
  <2> SUFFICES ASSUME k # 0 PROVE FALSE
    OBVIOUS
  <2>1. 0 \in 0..(k - 1)
    OBVIOUS
  <2> QED
    BY <1>1, <2>1
<1>2. strspn(m, 0, 1) = 0
  BY <1>1 DEF strspn, Rounds
<1>3. strcspn(m, 0, 1) = 0
  BY <1>1 DEF strcspn, Rounds
<1> QED
  BY <1>2, <1>3 DEF strtok, NULL

LEMMA NoWords == Words(<<>>) = <<>>
<1> DEFINE copy == [a \in 0..2 |-> IF a = 1 THEN SPACE ELSE NUL]
           none == [m |-> copy, p |-> NULL, ret |-> NULL]
           F(f) == [i \in DOMAIN copy |->
                      IF i = 0 THEN strtok(copy, NULL, 0, 1)
                      ELSE strtok(f[i - 1].m, f[i - 1].p, NULL, 1)]
           found == CHOOSE f : f = F(f)
           n == Rounds(copy, LAMBDA i : found[i].ret = NULL)
           items == [i \in 1..n |-> found[i - 1].ret]
           args == strsplit(copy, 0, 1)
<1>1. DOMAIN copy = 0..2 /\ copy[0] = NUL
  OBVIOUS
<1>2. args = [m |-> found[n].m, split |-> FoldLeft(vector_add, vector_init, items)]
  BY DEF strsplit
<1>3. Words(<<>>) = [i \in 1..args.split.length |-> TextAt(args.m, args.split.items[i])]
  <2>1. Len(<<>>) = 0
    OBVIOUS
  <2>2. copy = [a \in 0..(0 + 2) |-> IF a < 0 THEN <<>>[a + 1]
                                     ELSE IF a = 0 + 1 THEN SPACE ELSE NUL]
    OBVIOUS
  <2> HIDE DEF copy
  <2> QED
    BY <2>1, <2>2 DEF Words
<1> HIDE DEF copy
<1>4. strtok(copy, NULL, 0, 1) = none
  BY <1>1, NoToken
<1>5. strtok(copy, NULL, NULL, 1) = none
  BY DEF strtok
<1>6. found = F(found)
  <2> DEFINE g == [i \in DOMAIN copy |-> none]
  <2>1. g = F(g)
    <3>1. ASSUME NEW i \in DOMAIN copy, i # 0
          PROVE  g[i - 1].m = copy /\ g[i - 1].p = NULL
      BY <1>1, <3>1
    <3> HIDE DEF g
    <3>2. F(g) = [i \in DOMAIN copy |-> none]
      BY <1>4, <1>5, <3>1
    <3> QED
      BY <3>2 DEF g
  <2> QED
    BY <2>1
<1> HIDE DEF found
<1>7. found[0].ret = NULL
  BY <1>1, <1>4, <1>6
<1>8. n = 0
  <2>1. ASSUME NEW k \in DOMAIN copy, \A j \in 0..(k - 1) : ~(found[j].ret = NULL)
        PROVE  k = 0
    BY <1>1, <1>7, <2>1
  <2> QED
    BY <1>1, <1>7, <2>1 DEF Rounds
<1> HIDE DEF n
<1>9. args.split = vector_init
  <2>1. DOMAIN items = {}
    BY <1>8
  <2> HIDE DEF items, args
  <2> QED
    BY <1>2, <2>1, FoldEmpty
<1> HIDE DEF args
<1> QED
  BY <1>3, <1>9 DEF vector_init

-----------------------------------------------------------------------------
LEMMA MinTwo ==
  ASSUME NEW a \in Nat, NEW b \in Nat
  PROVE  Min({a, b}) = IF a <= b THEN a ELSE b
  BY DEF Min

\* The command that history entry n holds is copied into the slot of the command.
LEMMA Copied ==
  ASSUME NEW m, NEW r, NEW full \in BOOLEAN, Sound(m, r, full),
         NEW n \in 1..(r.size - 1),
         NEW w, w = strcpy(m, SlotAt(r, 0), SlotAt(r, n))
  PROVE  /\ Sound(w, r, full)
         /\ strlen(w, SlotAt(r, 0)) \in 0..SH_MAX_COMMAND
         /\ ~full => SameHistory(m, w, r)
<1> DEFINE h == r.head
           p == Phys(r, n)
<1>1. /\ m \in Memories /\ r \in Rings /\ h \in 0..(Places - 1) /\ r.size \in 1..Places
      /\ Places \in Nat /\ Places >= 2 /\ Top \in Nat
      /\ SH_MAX_COMMAND \in Nat /\ SH_MAX_COMMAND >= 1
  BY Sizes DEF Sound, Rings
<1>2. /\ p \in 0..(Places - 1) /\ p # h
      /\ SlotAt(r, n) = Base(p) /\ SlotAt(r, 0) = Base(h)
  <2>1. n \in 0..(Places - 1) /\ n # 0 /\ 0 \in 0..(Places - 1)
    BY <1>1
  <2> QED
    BY <1>1, <2>1, PlaceOf
<1>3. /\ Base(p) \in Nat /\ Base(p) + SH_MAX_COMMAND <= Top
      /\ Base(h) \in Nat /\ Base(h) + SH_MAX_COMMAND <= Top
      /\ p < h => Base(p) + SH_MAX_COMMAND <= Base(h)
      /\ h < p => Base(h) + SH_MAX_COMMAND <= Base(p)
  BY <1>1, <1>2, SlotsApart
<1>4. PICK k \in 0..SH_MAX_COMMAND : /\ m[Base(p) + k] = NUL
                                     /\ k = SH_MAX_COMMAND => full /\ p + 1 # h
  BY DEF Sound, Ended
<1>5. PICK l \in 0..k : Ends(m, Base(p), l)
  <2>1. k \in Nat /\ Base(p) + k <= Top
    BY <1>1, <1>3
  <2> QED
    BY <1>1, <1>3, <1>4, <2>1, TextEnds
<1>6. l \in Nat /\ l <= SH_MAX_COMMAND /\ (l = SH_MAX_COMMAND => full)
  BY <1>1, <1>4
<1>7. strlen(m, Base(p)) = l
  BY <1>1, <1>3, <1>5, <1>6, LengthOfText
<1>8. w = [a \in 0..Top |-> IF a >= Base(h) /\ a < Base(h) + l THEN m[Base(p) + (a - Base(h))]
                            ELSE IF a = Base(h) + l THEN NUL ELSE m[a]]
  BY <1>1, <1>2, <1>7 DEF strcpy, Memories
<1>9. m \in [0..Top -> Nat] /\ NUL \in Nat
  BY <1>1 DEF Memories, NUL
<1>10. ASSUME NEW a \in 0..Top
       PROVE  /\ w[a] \in Nat
              /\ \/ w[a] = m[a]
                 \/ In(a, h)
                 \/ a = Base(h) + SH_MAX_COMMAND /\ w[a] = NUL /\ full
  <2>1. CASE a >= Base(h) /\ a < Base(h) + l
    <3>1. Base(p) + (a - Base(h)) \in 0..Top
      BY <1>1, <1>3, <1>6, <2>1
    <3>2. In(a, h)
      BY <1>1, <1>3, <1>6, <2>1 DEF In
    <3> QED
      BY <1>8, <1>9, <2>1, <3>1, <3>2
  <2>2. CASE a = Base(h) + l
    <3>1. l # SH_MAX_COMMAND => In(a, h)
      BY <1>1, <1>3, <1>6, <2>2 DEF In
    <3>2. ~(a < Base(h) + l)
      BY <1>3, <1>6, <2>2
    <3>3. w[a] = NUL
      BY <1>8, <2>2, <3>2, Zenon
    <3> QED
      BY <1>6, <1>9, <2>2, <3>1, <3>3
  <2>3. CASE ~(a >= Base(h) /\ a < Base(h) + l) /\ a # Base(h) + l
    BY <1>8, <1>9, <2>3
  <2> QED
    BY <2>1, <2>2, <2>3
<1>11. w \in Memories
  <2>1. w = [a \in 0..Top |-> w[a]]
    BY <1>8
  <2>2. w \in [0..Top -> Nat]
    BY <1>10, <2>1
  <2> QED
    BY <2>2 DEF Memories
<1>12. strlen(w, Base(h)) = l
  <2>1. Same(m, Base(p), w, Base(h), l)
    <3> SUFFICES ASSUME NEW j \in 0..l PROVE w[Base(h) + j] = m[Base(p) + j]
      BY DEF Same
    <3>1. Base(h) + j \in 0..Top /\ (Base(h) + j) - Base(h) = j /\ j \in Nat
      BY <1>1, <1>3, <1>6
    <3>2. CASE j = l
      <4>1. m[Base(p) + l] = NUL
        BY <1>5 DEF Ends
      <4>2. ~(Base(h) + l < Base(h) + l) /\ Base(h) + l \in 0..Top
        BY <1>3, <1>6, <3>1, <3>2
      <4>3. w[Base(h) + l] = NUL
        BY <1>8, <4>2, Zenon
      <4> QED
        BY <3>2, <4>1, <4>3
    <3>3. CASE j # l
      <4>1. Base(h) + j >= Base(h) /\ Base(h) + j < Base(h) + l
        BY <1>3, <1>6, <3>1, <3>3
      <4> QED
        BY <1>8, <3>1, <4>1
    <3> QED
      BY <3>2, <3>3
  <2>2. Base(h) + l <= Top
    BY <1>1, <1>3, <1>6
  <2>3. Ends(w, Base(h), l)
    BY <1>1, <1>3, <1>5, <1>6, <1>11, <2>1, <2>2, SameText
  <2> QED
    BY <1>3, <1>6, <1>11, <2>3, LengthOfText
<1>13. strlen(w, SlotAt(r, 0)) \in 0..SH_MAX_COMMAND
  BY <1>1, <1>2, <1>6, <1>12
<1>14. EditedOnly(m, w, r, full)
  BY <1>10 DEF EditedOnly
<1> QED
  BY <1>11, <1>13, <1>14, Edited

-----------------------------------------------------------------------------
(***************************************************************************)
(* The inductive invariant                                                 *)
(***************************************************************************)
\* The history in ring r of memory m is what is kept of the commands ent.
Recorded(m, r, ent) ==
  LET kept == NoRepeats(ent)
  IN  /\ r.size - 1 = Min({Len(kept), SH_MAX_HISTORY})
      /\ \A i \in 1..(r.size - 1) : TextAt(m, SlotAt(r, i)) = kept[Len(kept) + 1 - i]

Inv == /\ filled \in BOOLEAN
       /\ Sound(mem, history, filled)
       /\ sh_command_idx \in 0..SH_MAX_COMMAND
       /\ sh_history_idx \in 0..(history.size - 1)
       /\ entered \in Seq(Commands) /\ LastKept(entered)
       /\ ~filled => Recorded(mem, history, entered)

\* The same texts in the same places are the same history.
LEMMA RecordedSame ==
  ASSUME NEW m, NEW w, NEW r, NEW ent, Recorded(m, r, ent),
         SameHistory(m, w, r)
  PROVE  Recorded(w, r, ent)
  BY DEF Recorded, SameHistory

\* A command that is not the last one again is the first of the history.
LEMMA RecordedPush ==
  ASSUME NEW m, NEW w, NEW r \in Rings, NEW s, NEW ent \in Seq(Commands), NEW x \in Commands,
         LastKept(ent), Recorded(m, r, ent),
         s.size = IF r.size < Places THEN r.size + 1 ELSE r.size,
         Shifted(m, r, w, s),
         TextAt(m, SlotAt(r, 0)) = x,
         r.size > 1 => TextAt(m, SlotAt(r, 1)) # x
  PROVE  Recorded(w, s, Append(ent, x))
<1> DEFINE kept == NoRepeats(ent)
           now == NoRepeats(Append(ent, x))
           L == Len(kept)
<1>1. /\ Places \in Nat /\ Places >= 2 /\ SH_MAX_HISTORY = Places - 1 /\ SH_MAX_HISTORY \in Nat
      /\ r.size \in 1..Places
  BY Sizes, ShellAssumption DEF Rings
<1>2. kept \in Seq(Commands) /\ L \in Nat
  BY DEF LastKept
<1>3. r.size - 1 = IF L <= SH_MAX_HISTORY THEN L ELSE SH_MAX_HISTORY
  BY <1>1, <1>2, MinTwo DEF Recorded
<1>4. now = Append(kept, x)
  <2>1. CASE ent = <<>>
    BY <2>1, NoRepeatsAppend
  <2>2. CASE ent # <<>>
    <3>1. L > 0 /\ kept[L] = ent[Len(ent)]
      BY <2>2 DEF LastKept
    <3>2. r.size > 1 /\ 1 \in 1..(r.size - 1) /\ L + 1 - 1 = L
      BY <1>1, <1>2, <1>3, <3>1
    <3>3. TextAt(m, SlotAt(r, 1)) = kept[L]
      BY <3>2 DEF Recorded
    <3> QED
      BY <3>1, <3>2, <3>3, NoRepeatsAppend
  <2> QED
    BY <2>1, <2>2
<1>5. /\ Len(now) = L + 1 /\ now[L + 1] = x
      /\ \A i \in 1..L : now[i] = kept[i]
  <2> HIDE DEF kept
  <2> QED
    BY <1>2, <1>4, AppendProperties
<1> HIDE DEF now
<1>6. s.size - 1 = Min({L + 1, SH_MAX_HISTORY})
  <2>1. Min({L + 1, SH_MAX_HISTORY}) = IF L + 1 <= SH_MAX_HISTORY THEN L + 1 ELSE SH_MAX_HISTORY
    BY <1>1, <1>2, MinTwo
  <2> QED
    BY <1>1, <1>2, <1>3, <2>1
<1>7. ASSUME NEW i \in 1..(s.size - 1)
      PROVE  TextAt(w, SlotAt(s, i)) = now[Len(now) + 1 - i]
  <2>1. TextAt(w, SlotAt(s, i)) = TextAt(m, SlotAt(r, i - 1))
    BY DEF Shifted
  <2>2. CASE i = 1
    BY <1>2, <1>5, <2>1, <2>2
  <2>3. CASE i # 1
    <3>1. i - 1 \in 1..(r.size - 1) /\ L + 1 - (i - 1) = L + 1 + 1 - i
      BY <1>1, <1>2, <2>3
    <3>2. L + 1 - (i - 1) \in 1..L
      BY <1>1, <1>2, <1>3, <3>1
    <3>3. TextAt(m, SlotAt(r, i - 1)) = kept[L + 1 - (i - 1)]
      BY <3>1 DEF Recorded
    <3> QED
      BY <1>5, <2>1, <3>1, <3>2, <3>3
  <2> QED
    BY <2>2, <2>3
<1> QED
  BY <1>5, <1>6, <1>7 DEF Recorded, now

\* A command that is the last one again changes nothing.
LEMMA RecordedAgain ==
  ASSUME NEW m, NEW r \in Rings, NEW ent \in Seq(Commands), NEW x \in Commands,
         LastKept(ent), Recorded(m, r, ent),
         r.size > 1, TextAt(m, SlotAt(r, 1)) = x
  PROVE  Recorded(m, r, Append(ent, x))
<1> DEFINE kept == NoRepeats(ent)
           L == Len(kept)
<1>1. /\ Places \in Nat /\ Places >= 2 /\ SH_MAX_HISTORY = Places - 1 /\ SH_MAX_HISTORY \in Nat
      /\ r.size \in 1..Places
  BY Sizes, ShellAssumption DEF Rings
<1>2. kept \in Seq(Commands) /\ L \in Nat
  BY DEF LastKept
<1>3. r.size - 1 = IF L <= SH_MAX_HISTORY THEN L ELSE SH_MAX_HISTORY
  BY <1>1, <1>2, MinTwo DEF Recorded
<1>4. L > 0 /\ 1 \in 1..(r.size - 1) /\ L + 1 - 1 = L
  BY <1>1, <1>2, <1>3
<1>5. ent # <<>> /\ kept[L] = ent[Len(ent)]
  <2>1. ent # <<>>
    <3> SUFFICES ASSUME ent = <<>> PROVE FALSE
      OBVIOUS
    <3>1. kept = <<>>
      BY DEF LastKept
    <3> HIDE DEF kept
    <3>2. Len(kept) = 0
      BY <3>1
    <3> QED
      BY <1>4, <3>2
  <2> QED
    BY <2>1 DEF LastKept
<1>6. kept[L] = x
  BY <1>4 DEF Recorded
<1>7. NoRepeats(Append(ent, x)) = kept
  BY <1>5, <1>6, NoRepeatsAppend
<1> QED
  BY <1>7 DEF Recorded

Put(m, a, k, v) == [m EXCEPT ![a + k] = v]

\* One byte of the slot of the command is written, or the NUL behind it.
LEMMA Written ==
  ASSUME NEW m, NEW r, NEW full \in BOOLEAN, Sound(m, r, full),
         NEW full2 \in BOOLEAN, full => full2,
         NEW k \in 0..SH_MAX_COMMAND, NEW v \in Nat,
         k = SH_MAX_COMMAND => v = NUL /\ full2,
         NEW w, w = Put(m, SlotAt(r, 0), k, v)
  PROVE  /\ Sound(w, r, full2)
         /\ ~full2 => SameHistory(m, w, r)
         /\ SlotAt(r, 0) = Base(r.head) /\ r.head \in 0..(Places - 1)
         /\ w[Base(r.head) + k] = v
<1> DEFINE h == r.head
<1>1. /\ m \in Memories /\ r \in Rings /\ h \in 0..(Places - 1)
      /\ Places \in Nat /\ Places >= 2 /\ Top \in Nat
      /\ SH_MAX_COMMAND \in Nat /\ SH_MAX_COMMAND >= 1
  BY Sizes DEF Sound, Rings
<1>2. SlotAt(r, 0) = Base(h)
  <2>1. 0 \in 0..(Places - 1)
    BY <1>1
  <2> QED
    BY <1>1, <2>1, PlaceOf
<1>3. Base(h) \in Nat /\ Base(h) + SH_MAX_COMMAND <= Top
  BY <1>1, SlotsApart
<1>4. Base(h) + k \in 0..Top
  BY <1>1, <1>3
<1>5. w \in Memories /\ w[Base(h) + k] = v /\ \A a \in 0..Top : a # Base(h) + k => w[a] = m[a]
  BY <1>1, <1>2, <1>4 DEF Memories, Put
<1>6. ASSUME NEW a \in 0..Top
      PROVE  \/ w[a] = m[a]
             \/ In(a, h)
             \/ a = Base(h) + SH_MAX_COMMAND /\ w[a] = NUL /\ full2
  <2>1. CASE a # Base(h) + k
    BY <1>5, <2>1
  <2>2. CASE a = Base(h) + k
    <3>1. k # SH_MAX_COMMAND => In(a, h)
      BY <1>1, <1>3, <2>2 DEF In
    <3>2. w[a] = v
      BY <1>5, <2>2
    <3> QED
      BY <2>2, <3>1, <3>2
  <2> QED
    BY <2>1, <2>2
<1>7. EditedOnly(m, w, r, full2)
  BY <1>6 DEF EditedOnly
<1>8. Sound(w, r, full2) /\ (~full2 => SameHistory(m, w, r))
  BY <1>5, <1>7, Edited
<1> QED
  BY <1>1, <1>2, <1>5, <1>8

\* A step that leaves the texts of the history and the commands entered.
LEMMA HistoryStays ==
  ASSUME Inv, history' = history, entered' = entered, filled' \in BOOLEAN,
         filled => filled', Sound(mem', history, filled'),
         ~filled' => SameHistory(mem, mem', history),
         sh_command_idx' \in 0..SH_MAX_COMMAND, sh_history_idx' \in 0..(history.size - 1)
  PROVE  Inv'
<1>1. ~filled' => Recorded(mem', history, entered)
  <2> SUFFICES ASSUME ~filled' PROVE Recorded(mem', history, entered)
    OBVIOUS
  <2>1. Recorded(mem, history, entered)
    BY DEF Inv
  <2> QED
    BY <2>1, RecordedSame
<1>2. entered \in Seq(Commands) /\ LastKept(entered)
  BY DEF Inv
<1> QED
  BY <1>1, <1>2 DEF Inv

\* A step that leaves the shell as it is.
LEMMA ShellStays ==
  ASSUME Inv, UNCHANGED <<mem, history, sh_history_idx, sh_command_idx, filled, entered>>
  PROVE  Inv'
  BY DEF Inv

LEMMA TypeStep ==
  ASSUME Inv, NEW ch \in Typed, Type(ch)
  PROVE  Inv'
<1>1. ch \in Nat /\ SH_MAX_COMMAND \in Nat
  BY ShellAssumption
<1>2. CASE sh_command_idx < SH_MAX_COMMAND
  <2>1. /\ Sound(mem, history, filled) /\ filled \in BOOLEAN
        /\ sh_command_idx \in 0..SH_MAX_COMMAND /\ sh_history_idx \in 0..(history.size - 1)
    BY DEF Inv
  <2>2. /\ mem' = Put(mem, SlotAt(history, 0), sh_command_idx, ch)
        /\ sh_command_idx' = sh_command_idx + 1
        /\ UNCHANGED <<history, sh_history_idx, filled, entered>>
    BY <1>1, <1>2, <2>1 DEF Type, sh_command_buffer, Put
  <2>3. sh_command_idx # SH_MAX_COMMAND /\ sh_command_idx' \in 0..SH_MAX_COMMAND
    BY <1>1, <1>2, <2>1, <2>2
  <2>4. /\ Sound(mem', history, filled)
        /\ ~filled => SameHistory(mem, mem', history)
    BY <1>1, <2>1, <2>2, <2>3, Written
  <2> QED
    BY <2>1, <2>2, <2>3, <2>4, HistoryStays
<1>3. CASE ~(sh_command_idx < SH_MAX_COMMAND)
  <2>1. UNCHANGED <<mem, history, sh_history_idx, sh_command_idx, filled, entered>>
    BY <1>3 DEF Type, shell
  <2> QED
    BY <2>1, ShellStays
<1> QED
  BY <1>2, <1>3

LEMMA BackspaceStep ==
  ASSUME Inv, sh_backspace
  PROVE  Inv'
<1>1. CASE UNCHANGED shell
  <2>1. UNCHANGED <<mem, history, sh_history_idx, sh_command_idx, filled, entered>>
    BY <1>1 DEF sh_backspace, shell
  <2> QED
    BY <2>1, ShellStays
<1>2. CASE ~UNCHANGED shell
  <2>1. /\ sh_command_idx > 0 /\ sh_command_idx' = sh_command_idx - 1
        /\ mem' = Put(mem, SlotAt(history, 0), sh_command_idx', NUL)
        /\ UNCHANGED <<history, sh_history_idx, filled, entered>>
    BY <1>2 DEF sh_backspace, sh_command_buffer, Put
  <2>2. /\ Sound(mem, history, filled) /\ filled \in BOOLEAN
        /\ sh_command_idx \in 0..SH_MAX_COMMAND /\ sh_history_idx \in 0..(history.size - 1)
    BY DEF Inv
  <2>3. /\ sh_command_idx' \in 0..SH_MAX_COMMAND /\ sh_command_idx' # SH_MAX_COMMAND
        /\ NUL \in Nat
    BY <2>1, <2>2, ShellAssumption DEF NUL
  <2>4. /\ Sound(mem', history, filled)
        /\ ~filled => SameHistory(mem, mem', history)
    BY <2>1, <2>2, <2>3, Written
  <2> QED
    BY <2>1, <2>2, <2>3, <2>4, HistoryStays
<1> QED
  BY <1>1, <1>2

\* The text of every entry of the history ends, after at most a slot.
LEMMA EntryEnds ==
  ASSUME NEW m, NEW r, NEW full \in BOOLEAN, Sound(m, r, full), NEW n \in 1..(r.size - 1)
  PROVE  SlotAt(r, n) \in Nat /\ \E l \in 0..SH_MAX_COMMAND : Ends(m, SlotAt(r, n), l)
<1>1. /\ m \in Memories /\ r \in Rings /\ r.size \in 1..Places
      /\ Places \in Nat /\ Top \in Nat /\ SH_MAX_COMMAND \in Nat
  BY Sizes DEF Sound, Rings
<1>2. n \in 0..(Places - 1)
  BY <1>1
<1>3. SlotAt(r, n) = Base(Phys(r, n)) /\ Phys(r, n) \in 0..(Places - 1)
  BY <1>1, <1>2, PlaceOf
<1>4. SlotAt(r, n) \in Nat /\ SlotAt(r, n) + SH_MAX_COMMAND <= Top
  BY <1>3, SlotsApart
<1>5. PICK k \in 0..SH_MAX_COMMAND : m[SlotAt(r, n) + k] = NUL
  BY <1>3 DEF Sound, Ended
<1>6. k \in Nat /\ SlotAt(r, n) + k <= Top
  BY <1>1, <1>4
<1>7. PICK l \in 0..k : Ends(m, SlotAt(r, n), l)
  BY <1>1, <1>4, <1>5, <1>6, TextEnds
<1>8. l \in 0..SH_MAX_COMMAND
  BY <1>1, <1>6
<1> QED
  BY <1>4, <1>7, <1>8

\* While nothing is kept, the slot behind the command is the first, and empty.
LEMMA NoEntry ==
  ASSUME NEW m, NEW r, NEW full \in BOOLEAN, Sound(m, r, full), r.size = 1
  PROVE  SlotAt(r, 1) = 0 /\ Ends(m, 0, 0) /\ TextAt(m, 0) = <<>>
<1>1. /\ m \in Memories /\ r \in Rings /\ r.head = Places - 1 /\ m[0] = NUL
      /\ Places \in Nat /\ Places >= 2 /\ Top \in Nat
  BY Sizes DEF Sound
<1>2. 1 \in 0..(Places - 1) /\ r.head + 1 = Places
  BY <1>1
<1>3. SlotAt(r, 1) = Base(Phys(r, 1)) /\ Phys(r, 1) = 0
  BY <1>1, <1>2, PlaceOf
<1>4. Ends(m, 0, 0)
  BY <1>1 DEF Ends, Memories
<1>5. strlen(m, 0) = 0
  BY <1>1, <1>4, LengthOfText
<1> QED
  BY <1>3, <1>4, <1>5, SlotsApart DEF TextAt

LEMMA PullStep ==
  ASSUME Inv, NEW idx \in 0..(history.size - 1), sh_pull_history(idx),
         UNCHANGED <<filled, entered>>
  PROVE  Inv'
<1>1. /\ Sound(mem, history, filled) /\ filled \in BOOLEAN
      /\ history.size \in 1..Places /\ Places \in Nat /\ SH_MAX_COMMAND \in Nat
      /\ SH_MAX_COMMAND >= 1
  BY Sizes DEF Inv, Sound, Rings
<1>2. /\ mem' = IF idx = 0 THEN [mem EXCEPT ![SlotAt(history, 0)] = NUL]
                ELSE strcpy(mem, SlotAt(history, 0), SlotAt(history, idx))
      /\ sh_history_idx' = idx
      /\ sh_command_idx' = strlen(mem', SlotAt(history, 0))
      /\ history' = history
  BY DEF sh_pull_history, sh_command_buffer
<1>3. CASE idx = 0
  <2>1. SlotAt(history, 0) \in Nat /\ SlotAt(history, 0) + SH_MAX_COMMAND <= Top
    <3>1. history \in Rings /\ 0 \in 0..(Places - 1)
      BY <1>1 DEF Sound
    <3>2. SlotAt(history, 0) = Base(Phys(history, 0)) /\ Phys(history, 0) \in 0..(Places - 1)
      BY <3>1, PlaceOf
    <3> QED
      BY <3>2, SlotsApart
  <2>2. mem' = Put(mem, SlotAt(history, 0), 0, NUL)
    <3>1. SlotAt(history, 0) + 0 = SlotAt(history, 0)
      BY <2>1
    <3>2. mem' = [mem EXCEPT ![SlotAt(history, 0) + 0] = NUL]
      BY <1>2, <1>3, <3>1, Zenon
    <3> QED
      BY <3>2 DEF Put
  <2>3. 0 \in 0..SH_MAX_COMMAND /\ 0 # SH_MAX_COMMAND /\ NUL \in Nat
    BY <1>1 DEF NUL
  <2>4. /\ Sound(mem', history, filled) /\ (~filled => SameHistory(mem, mem', history))
        /\ mem'[Base(history.head) + 0] = NUL /\ SlotAt(history, 0) = Base(history.head)
    BY <1>1, <2>2, <2>3, Written
  <2>5. Ends(mem', SlotAt(history, 0), 0)
    <3>1. mem' \in Memories /\ Top \in Nat
      BY <2>4, Sizes DEF Sound
    <3> QED
      BY <1>1, <2>1, <2>4, <3>1 DEF Ends, Memories
  <2>6. strlen(mem', SlotAt(history, 0)) = 0
    <3>1. mem' \in Memories
      BY <2>4 DEF Sound
    <3> QED
      BY <2>1, <2>5, <3>1, LengthOfText
  <2> QED
    BY <1>1, <1>2, <2>3, <2>4, <2>6, HistoryStays
<1>4. CASE idx # 0
  <2>1. idx \in 1..(history.size - 1)
    BY <1>1, <1>4
  <2>2. mem' = strcpy(mem, SlotAt(history, 0), SlotAt(history, idx))
    BY <1>2, <1>4
  <2>3. /\ Sound(mem', history, filled) /\ (~filled => SameHistory(mem, mem', history))
        /\ strlen(mem', SlotAt(history, 0)) \in 0..SH_MAX_COMMAND
    BY <1>1, <2>1, <2>2, Copied
  <2> QED
    BY <1>1, <1>2, <2>3, HistoryStays
<1> QED
  BY <1>3, <1>4

LEMMA UpStep ==
  ASSUME Inv, sh_up_arrow
  PROVE  Inv'
<1>1. CASE /\ sh_history_idx < history.size - 1
           /\ sh_pull_history(sh_history_idx + 1)
           /\ UNCHANGED <<filled, entered>>
  <2>1. sh_history_idx \in 0..(history.size - 1) /\ history.size \in 1..Places /\ Places \in Nat
    BY Sizes DEF Inv, Sound, Rings
  <2>2. sh_history_idx + 1 \in 0..(history.size - 1)
    BY <1>1, <2>1
  <2> QED
    BY <1>1, <2>2, PullStep
<1>2. CASE UNCHANGED <<shell, filled, entered>>
  <2>1. UNCHANGED <<mem, history, sh_history_idx, sh_command_idx, filled, entered>>
    BY <1>2 DEF shell
  <2> QED
    BY <2>1, ShellStays
<1> QED
  BY <1>1, <1>2 DEF sh_up_arrow

LEMMA DownStep ==
  ASSUME Inv, sh_down_arrow
  PROVE  Inv'
<1>1. CASE /\ sh_history_idx > 0
           /\ sh_pull_history(sh_history_idx - 1)
           /\ UNCHANGED <<filled, entered>>
  <2>1. sh_history_idx \in 0..(history.size - 1) /\ history.size \in 1..Places /\ Places \in Nat
    BY Sizes DEF Inv, Sound, Rings
  <2>2. sh_history_idx - 1 \in 0..(history.size - 1)
    BY <1>1, <2>1
  <2> QED
    BY <1>1, <2>2, PullStep
<1>2. CASE UNCHANGED <<shell, filled, entered>>
  <2>1. UNCHANGED <<mem, history, sh_history_idx, sh_command_idx, filled, entered>>
    BY <1>2 DEF shell
  <2> QED
    BY <2>1, ShellStays
<1> QED
  BY <1>1, <1>2 DEF sh_down_arrow

\* The arrows that scroll or move the cursor, and the idle process.
LEMMA TerminalStep ==
  ASSUME Inv, ScrollKey \/ sh_left_arrow \/ sh_right_arrow \/ idle_main \/ UNCHANGED vars
  PROVE  Inv'
<1>1. UNCHANGED <<shell, filled, entered>>
  BY DEF ScrollKey, sh_left_arrow, sh_right_arrow, idle_main, vars
<1>2. UNCHANGED <<mem, history, sh_history_idx, sh_command_idx, filled, entered>>
  BY <1>1 DEF shell
<1> QED
  BY <1>2, ShellStays

\* The line that is ended, and what is recorded of it.
LEMMA EnterStep ==
  ASSUME Inv, sh_execute
  PROVE  Inv'
<1> DEFINE m == [mem EXCEPT ![sh_command_buffer + sh_command_idx] = NUL]
           line == TextAt(m, sh_command_buffer)
           h == history.head
<1>1. /\ Sound(mem, history, filled) /\ filled \in BOOLEAN
      /\ sh_command_idx \in 0..SH_MAX_COMMAND /\ sh_history_idx \in 0..(history.size - 1)
      /\ entered \in Seq(Commands) /\ LastKept(entered)
      /\ ~filled => Recorded(mem, history, entered)
      /\ history \in Rings /\ history.size \in 1..Places
      /\ Places \in Nat /\ Places >= 2 /\ Top \in Nat /\ SH_MAX_COMMAND \in Nat
      /\ SH_MAX_HISTORY = Places - 1
  BY Sizes DEF Inv, Sound, Rings
<1>2. /\ filled' = (filled \/ sh_command_idx = SH_MAX_COMMAND)
      /\ \/ /\ mem' = m /\ sh_history_idx' = 0 /\ sh_command_idx' = 0
            /\ UNCHANGED <<history, entered>>
         \/ /\ mem' = m /\ UNCHANGED <<history, sh_history_idx, sh_command_idx, entered>>
         \/ /\ Words(line) # <<>> /\ SlotsFresh /\ sh_push_history(m)
            /\ sh_history_idx' = 0 /\ sh_command_idx' = 0
            /\ entered' = Append(entered, line)
  BY DEF sh_execute, sh_prompt
<1>3. m = Put(mem, SlotAt(history, 0), sh_command_idx, NUL)
  BY DEF sh_command_buffer, Put
<1> HIDE DEF m
<1>4. filled' \in BOOLEAN /\ (filled => filled') /\ NUL \in Nat
  BY <1>1, <1>2 DEF NUL
<1>5. /\ Sound(m, history, filled') /\ (~filled' => SameHistory(mem, m, history))
      /\ SlotAt(history, 0) = Base(h) /\ h \in 0..(Places - 1)
      /\ m[Base(h) + sh_command_idx] = NUL
  <2> DEFINE full == filled'
  <2>1. /\ full \in BOOLEAN /\ (filled => full)
        /\ sh_command_idx = SH_MAX_COMMAND => NUL = NUL /\ full
    BY <1>2, <1>4
  <2>2. Sound(mem, history, filled) /\ filled \in BOOLEAN
    BY <1>1
  <2>3. sh_command_idx \in 0..SH_MAX_COMMAND /\ NUL \in Nat
    BY <1>1, <1>4
  <2> HIDE DEF full
  <2>4. /\ Sound(m, history, full) /\ (~full => SameHistory(mem, m, history))
        /\ SlotAt(history, 0) = Base(h) /\ h \in 0..(Places - 1)
        /\ m[Base(h) + sh_command_idx] = NUL
    BY <1>3, <2>1, <2>2, <2>3, Written
  <2> QED
    BY <2>4 DEF full
<1>6. 0 \in 0..SH_MAX_COMMAND /\ 0 \in 0..(history.size - 1)
  BY <1>1
<1>7. ASSUME ~filled' PROVE Recorded(m, history, entered)
  BY <1>1, <1>2, <1>5, <1>7, RecordedSame
<1>8. sh_command_buffer = Base(h) /\ Base(h) \in Nat /\ m \in Memories
  BY <1>5, SlotsApart DEF sh_command_buffer, Sound
<1>9. PICK l \in Nat : Ends(m, Base(h), l)
  <2>1. sh_command_idx \in Nat /\ Base(h) + sh_command_idx <= Top
    <3>1. Base(h) + SH_MAX_COMMAND <= Top
      BY <1>5, SlotsApart
    <3> QED
      BY <1>1, <1>8, <3>1
  <2>2. \E l \in 0..sh_command_idx : Ends(m, Base(h), l)
    BY <1>5, <1>8, <2>1, TextEnds
  <2> QED
    BY <2>2
<1>10. line \in Commands /\ line = TextAt(m, SlotAt(history, 0))
  BY <1>5, <1>8, <1>9, LengthOfText DEF Commands
<1>11. CASE /\ mem' = m /\ UNCHANGED <<history, entered>>
            /\ sh_history_idx' \in 0..(history.size - 1)
            /\ sh_command_idx' \in 0..SH_MAX_COMMAND
  BY <1>4, <1>5, <1>11, HistoryStays
<1>12. CASE /\ Words(line) # <<>> /\ SlotsFresh /\ sh_push_history(m)
            /\ sh_history_idx' = 0 /\ sh_command_idx' = 0
            /\ entered' = Append(entered, line)
  <2>1. entered' \in Seq(Commands) /\ LastKept(entered')
    BY <1>1, <1>10, <1>12, LastKeptAppend
  <2>2. CASE /\ ~strequ(m, Base(h), SlotAt(history, 1))
             /\ history' = History!circ_buf_enqueue_head(history, 0)
             /\ mem' = Pushed(m, history')
    <3>1. filled' => history.size < Places
      BY <1>1, <1>2, <1>12 DEF SlotsFresh
    <3>2. sh_command_idx = SH_MAX_COMMAND => filled'
      BY <1>2
    <3>3. /\ Sound(mem', history', filled')
          /\ history'.size = IF history.size < Places THEN history.size + 1 ELSE history.size
          /\ ~filled' => Shifted(m, history, mem', history')
      <4> DEFINE full == filled'
                 ring == history'
      <4>1. /\ full \in BOOLEAN /\ (full => history.size < Places)
            /\ sh_command_idx = SH_MAX_COMMAND => full
        BY <1>4, <3>1, <3>2
      <4>2. /\ Sound(m, history, full) /\ m[Base(history.head) + sh_command_idx] = NUL
            /\ sh_command_idx \in 0..SH_MAX_COMMAND
        BY <1>1, <1>5
      <4>3. ring = History!circ_buf_enqueue_head(history, 0) /\ mem' = Pushed(m, ring)
        BY <2>2
      <4> HIDE DEF full, ring
      <4>4. /\ Sound(mem', ring, full)
            /\ ring.size = IF history.size < Places THEN history.size + 1 ELSE history.size
            /\ ~full => Shifted(m, history, mem', ring)
        BY <4>1, <4>2, <4>3, Kept
      <4> QED
        BY <4>4 DEF full, ring
    <3>4. 0 \in 0..(history'.size - 1)
      BY <1>1, <3>3
    <3>5. ASSUME ~filled' PROVE Recorded(mem', history', entered')
      <4>1. history.size > 1 => TextAt(m, SlotAt(history, 1)) # line
        <5> SUFFICES ASSUME history.size > 1 PROVE TextAt(m, SlotAt(history, 1)) # line
          OBVIOUS
        <5>1. 1 \in 1..(history.size - 1)
          BY <1>1
        <5>2. PICK k \in 0..SH_MAX_COMMAND : Ends(m, SlotAt(history, 1), k)
          BY <1>4, <1>5, <5>1, EntryEnds
        <5>3. SlotAt(history, 1) \in Nat /\ k \in Nat
          BY <1>1, <1>4, <1>5, <5>1, EntryEnds
        <5>4. TextAt(m, Base(h)) # TextAt(m, SlotAt(history, 1))
          BY <1>8, <1>9, <2>2, <5>2, <5>3, EqualTexts
        <5> QED
          BY <1>5, <1>10, <5>4
      <4>2. /\ Recorded(m, history, entered) /\ TextAt(m, SlotAt(history, 0)) = line
            /\ Shifted(m, history, mem', history')
        BY <1>7, <1>10, <3>3, <3>5
      <4>3. Recorded(mem', history', Append(entered, line))
        <5> HIDE DEF line
        <5> QED
          BY <1>1, <1>10, <3>3, <4>1, <4>2, RecordedPush
      <4> QED
        BY <1>12, <4>3
    <3> QED
      BY <1>4, <1>6, <1>12, <2>1, <3>3, <3>4, <3>5 DEF Inv
  <2>3. CASE /\ strequ(m, Base(h), SlotAt(history, 1))
             /\ mem' = m /\ history' = history
    <3>1. history.size > 1
      <4> SUFFICES ASSUME history.size = 1 PROVE FALSE
        BY <1>1
      <4>1. SlotAt(history, 1) = 0 /\ Ends(m, 0, 0) /\ TextAt(m, 0) = <<>>
        BY <1>4, <1>5, NoEntry
      <4>2. TextAt(m, Base(h)) = TextAt(m, 0)
        BY <1>8, <1>9, <2>3, <4>1, EqualTexts
      <4>3. line = <<>>
        BY <1>8, <4>1, <4>2
      <4> QED
        BY <1>12, <4>3, NoWords
    <3>2. TextAt(m, SlotAt(history, 1)) = line
      <4>1. 1 \in 1..(history.size - 1)
        BY <1>1, <3>1
      <4>2. PICK k \in 0..SH_MAX_COMMAND : Ends(m, SlotAt(history, 1), k)
        BY <1>4, <1>5, <4>1, EntryEnds
      <4>3. SlotAt(history, 1) \in Nat /\ k \in Nat
        BY <1>1, <1>4, <1>5, <4>1, EntryEnds
      <4>4. TextAt(m, Base(h)) = TextAt(m, SlotAt(history, 1))
        BY <1>8, <1>9, <2>3, <4>2, <4>3, EqualTexts
      <4> QED
        BY <1>5, <1>10, <4>4
    <3>3. ASSUME ~filled' PROVE Recorded(mem', history', entered')
      <4>1. Recorded(m, history, entered)
        BY <1>7, <3>3
      <4> HIDE DEF line
      <4>2. Recorded(m, history, Append(entered, line))
        BY <1>1, <1>10, <3>1, <3>2, <4>1, RecordedAgain
      <4> QED
        BY <1>12, <2>3, <4>2
    <3> QED
      BY <1>4, <1>5, <1>6, <1>12, <2>1, <2>3, <3>3 DEF Inv
  <2> QED
    BY <1>8, <1>12, <2>2, <2>3 DEF sh_push_history
<1> HIDE DEF line
<1> QED
  BY <1>1, <1>2, <1>6, <1>11, <1>12

-----------------------------------------------------------------------------
LEMMA InvInit == Init => Inv
<1> SUFFICES ASSUME Init PROVE Inv
  OBVIOUS
<1> DEFINE zero == History!circ_buf_init([i \in History!Slots |-> 0])
           blank == [a \in 0..Top |-> NUL]
<1>1. /\ history = History!circ_buf_enqueue_head(zero, 0)
      /\ mem = Pushed(blank, history)
      /\ sh_history_idx = 0 /\ sh_command_idx = 0 /\ filled = FALSE /\ entered = <<>>
  BY DEF Init, Top, Places
<1>2. Places \in Nat /\ Places >= 2 /\ Top \in Nat /\ SH_MAX_COMMAND \in Nat /\ SH_MAX_COMMAND >= 1
  BY Sizes
<1>3. History!Decrement(0) = Places - 1
  <2> DEFINE a == Places - 1
  <2>1. 0 + (SH_MAX_HISTORY + 1) - 1 = a
    BY ShellAssumption DEF Places
  <2>2. History!Decrement(0) = a % Places
    BY <2>1, Zenon DEF History!Decrement, Places
  <2>3. Places \in Nat \ {0} /\ a \in 0..(2 * Places - 1) /\ a < Places
    BY <1>2
  <2> HIDE DEF a
  <2>4. a % Places = a
    BY <2>3, OneTurn
  <2> QED
    BY <2>2, <2>4 DEF a
<1>4. history \in Rings /\ history.size = 1 /\ history.head = Places - 1
  <2>1. zero = [buf |-> [i \in 0..(Places - 1) |-> 0], head |-> 0, tail |-> 0, size |-> 0]
    BY DEF History!circ_buf_init, History!Slots, Places
  <2> HIDE DEF zero
  <2>2. /\ zero.head = 0 /\ zero.tail = 0 /\ zero.size = 0
        /\ zero.size < SH_MAX_HISTORY + 1 /\ zero.size + 1 = 1
    BY <2>1, ShellAssumption
  <2>3. history = [zero EXCEPT !.head = Places - 1, !.buf[Places - 1] = 0,
                               !.size = 1, !.tail = 0]
    BY <1>1, <1>3, <2>2 DEF History!circ_buf_enqueue_head
  <2>4. history = [buf |-> [i \in 0..(Places - 1) |-> 0], head |-> Places - 1,
                   tail |-> 0, size |-> 1]
    BY <1>2, <2>1, <2>3
  <2> QED
    BY <1>2, <2>4 DEF Rings
<1>5. mem \in Memories /\ mem[0] = NUL
  <2>1. mem = [a \in 0..Top |-> IF a = SlotAt(history, 0) THEN NUL
                                ELSE IF a > SlotAt(history, 0)
                                        /\ a < SlotAt(history, 0) + SH_MAX_COMMAND
                                THEN UNWRITTEN ELSE NUL]
    BY <1>1 DEF Pushed
  <2>2. SlotAt(history, 0) \in Nat
    <3>1. 0 \in 0..(Places - 1)
      BY <1>2
    <3>2. SlotAt(history, 0) = Base(Phys(history, 0)) /\ Phys(history, 0) \in 0..(Places - 1)
      BY <1>4, <3>1, PlaceOf
    <3> QED
      BY <3>2, SlotsApart
  <2>3. mem \in Memories
    BY <2>1 DEF Memories, NUL, UNWRITTEN
  <2>4. 0 \in 0..Top /\ ~(0 > SlotAt(history, 0))
    BY <1>2, <2>2
  <2> QED
    BY <2>1, <2>3, <2>4
<1>6. Sound(mem, history, filled)
  BY <1>2, <1>4, <1>5 DEF Sound
<1>7. entered \in Seq(Commands) /\ LastKept(entered) /\ Len(NoRepeats(entered)) = 0
  <2>1. <<>> \in Seq(Commands) /\ Len(<<>>) = 0
    OBVIOUS
  <2>2. LastKept(<<>>)
    BY <2>1, NoRepeatsEmpty DEF LastKept
  <2> QED
    BY <1>1, <2>1, <2>2, NoRepeatsEmpty
<1>8. Recorded(mem, history, entered)
  <2>1. Min({0, SH_MAX_HISTORY}) = 0
    BY ShellAssumption, MinTwo
  <2> QED
    BY <1>4, <1>7, <2>1 DEF Recorded
<1>9. 0 \in 0..SH_MAX_COMMAND /\ 0 \in 0..(history.size - 1)
  BY <1>2, <1>4
<1> QED
  BY <1>1, <1>6, <1>7, <1>8, <1>9 DEF Inv

LEMMA InvNext == Inv /\ [Next]_vars => Inv'
<1> SUFFICES ASSUME Inv, [Next]_vars PROVE Inv'
  OBVIOUS
<1>1. ASSUME NEW ch \in Typed, Type(ch) PROVE Inv'
  BY <1>1, TypeStep
<1>2. CASE sh_backspace
  BY <1>2, BackspaceStep
<1>3. CASE sh_up_arrow
  BY <1>3, UpStep
<1>4. CASE sh_down_arrow
  BY <1>4, DownStep
<1>5. CASE ScrollKey \/ sh_left_arrow \/ sh_right_arrow \/ idle_main \/ UNCHANGED vars
  BY <1>5, TerminalStep
<1>6. CASE sh_execute
  BY <1>6, EnterStep
<1> QED
  BY <1>1, <1>2, <1>3, <1>4, <1>5, <1>6 DEF Next

-----------------------------------------------------------------------------
(***************************************************************************)
(* Until a command fills its slot, the history holds the commands that     *)
(* were entered, the last first, without repetitions, as many as there is  *)
(* room for: for every length of the history and of a command, for every   *)
(* sequence of keys, also where sh_push_history reuses the oldest slot.    *)
(***************************************************************************)
THEOREM ShellHistoryKept == Spec => []HistoryKept
<1>1. Inv => HistoryKept
  BY DEF Inv, Recorded, HistoryKept
<1> QED
  BY <1>1, InvInit, InvNext, PTL DEF Spec

\* No index leaves its buffer, and every entry that sh_pull_history copies or
\* sh_print_history prints ends inside the memory, within a slot.
HistoryEnds ==
  /\ sh_command_idx \in 0..SH_MAX_COMMAND
  /\ sh_history_idx \in 0..(history.size - 1)
  /\ \A n \in 1..(history.size - 1) :
       \E l \in 0..SH_MAX_COMMAND : Ends(mem, SlotAt(history, n), l)

(***************************************************************************)
(* The bytes that sh_execute and sh_pull_history write without a test stay *)
(* in the slot of the command or are the NUL behind it: no text of the     *)
(* history loses its end, also after a command has filled its slot, up to  *)
(* the first slot that is used again (SlotsFresh).                         *)
(***************************************************************************)
THEOREM ShellHistoryEnds == Spec => []HistoryEnds
<1>1. Inv => HistoryEnds
  BY EntryEnds DEF Inv, HistoryEnds
<1> QED
  BY <1>1, InvInit, InvNext, PTL DEF Spec
=============================================================================
