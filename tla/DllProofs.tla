------------------------------ MODULE DllProofs ------------------------------
(***************************************************************************)
(* Proofs about Dll, for any number of lists and nodes: the back pointers  *)
(* mirror the forward ones, and the pointers implement sequences.          *)
(***************************************************************************)
EXTENDS Dll, SequenceTheorems, FiniteSetTheorems, WellFoundedInduction, TLAPS

-----------------------------------------------------------------------------
(***************************************************************************)
(* Sequences                                                               *)
(***************************************************************************)

\* The sequence with a node more at position i.
LEMMA Inserted ==
  ASSUME NEW t \in Seq(Nodes), NEW i \in 1..(Len(t) + 1), NEW n \in Nodes
  PROVE  LET u == Seqs!InsertAt(t, i, n)
         IN  /\ u \in Seq(Nodes) /\ Len(u) = Len(t) + 1
             /\ \A j \in 1..(Len(t) + 1) :
                  u[j] = IF j < i THEN t[j] ELSE IF j = i THEN n ELSE t[j - 1]
<1> DEFINE k == Len(t)
           a == SubSeq(t, 1, i - 1)
           b == <<n>>
           c == SubSeq(t, i, k)
           d == a \o b
           u == d \o c
<1>1. k \in Nat /\ \A j \in 1..k : t[j] \in Nodes
  BY LenProperties, ElementOfSeq
<1> HIDE DEF k
<1>2. i \in Int /\ 1 <= i /\ i <= k + 1
  BY <1>1 DEF k
<1>3. /\ a \in Seq(Nodes) /\ Len(a) = i - 1
      /\ \A j \in 1..(i - 1) : a[j] = t[j]
  <2>1. \A j \in 1..(i - 1) : t[j] \in Nodes
    BY <1>1, <1>2
  <2>2. /\ a \in Seq(Nodes) /\ Len(a) = IF 1 <= i - 1 THEN i - 1 - 1 + 1 ELSE 0
        /\ \A j \in 1..(i - 1 - 1 + 1) : a[j] = t[1 + j - 1]
    BY <1>2, <2>1, SubSeqProperties
  <2> HIDE DEF a
  <2> QED
    BY <1>2, <2>2
<1>4. /\ c \in Seq(Nodes) /\ Len(c) = k - i + 1
      /\ \A j \in 1..(k - i + 1) : c[j] = t[i + j - 1]
  <2>1. \A j \in i..k : t[j] \in Nodes
    BY <1>1, <1>2
  <2>2. /\ c \in Seq(Nodes) /\ Len(c) = IF i <= k THEN k - i + 1 ELSE 0
        /\ \A j \in 1..(k - i + 1) : c[j] = t[i + j - 1]
    BY <1>1, <1>2, <2>1, SubSeqProperties
  <2> HIDE DEF c
  <2> QED
    BY <1>1, <1>2, <2>2
<1>5. b \in Seq(Nodes) /\ Len(b) = 1 /\ b[1] = n
  OBVIOUS
<1> HIDE DEF a, b, c
<1>6. /\ d \in Seq(Nodes) /\ Len(d) = i
      /\ \A j \in 1..i : d[j] = IF j <= i - 1 THEN a[j] ELSE b[j - (i - 1)]
  <2>1. /\ d \in Seq(Nodes) /\ Len(d) = Len(a) + Len(b)
        /\ \A j \in 1..(Len(a) + Len(b)) :
             d[j] = IF j <= Len(a) THEN a[j] ELSE b[j - Len(a)]
    BY <1>3, <1>5, ConcatProperties
  <2> HIDE DEF d
  <2> QED
    BY <1>2, <1>3, <1>5, <2>1
<1> HIDE DEF d
<1>7. \A j \in 1..i : d[j] = IF j < i THEN t[j] ELSE n
  <2> TAKE j \in 1..i
  <2>1. CASE j < i
    BY <1>2, <1>3, <1>6, <2>1
  <2>2. CASE j = i
    BY <1>2, <1>5, <1>6, <2>2
  <2> QED
    BY <1>2, <2>1, <2>2
<1>8. /\ u \in Seq(Nodes) /\ Len(u) = k + 1
      /\ \A j \in 1..(k + 1) : u[j] = IF j <= i THEN d[j] ELSE c[j - i]
  <2>1. /\ u \in Seq(Nodes) /\ Len(u) = Len(d) + Len(c)
        /\ \A j \in 1..(Len(d) + Len(c)) :
             u[j] = IF j <= Len(d) THEN d[j] ELSE c[j - Len(d)]
    BY <1>4, <1>6, ConcatProperties
  <2> HIDE DEF u
  <2>2. Len(d) + Len(c) = k + 1
    BY <1>1, <1>2, <1>4, <1>6
  <2> QED
    BY <1>2, <1>6, <2>1, <2>2
<1> HIDE DEF u
<1>9. ASSUME NEW j \in 1..(k + 1)
      PROVE  u[j] = IF j < i THEN t[j] ELSE IF j = i THEN n ELSE t[j - 1]
  <2>1. CASE j <= i
    BY <1>2, <1>7, <1>8, <2>1
  <2>2. CASE j > i
    <3>1. u[j] = c[j - i]
      BY <1>2, <1>8, <2>2
    <3>2. j - i \in 1..(k - i + 1) /\ i + (j - i) - 1 = j - 1
      BY <1>1, <1>2, <2>2
    <3>3. c[j - i] = t[j - 1]
      BY <1>4, <3>2
    <3> QED
      BY <1>2, <2>2, <3>1, <3>3
  <2> QED
    BY <1>2, <2>1, <2>2
<1>10. Seqs!InsertAt(t, i, n) = u
  BY DEF Seqs!InsertAt, u, d, a, b, c, k
<1> QED
  BY <1>8, <1>9, <1>10 DEF k

\* The sequence without its node at position i.
LEMMA Removed ==
  ASSUME NEW t \in Seq(Nodes), NEW i \in 1..Len(t)
  PROVE  LET u == Seqs!RemoveAt(t, i)
         IN  /\ u \in Seq(Nodes) /\ Len(u) = Len(t) - 1
             /\ \A j \in 1..(Len(t) - 1) : u[j] = IF j < i THEN t[j] ELSE t[j + 1]
<1> DEFINE k == Len(t)
           a == SubSeq(t, 1, i - 1)
           c == SubSeq(t, i + 1, k)
           u == a \o c
<1>1. k \in Nat /\ \A j \in 1..k : t[j] \in Nodes
  BY LenProperties, ElementOfSeq
<1> HIDE DEF k
<1>2. i \in Int /\ 1 <= i /\ i <= k
  BY <1>1 DEF k
<1>3. /\ a \in Seq(Nodes) /\ Len(a) = i - 1
      /\ \A j \in 1..(i - 1) : a[j] = t[j]
  <2>1. \A j \in 1..(i - 1) : t[j] \in Nodes
    BY <1>1, <1>2
  <2>2. /\ a \in Seq(Nodes) /\ Len(a) = IF 1 <= i - 1 THEN i - 1 - 1 + 1 ELSE 0
        /\ \A j \in 1..(i - 1 - 1 + 1) : a[j] = t[1 + j - 1]
    BY <1>2, <2>1, SubSeqProperties
  <2> HIDE DEF a
  <2> QED
    BY <1>2, <2>2
<1>4. /\ c \in Seq(Nodes) /\ Len(c) = k - i
      /\ \A j \in 1..(k - i) : c[j] = t[i + j]
  <2>1. (\A j \in (i + 1)..k : t[j] \in Nodes) /\ i + 1 \in Int
    BY <1>1, <1>2
  <2>2. /\ c \in Seq(Nodes) /\ Len(c) = IF i + 1 <= k THEN k - (i + 1) + 1 ELSE 0
        /\ \A j \in 1..(k - (i + 1) + 1) : c[j] = t[i + 1 + j - 1]
    BY <1>1, <1>2, <2>1, SubSeqProperties
  <2> HIDE DEF c
  <2> QED
    BY <1>1, <1>2, <2>2
<1> HIDE DEF a, c
<1>5. /\ u \in Seq(Nodes) /\ Len(u) = k - 1
      /\ \A j \in 1..(k - 1) : u[j] = IF j <= i - 1 THEN a[j] ELSE c[j - (i - 1)]
  <2>1. /\ u \in Seq(Nodes) /\ Len(u) = Len(a) + Len(c)
        /\ \A j \in 1..(Len(a) + Len(c)) :
             u[j] = IF j <= Len(a) THEN a[j] ELSE c[j - Len(a)]
    BY <1>3, <1>4, ConcatProperties
  <2> HIDE DEF u
  <2>2. Len(a) + Len(c) = k - 1
    BY <1>1, <1>2, <1>3, <1>4
  <2> QED
    BY <1>2, <1>3, <2>1, <2>2
<1> HIDE DEF u
<1>6. ASSUME NEW j \in 1..(k - 1) PROVE u[j] = IF j < i THEN t[j] ELSE t[j + 1]
  <2>1. CASE j < i
    BY <1>1, <1>2, <1>3, <1>5, <2>1
  <2>2. CASE j >= i
    <3>1. u[j] = c[j - (i - 1)]
      BY <1>1, <1>2, <1>5, <2>2
    <3>2. j - (i - 1) \in 1..(k - i) /\ i + (j - (i - 1)) = j + 1
      BY <1>1, <1>2, <2>2
    <3>3. c[j - (i - 1)] = t[j + 1]
      BY <1>4, <3>2
    <3> QED
      BY <1>2, <2>2, <3>1, <3>3
  <2> QED
    BY <1>1, <1>2, <2>1, <2>2
<1>7. Seqs!RemoveAt(t, i) = u
  BY DEF Seqs!RemoveAt, u, a, c, k
<1> QED
  BY <1>5, <1>6, <1>7 DEF k

-----------------------------------------------------------------------------
(***************************************************************************)
(* Following the next pointers                                             *)
(***************************************************************************)
QType == [head : [Lists -> Cells], tail : [Lists -> Cells], size : [Lists -> Nat],
          prev : [Cells -> Cells], next : [Cells -> Cells],
          list : [Nodes -> Lists \cup {NULL}]]

\* The nodes of t, in this order, are the list l.
Chain(s, l, t) ==
  /\ s.size[l] = Len(t)
  /\ Len(t) = 0 => s.head[l] = NULL /\ s.tail[l] = NULL
  /\ Len(t) > 0 => /\ s.head[l] = t[1] /\ s.prev[t[1]] = NULL
                   /\ s.tail[l] = t[Len(t)] /\ s.next[t[Len(t)]] = NULL
  /\ \A i \in 1..Len(t) : s.list[t[i]] = l
  /\ \A i \in 1..(Len(t) - 1) : s.next[t[i]] = t[i + 1] /\ s.prev[t[i + 1]] = t[i]
  /\ \A i, j \in 1..Len(t) : t[i] = t[j] => i = j

\* The equation of the function nth of Forward, and its solution.
Walk(s, l, f) == [i \in 1..s.size[l] |-> IF i = 1 THEN s.head[l] ELSE s.next[f[i - 1]]]

Followed(s, l) == [i \in 1..s.size[l] |-> (CHOOSE f : f = Walk(s, l, f))[i]]

\* Forward follows the pointers of q.
LEMMA ForwardFollows ==
  ASSUME NEW l
  PROVE  Forward(l) = Followed(q, l) /\ Forward(l)' = Followed(q', l)
<1>1. Forward(l) = Followed(q, l)
  BY DEF Forward, Followed, Walk
<1>2. Forward(l)' = Followed(q', l)
  BY DEF Forward, Followed, Walk
<1> QED
  BY <1>1, <1>2

\* What holds of a number when it holds of the one before holds up to N.
LEMMA CountUp ==
  ASSUME NEW N \in Nat, NEW T, 0 \in T, \A n \in 1..N : n - 1 \in T => n \in T
  PROVE  \A n \in 0..N : n \in T
<1> DEFINE S == {n \in 0..N : n \notin T}
           Less == {ss \in Nat \X Nat : ss[1] < ss[2]}
<1> SUFFICES ASSUME S # {} PROVE FALSE
  OBVIOUS
<1>1. IsWellFoundedOn(Less, Nat)
  BY NatLessThanWellFounded DEF OpToRel
<1>2. S \in SUBSET Nat
  OBVIOUS
<1> HIDE DEF Less
<1>3. PICK x \in S : \A y \in S : ~(<<y, x>> \in Less)
  BY <1>1, <1>2, WFMin
<1>4. x \in 1..N /\ x - 1 \in 0..N
  OBVIOUS
<1>5. x - 1 \in S
  BY <1>3, <1>4
<1>6. <<x - 1, x>> \in Less
  BY <1>4 DEF Less
<1> QED
  BY <1>3, <1>5, <1>6

\* Following the pointers of a chain gives its sequence.
LEMMA ChainFollowed ==
  ASSUME NEW s, NEW l, NEW t \in Seq(Nodes), Chain(s, l, t)
  PROVE  Followed(s, l) = t
<1> DEFINE k == Len(t)
           f == CHOOSE g : g = Walk(s, l, g)
<1>1. k \in Nat /\ t \in [1..k -> Nodes]
  BY LenProperties
<1>2. /\ s.size[l] = k /\ (k > 0 => s.head[l] = t[1])
      /\ \A i \in 1..(k - 1) : s.next[t[i]] = t[i + 1]
  BY DEF Chain
<1> HIDE DEF k
<1>3. ASSUME NEW i \in 1..k
      PROVE  t[i] = IF i = 1 THEN s.head[l] ELSE s.next[t[i - 1]]
  <2>1. CASE i = 1
    BY <1>1, <1>2, <2>1
  <2>2. CASE i # 1
    <3>1. i - 1 \in 1..(k - 1) /\ i - 1 + 1 = i
      BY <1>1, <2>2
    <3> QED
      BY <1>2, <2>2, <3>1
  <2> QED
    BY <2>1, <2>2
<1>4. t = [i \in 1..k |-> IF i = 1 THEN s.head[l] ELSE s.next[t[i - 1]]]
  BY <1>1, <1>3
<1>5. t = Walk(s, l, t)
  BY <1>2, <1>4 DEF Walk
<1>6. f = Walk(s, l, f)
  BY <1>5
<1> HIDE DEF f
<1>7. \A i \in 1..k : f[i] = IF i = 1 THEN s.head[l] ELSE s.next[f[i - 1]]
  BY <1>2, <1>6 DEF Walk
<1> DEFINE T == {n \in 0..k : n = 0 \/ f[n] = t[n]}
<1>8. 0 \in T
  BY <1>1
<1>9. ASSUME NEW n \in 1..k, n - 1 \in T PROVE n \in T
  <2>1. CASE n = 1
    BY <1>3, <1>7, <2>1
  <2>2. CASE n # 1
    <3>1. f[n - 1] = t[n - 1]
      BY <1>9, <2>2
    <3> QED
      BY <1>3, <1>7, <2>2, <3>1
  <2> QED
    BY <2>1, <2>2
<1> HIDE DEF T
<1>10. \A n \in 0..k : n \in T
  BY <1>1, <1>8, <1>9, CountUp
<1>11. \A n \in 1..k : f[n] = t[n]
  BY <1>1, <1>10 DEF T
<1>12. [i \in 1..k |-> f[i]] = t
  BY <1>1, <1>11
<1> QED
  BY <1>2, <1>12 DEF Followed, f

-----------------------------------------------------------------------------
(***************************************************************************)
(* A node that enters, and one that leaves                                 *)
(***************************************************************************)

\* The neighbours of position i: the node before it and the node at it.
Before(t, i) == IF i = 1 THEN NULL ELSE t[i - 1]
From(t, i) == IF i = Len(t) + 1 THEN NULL ELSE t[i]

\* The pointers r are s with n entered into l, whose sequence is t, at i.
Enters(s, r, l, t, i, n) ==
  /\ r \in QType
  /\ \A y \in Nodes :
       /\ r.next[y] = IF y = n THEN From(t, i) ELSE IF y = Before(t, i) THEN n ELSE s.next[y]
       /\ r.prev[y] = IF y = n THEN Before(t, i) ELSE IF y = From(t, i) THEN n ELSE s.prev[y]
       /\ r.list[y] = IF y = n THEN l ELSE s.list[y]
  /\ \A m \in Lists :
       /\ r.head[m] = IF m = l /\ i = 1 THEN n ELSE s.head[m]
       /\ r.tail[m] = IF m = l /\ i = Len(t) + 1 THEN n ELSE s.tail[m]
       /\ r.size[m] = IF m = l THEN Len(t) + 1 ELSE s.size[m]

\* The pointers r are s without the node at position i of l.
Leaves(s, r, l, t, i) ==
  /\ r \in QType
  /\ \A y \in Nodes : y # t[i] =>
       /\ r.next[y] = IF y = Before(t, i) THEN From(t, i + 1) ELSE s.next[y]
       /\ r.prev[y] = IF y = From(t, i + 1) THEN Before(t, i) ELSE s.prev[y]
  /\ \A y \in Nodes : r.list[y] = s.list[y]
  /\ \A m \in Lists :
       /\ r.head[m] = IF m = l /\ i = 1 THEN From(t, 2) ELSE s.head[m]
       /\ r.tail[m] = IF m = l /\ i = Len(t) THEN Before(t, i) ELSE s.tail[m]
       /\ r.size[m] = IF m = l THEN Len(t) - 1 ELSE s.size[m]

\* A node enters its list at position i.
LEMMA EnterChain ==
  ASSUME NEW s, NEW l \in Lists, NEW t \in Seq(Nodes), Chain(s, l, t), NEW n \in Nodes,
         \A j \in 1..Len(t) : t[j] # n, NEW i \in 1..(Len(t) + 1),
         NEW r, Enters(s, r, l, t, i, n)
  PROVE  Chain(r, l, Seqs!InsertAt(t, i, n))
<1> DEFINE k == Len(t)
           u == Seqs!InsertAt(t, i, n)
           p == Before(t, i)
           x == From(t, i)
<1>1. /\ Len(u) = k + 1
      /\ \A j \in 1..(k + 1) : u[j] = IF j < i THEN t[j] ELSE IF j = i THEN n ELSE t[j - 1]
  BY Inserted
<1>2. k \in Nat /\ \A j \in 1..k : t[j] \in Nodes /\ t[j] # n
  BY LenProperties, ElementOfSeq
<1>3. /\ s.size[l] = k
      /\ k > 0 => /\ s.head[l] = t[1] /\ s.prev[t[1]] = NULL
                  /\ s.tail[l] = t[k] /\ s.next[t[k]] = NULL
      /\ \A j \in 1..k : s.list[t[j]] = l
      /\ \A j \in 1..(k - 1) : s.next[t[j]] = t[j + 1] /\ s.prev[t[j + 1]] = t[j]
      /\ \A j, m \in 1..k : t[j] = t[m] => j = m
  BY DEF Chain
<1>4. /\ \A y \in Nodes :
           /\ r.next[y] = IF y = n THEN x ELSE IF y = p THEN n ELSE s.next[y]
           /\ r.prev[y] = IF y = n THEN p ELSE IF y = x THEN n ELSE s.prev[y]
           /\ r.list[y] = IF y = n THEN l ELSE s.list[y]
      /\ r.head[l] = IF i = 1 THEN n ELSE s.head[l]
      /\ r.tail[l] = IF i = k + 1 THEN n ELSE s.tail[l]
      /\ r.size[l] = k + 1
  BY DEF Enters
<1>5. p = (IF i = 1 THEN NULL ELSE t[i - 1]) /\ x = (IF i = k + 1 THEN NULL ELSE t[i])
  BY DEF Before, From
<1>6. NULL \notin Nodes /\ i \in 1..(k + 1) /\ i \in Nat
  BY <1>2, DllAssumption
<1> HIDE DEF u, k, p, x
<1>7. \A j \in 1..k : /\ t[j] = p <=> j = i - 1
                      /\ t[j] = x <=> j = i
  <2> TAKE j \in 1..k
  <2>1. t[j] = p <=> j = i - 1
    <3>1. CASE i = 1
      BY <1>2, <1>5, <1>6, <3>1
    <3>2. CASE i # 1
      <4>1. i - 1 \in 1..k /\ p = t[i - 1]
        BY <1>2, <1>5, <1>6, <3>2
      <4> QED
        BY <1>3, <4>1
    <3> QED
      BY <3>1, <3>2
  <2>2. t[j] = x <=> j = i
    <3>1. CASE i = k + 1
      BY <1>2, <1>5, <1>6, <3>1
    <3>2. CASE i # k + 1
      <4>1. i \in 1..k /\ x = t[i]
        BY <1>2, <1>5, <1>6, <3>2
      <4> QED
        BY <1>3, <4>1
    <3> QED
      BY <3>1, <3>2
  <2> QED
    BY <2>1, <2>2
<1>8. \A j \in 1..k : /\ r.next[t[j]] = IF j = i - 1 THEN n ELSE s.next[t[j]]
                      /\ r.prev[t[j]] = IF j = i THEN n ELSE s.prev[t[j]]
                      /\ r.list[t[j]] = l
  <2> TAKE j \in 1..k
  <2>1. t[j] \in Nodes /\ t[j] # n /\ s.list[t[j]] = l
    BY <1>2, <1>3
  <2>2. (t[j] = p <=> j = i - 1) /\ (t[j] = x <=> j = i)
    BY <1>7
  <2>3. /\ r.next[t[j]] = IF t[j] = p THEN n ELSE s.next[t[j]]
        /\ r.prev[t[j]] = IF t[j] = x THEN n ELSE s.prev[t[j]]
        /\ r.list[t[j]] = s.list[t[j]]
    BY <1>4, <2>1
  <2> QED
    BY <2>1, <2>2, <2>3
<1>9. r.next[n] = x /\ r.prev[n] = p /\ r.list[n] = l
  BY <1>4
<1>10. r.head[l] = u[1] /\ r.prev[u[1]] = NULL
  <2>1. CASE i = 1
    BY <1>1, <1>2, <1>4, <1>5, <1>9, <2>1
  <2>2. CASE i # 1
    <3>1. 1 \in 1..k /\ u[1] = t[1] /\ k > 0
      BY <1>1, <1>2, <1>6, <2>2
    <3> QED
      BY <1>3, <1>4, <1>8, <2>2, <3>1
  <2> QED
    BY <2>1, <2>2
<1>11. r.tail[l] = u[k + 1] /\ r.next[u[k + 1]] = NULL
  <2>1. CASE i = k + 1
    BY <1>1, <1>2, <1>4, <1>5, <1>9, <2>1
  <2>2. CASE i # k + 1
    <3>1. k \in 1..k /\ u[k + 1] = t[k] /\ k > 0 /\ k # i - 1
      BY <1>1, <1>2, <1>6, <2>2
    <3> QED
      BY <1>3, <1>4, <1>8, <2>2, <3>1
  <2> QED
    BY <2>1, <2>2
<1>12. \A j \in 1..(k + 1) : r.list[u[j]] = l
  <2> TAKE j \in 1..(k + 1)
  <2>1. CASE j < i
    <3>1. j \in 1..k
      BY <1>2, <1>6, <2>1
    <3>2. u[j] = t[j]
      BY <1>1, <2>1
    <3> QED
      BY <1>8, <3>1, <3>2
  <2>2. CASE j = i
    BY <1>1, <1>2, <1>6, <1>9, <2>2
  <2>3. CASE j > i
    <3>1. j - 1 \in 1..k /\ ~(j < i) /\ j # i
      BY <1>2, <1>6, <2>3
    <3>2. u[j] = t[j - 1]
      BY <1>1, <3>1
    <3> QED
      BY <1>8, <3>1, <3>2
  <2> QED
    BY <1>6, <2>1, <2>2, <2>3
<1>13. \A j \in 1..k : r.next[u[j]] = u[j + 1] /\ r.prev[u[j + 1]] = u[j]
  <2> TAKE j \in 1..k
  <2>0. j \in 1..(k + 1) /\ j + 1 \in 1..(k + 1)
    BY <1>2
  <2>1. CASE j < i - 1
    <3>1. u[j] = t[j] /\ u[j + 1] = t[j + 1] /\ j \in 1..(k - 1) /\ j + 1 \in 1..k /\ j + 1 # i
      BY <1>1, <1>2, <1>6, <2>0, <2>1
    <3> QED
      BY <1>3, <1>8, <2>1, <3>1
  <2>2. CASE j = i - 1
    <3>1. u[j] = t[j] /\ u[j + 1] = n /\ i # 1
      BY <1>1, <1>2, <1>6, <2>0, <2>2
    <3> QED
      BY <1>5, <1>8, <1>9, <2>2, <3>1
  <2>3. CASE j = i
    <3>1. u[j] = n /\ u[j + 1] = t[j] /\ i # k + 1
      BY <1>1, <1>2, <1>6, <2>0, <2>3
    <3> QED
      BY <1>5, <1>8, <1>9, <2>3, <3>1
  <2>4. CASE j > i
    <3>1. /\ u[j] = t[j - 1] /\ u[j + 1] = t[j] /\ j - 1 \in 1..(k - 1) /\ j - 1 \in 1..k
          /\ j - 1 # i - 1 /\ j # i /\ (j - 1) + 1 = j
      BY <1>1, <1>2, <1>6, <2>0, <2>4
    <3> QED
      BY <1>3, <1>8, <3>1
  <2> QED
    BY <1>6, <2>1, <2>2, <2>3, <2>4
<1>14. ASSUME NEW j \in 1..(k + 1), NEW m \in 1..(k + 1), u[j] = u[m] PROVE j = m
  <2> DEFINE at(y) == IF y < i THEN y ELSE y - 1
  <2>1. \A y \in 1..(k + 1) : y # i => at(y) \in 1..k /\ u[y] = t[at(y)]
    BY <1>1, <1>2, <1>6
  <2>2. CASE j = i \/ m = i
    BY <1>1, <1>2, <1>14, <2>1, <2>2
  <2>3. CASE j # i /\ m # i
    <3>1. at(j) = at(m)
      BY <1>3, <1>14, <2>1, <2>3
    <3> QED
      BY <1>2, <1>6, <2>3, <3>1
  <2> QED
    BY <2>2, <2>3
<1>15. Len(u) = k + 1 /\ Len(u) - 1 = k /\ Len(u) > 0 /\ Len(u) # 0
  <2>1. Len(u) = k + 1
    BY <1>1
  <2>2. k \in Nat
    BY <1>2
  <2> QED
    BY <2>1, <2>2
<1>16. Chain(r, l, u)
  <2>1. r.size[l] = Len(u)
    BY <1>4, <1>15
  <2>2. /\ r.head[l] = u[1] /\ r.prev[u[1]] = NULL
        /\ r.tail[l] = u[Len(u)] /\ r.next[u[Len(u)]] = NULL
    BY <1>10, <1>11, <1>15
  <2>3. \A j \in 1..Len(u) : r.list[u[j]] = l
    BY <1>12, <1>15
  <2>4. \A j \in 1..(Len(u) - 1) : r.next[u[j]] = u[j + 1] /\ r.prev[u[j + 1]] = u[j]
    BY <1>13, <1>15
  <2>5. \A j, m \in 1..Len(u) : u[j] = u[m] => j = m
    BY <1>14, <1>15
  <2> QED
    BY <1>15, <2>1, <2>2, <2>3, <2>4, <2>5 DEF Chain
<1> QED
  BY <1>16 DEF u

\* The node at position i leaves its list.
LEMMA LeaveChain ==
  ASSUME NEW s, NEW l \in Lists, NEW t \in Seq(Nodes), Chain(s, l, t),
         NEW i \in 1..Len(t), NEW r, Leaves(s, r, l, t, i)
  PROVE  Chain(r, l, Seqs!RemoveAt(t, i))
<1> DEFINE k == Len(t)
           u == Seqs!RemoveAt(t, i)
           p == Before(t, i)
           x == From(t, i + 1)
<1>1. Len(u) = k - 1 /\ \A j \in 1..(k - 1) : u[j] = IF j < i THEN t[j] ELSE t[j + 1]
  BY Removed
<1>2. k \in Nat /\ \A j \in 1..k : t[j] \in Nodes
  BY LenProperties, ElementOfSeq
<1>3. /\ s.size[l] = k
      /\ k > 0 => /\ s.head[l] = t[1] /\ s.prev[t[1]] = NULL
                  /\ s.tail[l] = t[k] /\ s.next[t[k]] = NULL
      /\ \A j \in 1..k : s.list[t[j]] = l
      /\ \A j \in 1..(k - 1) : s.next[t[j]] = t[j + 1] /\ s.prev[t[j + 1]] = t[j]
      /\ \A j, m \in 1..k : t[j] = t[m] => j = m
  BY DEF Chain
<1>4. /\ \A y \in Nodes : y # t[i] => /\ r.next[y] = IF y = p THEN x ELSE s.next[y]
                                      /\ r.prev[y] = IF y = x THEN p ELSE s.prev[y]
      /\ \A y \in Nodes : r.list[y] = s.list[y]
      /\ r.head[l] = IF i = 1 THEN From(t, 2) ELSE s.head[l]
      /\ r.tail[l] = IF i = k THEN p ELSE s.tail[l]
      /\ r.size[l] = k - 1
  BY DEF Leaves
<1>5. NULL \notin Nodes /\ i \in 1..k /\ i \in Nat /\ k > 0 /\ 1 \in 1..k /\ k \in 1..k
  BY <1>2, DllAssumption
<1>6. /\ p = (IF i = 1 THEN NULL ELSE t[i - 1]) /\ x = (IF i = k THEN NULL ELSE t[i + 1])
      /\ From(t, 2) = IF k = 1 THEN NULL ELSE t[2]
  <2> HIDE DEF k
  <2>1. (i + 1 = k + 1 <=> i = k) /\ (2 = k + 1 <=> k = 1)
    BY <1>2, <1>5
  <2>2. p = IF i = 1 THEN NULL ELSE t[i - 1]
    BY DEF Before
  <2>3. x = IF i + 1 = k + 1 THEN NULL ELSE t[i + 1]
    BY DEF From, k
  <2>4. From(t, 2) = IF 2 = k + 1 THEN NULL ELSE t[2]
    BY DEF From, k
  <2> HIDE DEF x, p
  <2> QED
    BY <2>1, <2>2, <2>3, <2>4
<1> HIDE DEF u, k, p, x
<1>7. \A j \in 1..k : /\ t[j] = p <=> j = i - 1
                      /\ t[j] = x <=> j = i + 1
                      /\ t[j] = t[i] <=> j = i
  <2> TAKE j \in 1..k
  <2>1. t[j] = p <=> j = i - 1
    <3>1. CASE i = 1
      BY <1>2, <1>5, <1>6, <3>1
    <3>2. CASE i # 1
      <4>1. i - 1 \in 1..k /\ p = t[i - 1]
        BY <1>2, <1>5, <1>6, <3>2
      <4> QED
        BY <1>3, <4>1
    <3> QED
      BY <3>1, <3>2
  <2>2. t[j] = x <=> j = i + 1
    <3>1. CASE i = k
      BY <1>2, <1>5, <1>6, <3>1
    <3>2. CASE i # k
      <4>1. i + 1 \in 1..k /\ x = t[i + 1]
        BY <1>2, <1>5, <1>6, <3>2
      <4> QED
        BY <1>3, <4>1
    <3> QED
      BY <3>1, <3>2
  <2>3. t[j] = t[i] <=> j = i
    BY <1>3, <1>5
  <2> QED
    BY <2>1, <2>2, <2>3
<1>8. \A j \in 1..k : j # i => /\ r.next[t[j]] = IF j = i - 1 THEN x ELSE s.next[t[j]]
                               /\ r.prev[t[j]] = IF j = i + 1 THEN p ELSE s.prev[t[j]]
                               /\ r.list[t[j]] = l
  <2> TAKE j \in 1..k
  <2> HAVE j # i
  <2>1. t[j] \in Nodes /\ s.list[t[j]] = l
    BY <1>2, <1>3
  <2>2. (t[j] = p <=> j = i - 1) /\ (t[j] = x <=> j = i + 1) /\ t[j] # t[i]
    BY <1>7
  <2>3. /\ r.next[t[j]] = IF t[j] = p THEN x ELSE s.next[t[j]]
        /\ r.prev[t[j]] = IF t[j] = x THEN p ELSE s.prev[t[j]]
        /\ r.list[t[j]] = s.list[t[j]]
    BY <1>4, <2>1, <2>2
  <2> QED
    BY <2>1, <2>2, <2>3
<1>9. CASE k = 1
  <2>1. i = 1 /\ Len(u) = 0
    BY <1>1, <1>5, <1>9
  <2>2. r.size[l] = 0 /\ r.head[l] = NULL /\ r.tail[l] = NULL
    BY <1>4, <1>6, <1>9, <2>1
  <2> QED
    BY <2>1, <2>2 DEF Chain, u
<1>10. CASE k > 1
  <2>1. r.head[l] = u[1] /\ r.prev[u[1]] = NULL
    <3>1. CASE i = 1
      <4>1. 2 \in 1..k /\ 2 # i /\ 2 = i + 1 /\ u[1] = t[2] /\ 1 \in 1..(k - 1)
        BY <1>1, <1>2, <1>10, <3>1
      <4> QED
        BY <1>4, <1>6, <1>8, <1>10, <3>1, <4>1
    <3>2. CASE i # 1
      <4>1. 1 < i /\ 1 # i + 1 /\ 1 \in 1..(k - 1)
        BY <1>2, <1>5, <1>10, <3>2
      <4>2. u[1] = t[1]
        BY <1>1, <4>1
      <4> QED
        BY <1>3, <1>4, <1>5, <1>8, <3>2, <4>1, <4>2
    <3> QED
      BY <3>1, <3>2
  <2>2. r.tail[l] = u[k - 1] /\ r.next[u[k - 1]] = NULL
    <3>0. k - 1 \in 1..(k - 1) /\ k - 1 \in 1..k /\ (k - 1) + 1 = k
      BY <1>2, <1>10
    <3>1. CASE i = k
      <4>1. u[k - 1] = t[k - 1] /\ k - 1 # i /\ k - 1 = i - 1 /\ i # 1
        BY <1>1, <1>2, <1>10, <3>0, <3>1
      <4> QED
        BY <1>4, <1>6, <1>8, <3>0, <3>1, <4>1
    <3>2. CASE i # k
      <4>1. ~(k - 1 < i) /\ k # i - 1
        BY <1>2, <1>5, <3>2
      <4>2. u[k - 1] = t[k]
        BY <1>1, <3>0, <4>1
      <4> QED
        BY <1>3, <1>4, <1>5, <1>8, <3>2, <4>1, <4>2
    <3> QED
      BY <3>1, <3>2
  <2> DEFINE at(y) == IF y < i THEN y ELSE y + 1
  <2>3. \A y \in 1..(k - 1) : at(y) \in 1..k /\ at(y) # i /\ u[y] = t[at(y)]
    BY <1>1, <1>2, <1>5
  <2>4. \A j \in 1..(k - 1) : r.list[u[j]] = l
    BY <1>8, <2>3
  <2>5. \A j \in 1..(k - 2) : r.next[u[j]] = u[j + 1] /\ r.prev[u[j + 1]] = u[j]
    <3> TAKE j \in 1..(k - 2)
    <3>0. j \in 1..(k - 1) /\ j + 1 \in 1..(k - 1)
      BY <1>2
    <3>1. CASE j < i - 1
      <4>1. j < i /\ j + 1 < i /\ j + 1 # i /\ j # i /\ j # i - 1 /\ j + 1 # i + 1
        BY <1>5, <3>1
      <4>2. u[j] = t[j] /\ u[j + 1] = t[j + 1] /\ j \in 1..k /\ j + 1 \in 1..k
        BY <1>1, <1>2, <3>0, <4>1
      <4> QED
        BY <1>3, <1>8, <3>0, <4>1, <4>2
    <3>2. CASE j = i - 1
      <4>1. /\ j < i /\ ~(j + 1 < i) /\ j # i /\ j + 2 # i /\ j + 2 = i + 1 /\ i # 1 /\ i # k
            /\ j \in 1..k /\ j + 2 \in 1..k /\ (j + 1) + 1 = j + 2
        BY <1>2, <1>5, <3>2
      <4>2. u[j] = t[j] /\ u[j + 1] = t[j + 2]
        BY <1>1, <3>0, <4>1
      <4>3. p = t[j] /\ x = t[j + 2]
        BY <1>6, <3>2, <4>1
      <4> QED
        BY <1>8, <3>2, <4>1, <4>2, <4>3
    <3>3. CASE j > i - 1
      <4>1. /\ ~(j < i) /\ ~(j + 1 < i) /\ j + 1 # i /\ j + 2 # i /\ j + 1 # i - 1 /\ j + 2 # i + 1
            /\ j + 1 \in 1..k /\ j + 2 \in 1..k /\ (j + 1) + 1 = j + 2
        BY <1>2, <1>5, <3>3
      <4>2. u[j] = t[j + 1] /\ u[j + 1] = t[j + 2]
        BY <1>1, <3>0, <4>1
      <4>3. s.next[t[j + 1]] = t[j + 2] /\ s.prev[t[j + 2]] = t[j + 1]
        BY <1>3, <3>0, <4>1
      <4> QED
        BY <1>8, <4>1, <4>2, <4>3
    <3> QED
      BY <1>2, <1>5, <3>1, <3>2, <3>3
  <2>6. ASSUME NEW j \in 1..(k - 1), NEW m \in 1..(k - 1), u[j] = u[m] PROVE j = m
    <3>1. at(j) = at(m)
      BY <1>3, <2>3, <2>6
    <3> QED
      BY <1>2, <1>5, <3>1
  <2>7. Len(u) = k - 1 /\ Len(u) - 1 = k - 2 /\ Len(u) > 0 /\ Len(u) # 0
    <3>1. Len(u) = k - 1
      BY <1>1
    <3>2. k \in Nat
      BY <1>2
    <3> QED
      BY <1>10, <3>1, <3>2
  <2> QED
    <3>1. r.size[l] = Len(u)
      BY <1>4, <2>7
    <3>2. /\ r.head[l] = u[1] /\ r.prev[u[1]] = NULL
          /\ r.tail[l] = u[Len(u)] /\ r.next[u[Len(u)]] = NULL
      BY <2>1, <2>2, <2>7
    <3>3. \A j \in 1..Len(u) : r.list[u[j]] = l
      BY <2>4, <2>7
    <3>4. \A j \in 1..(Len(u) - 1) : r.next[u[j]] = u[j + 1] /\ r.prev[u[j + 1]] = u[j]
      BY <2>5, <2>7
    <3>5. \A j, m \in 1..Len(u) : u[j] = u[m] => j = m
      BY <2>6, <2>7
    <3>6. Chain(r, l, u)
      BY <2>7, <3>1, <3>2, <3>3, <3>4, <3>5 DEF Chain
    <3> QED
      BY <3>6 DEF u
<1> QED
  BY <1>2, <1>5, <1>9, <1>10

\* A list none of whose pointers changed is the same chain.
LEMMA ChainFrame ==
  ASSUME NEW s, NEW r, NEW m, NEW t \in Seq(Nodes), Chain(s, m, t),
         r.head[m] = s.head[m], r.tail[m] = s.tail[m], r.size[m] = s.size[m],
         \A j \in 1..Len(t) : /\ r.next[t[j]] = s.next[t[j]] /\ r.prev[t[j]] = s.prev[t[j]]
                              /\ r.list[t[j]] = s.list[t[j]]
  PROVE  Chain(r, m, t)
<1> DEFINE k == Len(t)
<1>1. k \in Nat
  BY LenProperties
<1>2. /\ s.size[m] = k /\ (k = 0 => s.head[m] = NULL /\ s.tail[m] = NULL)
      /\ k > 0 => /\ s.head[m] = t[1] /\ s.prev[t[1]] = NULL
                  /\ s.tail[m] = t[k] /\ s.next[t[k]] = NULL
      /\ \A j \in 1..k : s.list[t[j]] = m
      /\ \A j \in 1..(k - 1) : s.next[t[j]] = t[j + 1] /\ s.prev[t[j + 1]] = t[j]
      /\ \A j, i \in 1..k : t[j] = t[i] => j = i
  BY DEF Chain
<1>3. \A j \in 1..k : /\ r.next[t[j]] = s.next[t[j]] /\ r.prev[t[j]] = s.prev[t[j]]
                      /\ r.list[t[j]] = s.list[t[j]]
  OBVIOUS
<1> HIDE DEF k
<1>4. k > 0 => 1 \in 1..k /\ k \in 1..k
  BY <1>1
<1>5. \A j \in 1..(k - 1) : j \in 1..k /\ j + 1 \in 1..k
  BY <1>1
<1>6. \A j \in 1..(k - 1) : r.next[t[j]] = t[j + 1] /\ r.prev[t[j + 1]] = t[j]
  BY <1>2, <1>3, <1>5
<1>7. k > 0 => r.prev[t[1]] = NULL /\ r.next[t[k]] = NULL
  BY <1>2, <1>3, <1>4
<1>8. \A j \in 1..k : r.list[t[j]] = m
  BY <1>2, <1>3
<1> QED
  BY <1>2, <1>6, <1>7, <1>8 DEF Chain, k

\* A cleared list is the empty chain.
LEMMA ClearedChain ==
  ASSUME NEW r, NEW l, r.size[l] = 0, r.head[l] = NULL, r.tail[l] = NULL
  PROVE  Chain(r, l, <<>>)
  BY DEF Chain

-----------------------------------------------------------------------------
(***************************************************************************)
(* The operations of dll.c on a list t of a state s                        *)
(***************************************************************************)

\* The list l of s is t.
Holds(s, l, t) == s \in QType /\ l \in Lists /\ t \in Seq(Nodes) /\ Chain(s, l, t)

Absent(t, n) == n \in Nodes /\ \A j \in 1..Len(t) : t[j] # n

\* What the pointers of a list say, position by position.
LEMMA Pointers ==
  ASSUME NEW s, NEW l, NEW t, Holds(s, l, t)
  PROVE  /\ Len(t) \in Nat /\ s.size[l] = Len(t) /\ NULL \notin Nodes
         /\ \A i \in 1..Len(t) :
              /\ t[i] \in Nodes /\ s.list[t[i]] = l
              /\ s.head[l] = t[i] <=> i = 1
              /\ s.tail[l] = t[i] <=> i = Len(t)
              /\ s.prev[t[i]] = Before(t, i)
              /\ s.next[t[i]] = From(t, i + 1)
         /\ s.head[l] = From(t, 1)
         /\ s.tail[l] = Before(t, Len(t) + 1)
<1> DEFINE k == Len(t)
<1>1. k \in Nat /\ (\A i \in 1..k : t[i] \in Nodes) /\ NULL \notin Nodes
  BY LenProperties, ElementOfSeq, DllAssumption DEF Holds
<1>2. /\ s.size[l] = k /\ (k = 0 => s.head[l] = NULL /\ s.tail[l] = NULL)
      /\ k > 0 => /\ s.head[l] = t[1] /\ s.prev[t[1]] = NULL
                  /\ s.tail[l] = t[k] /\ s.next[t[k]] = NULL
      /\ \A j \in 1..k : s.list[t[j]] = l
      /\ \A j \in 1..(k - 1) : s.next[t[j]] = t[j + 1] /\ s.prev[t[j + 1]] = t[j]
      /\ \A j, i \in 1..k : t[j] = t[i] => j = i
  BY DEF Holds, Chain
<1>3. /\ \A i : Before(t, i) = IF i = 1 THEN NULL ELSE t[i - 1]
      /\ \A i : From(t, i) = IF i = k + 1 THEN NULL ELSE t[i]
  BY DEF Before, From
<1> HIDE DEF k
<1>4. ASSUME NEW i \in 1..k
      PROVE  /\ t[i] \in Nodes /\ s.list[t[i]] = l
             /\ s.head[l] = t[i] <=> i = 1
             /\ s.tail[l] = t[i] <=> i = k
             /\ s.prev[t[i]] = Before(t, i)
             /\ s.next[t[i]] = From(t, i + 1)
  <2>1. k > 0 /\ 1 \in 1..k /\ k \in 1..k
    BY <1>1
  <2>2. (s.head[l] = t[i] <=> i = 1) /\ (s.tail[l] = t[i] <=> i = k)
    BY <1>2, <2>1
  <2>3. s.prev[t[i]] = Before(t, i)
    <3>1. CASE i = 1
      BY <1>2, <1>3, <2>1, <3>1
    <3>2. CASE i # 1
      <4>1. i - 1 \in 1..(k - 1) /\ (i - 1) + 1 = i
        BY <1>1, <3>2
      <4> QED
        BY <1>2, <1>3, <3>2, <4>1
    <3> QED
      BY <3>1, <3>2
  <2>4. s.next[t[i]] = From(t, i + 1)
    <3>1. CASE i = k
      BY <1>2, <1>3, <2>1, <3>1
    <3>2. CASE i # k
      <4>1. i \in 1..(k - 1) /\ i + 1 # k + 1
        BY <1>1, <3>2
      <4> QED
        BY <1>2, <1>3, <4>1
    <3> QED
      BY <3>1, <3>2
  <2> QED
    BY <1>1, <1>2, <2>2, <2>3, <2>4
<1>5. s.head[l] = From(t, 1) /\ s.tail[l] = Before(t, k + 1)
  <2>1. CASE k = 0
    BY <1>2, <1>3, <2>1
  <2>2. CASE k > 0
    <3>1. 1 # k + 1 /\ k + 1 # 1 /\ (k + 1) - 1 = k
      BY <1>1, <2>2
    <3> QED
      BY <1>2, <1>3, <2>2, <3>1
  <2> QED
    BY <1>1, <2>1, <2>2
<1> QED
  BY <1>1, <1>2, <1>4, <1>5 DEF k

\* The neighbours of a position are nodes of the list, or NULL at the ends.
LEMMA Neighbours ==
  ASSUME NEW s, NEW l, NEW t, Holds(s, l, t), NEW i \in 1..(Len(t) + 1)
  PROVE  /\ Before(t, i) \in Cells /\ From(t, i) \in Cells
         /\ i = 1 <=> Before(t, i) = NULL
         /\ i = Len(t) + 1 <=> From(t, i) = NULL
         /\ i # 1 => i - 1 \in 1..Len(t) /\ Before(t, i) = t[i - 1]
         /\ i # Len(t) + 1 => i \in 1..Len(t) /\ From(t, i) = t[i]
         /\ \A n : Absent(t, n) => Before(t, i) # n /\ From(t, i) # n
<1> DEFINE k == Len(t)
<1>1. k \in Nat /\ (\A j \in 1..k : t[j] \in Nodes) /\ NULL \notin Nodes
  BY Pointers
<1>2. \A n : Absent(t, n) => n \in Nodes /\ \A j \in 1..k : t[j] # n
  BY DEF Absent
<1>3. /\ Before(t, i) = IF i = 1 THEN NULL ELSE t[i - 1]
      /\ From(t, i) = IF i = k + 1 THEN NULL ELSE t[i]
  BY DEF Before, From
<1> HIDE DEF k
<1>4. i \in 1..(k + 1)
  BY DEF k
<1>5. (i # 1 => i - 1 \in 1..k) /\ (i # k + 1 => i \in 1..k)
  BY <1>1, <1>4
<1> QED
  BY <1>1, <1>2, <1>3, <1>5 DEF Cells, k

\* Linking two nodes keeps the pointers' types.
LEMMA LinkTypes ==
  ASSUME NEW s \in QType, NEW a \in Cells, NEW b \in Cells
  PROVE  dll_link(s, a, b) \in QType
  BY DEF dll_link, QType, Cells

\* So does entering the only node of a list.
LEMMA OnlyTypes ==
  ASSUME NEW s \in QType, NEW l \in Lists, NEW n \in Nodes
  PROVE  dll_add_only(s, l, n) \in QType
  BY DEF dll_add_only, QType, Cells

\* dll_add_head puts the node before the first.
LEMMA AddHeadEnters ==
  ASSUME NEW s, NEW l, NEW t, Holds(s, l, t), NEW n, Absent(t, n)
  PROVE  Enters(s, dll_add_head(s, l, n), l, t, 1, n)
<1> DEFINE r == dll_add_head(s, l, n)
           x == From(t, 1)
<1>1. /\ Len(t) \in Nat /\ s.size[l] = Len(t) /\ NULL \notin Nodes
      /\ s.head[l] = x /\ s.tail[l] = Before(t, Len(t) + 1)
  BY Pointers
<1>2. 1 \in 1..(Len(t) + 1)
  BY <1>1
<1>3. /\ x \in Cells /\ Before(t, 1) = NULL /\ x # n /\ (1 = Len(t) + 1 <=> x = NULL)
      /\ x # NULL => x \in Nodes
  BY <1>2, Neighbours DEF Cells
<1>4. s \in QType /\ l \in Lists /\ n \in Nodes /\ n \in Cells /\ n # NULL
  BY <1>1 DEF Holds, Absent, Cells
<1> HIDE DEF x
<1>5. CASE s.size[l] = 0
  <2>1. r = dll_add_only(s, l, n)
    BY <1>5 DEF dll_add_head
  <2>2. /\ r \in QType
        /\ r.head = [s.head EXCEPT ![l] = n] /\ r.tail = [s.tail EXCEPT ![l] = n]
        /\ r.size = [s.size EXCEPT ![l] = 1]
        /\ r.next = [s.next EXCEPT ![n] = NULL] /\ r.prev = [s.prev EXCEPT ![n] = NULL]
        /\ r.list = [s.list EXCEPT ![n] = l]
    <3>1. r \in QType
      BY <1>4, <2>1, OnlyTypes
    <3>2. /\ r.head = [s.head EXCEPT ![l] = n] /\ r.tail = [s.tail EXCEPT ![l] = n]
          /\ r.size = [s.size EXCEPT ![l] = 1]
      BY <1>4, <2>1 DEF dll_add_only, QType
    <3>3. /\ r.next = [s.next EXCEPT ![n] = NULL] /\ r.prev = [s.prev EXCEPT ![n] = NULL]
          /\ r.list = [s.list EXCEPT ![n] = l]
      BY <1>4, <2>1 DEF dll_add_only, QType
    <3> QED
      BY <3>1, <3>2, <3>3
  <2> HIDE DEF r
  <2>3. x = NULL /\ Len(t) = 0
    BY <1>1, <1>3, <1>5
  <2> QED
    BY <1>1, <1>3, <1>4, <2>2, <2>3 DEF Enters, QType, Cells, x, r
<1>6. CASE s.size[l] # 0
  <2>1. /\ r \in QType
        /\ r.head = [s.head EXCEPT ![l] = n] /\ r.tail = s.tail
        /\ r.size = [s.size EXCEPT ![l] = Len(t) + 1]
        /\ r.next = [s.next EXCEPT ![n] = x]
        /\ r.prev = [[s.prev EXCEPT ![x] = n] EXCEPT ![n] = NULL]
        /\ r.list = [s.list EXCEPT ![n] = l]
    <3>1. r = [dll_link(s, n, x) EXCEPT
                 !.head[l] = n, !.list[n] = l, !.prev[n] = NULL, !.size[l] = @ + 1]
      BY <1>1, <1>6 DEF dll_add_head
    <3>2. r \in QType
      <4> DEFINE d == dll_link(s, n, x)
      <4>1. d \in QType
        BY <1>3, <1>4, LinkTypes
      <4> HIDE DEF r, d
      <4>2. r = [d EXCEPT !.head[l] = n, !.list[n] = l, !.prev[n] = NULL, !.size[l] = @ + 1]
        BY <3>1 DEF d
      <4>3. d.size[l] + 1 \in Nat
        BY <1>4, <4>1 DEF QType
      <4> QED
        BY <1>4, <4>1, <4>2, <4>3 DEF QType, Cells
    <3>3. /\ r.head = [s.head EXCEPT ![l] = n] /\ r.tail = s.tail
          /\ r.size = [s.size EXCEPT ![l] = Len(t) + 1]
      BY <1>1, <1>4, <3>1 DEF dll_link, QType
    <3>4. r.next = [s.next EXCEPT ![n] = x] /\ r.list = [s.list EXCEPT ![n] = l]
      BY <1>4, <3>1 DEF dll_link, QType
    <3>5. r.prev = [[s.prev EXCEPT ![x] = n] EXCEPT ![n] = NULL]
      BY <1>4, <3>1 DEF dll_link, QType
    <3> QED
      BY <3>2, <3>3, <3>4, <3>5
  <2> HIDE DEF r
  <2>2. 1 # Len(t) + 1
    BY <1>1, <1>6
  <2> QED
    BY <1>1, <1>3, <1>4, <2>1, <2>2 DEF Enters, QType, Cells, x, r
<1> QED
  BY <1>5, <1>6

\* dll_add_tail puts the node after the last.
LEMMA AddTailEnters ==
  ASSUME NEW s, NEW l, NEW t, Holds(s, l, t), NEW n, Absent(t, n)
  PROVE  Enters(s, dll_add_tail(s, l, n), l, t, Len(t) + 1, n)
<1> DEFINE r == dll_add_tail(s, l, n)
           p == Before(t, Len(t) + 1)
<1>1. Len(t) \in Nat /\ s.size[l] = Len(t) /\ NULL \notin Nodes /\ s.tail[l] = p
  BY Pointers
<1>2. Len(t) + 1 \in 1..(Len(t) + 1)
  BY <1>1
<1>3. /\ p \in Cells /\ From(t, Len(t) + 1) = NULL /\ p # n /\ (Len(t) + 1 = 1 <=> p = NULL)
      /\ p # NULL => p \in Nodes
  BY <1>2, Neighbours DEF Cells
<1>4. s \in QType /\ l \in Lists /\ n \in Nodes /\ n \in Cells /\ n # NULL
  BY <1>1 DEF Holds, Absent, Cells
<1> HIDE DEF p
<1>5. CASE s.size[l] = 0
  <2>1. r = dll_add_only(s, l, n)
    BY <1>5 DEF dll_add_tail
  <2>2. r \in QType
    BY <1>4, <2>1, OnlyTypes
  <2>3. /\ r.head = [s.head EXCEPT ![l] = n] /\ r.tail = [s.tail EXCEPT ![l] = n]
        /\ r.size = [s.size EXCEPT ![l] = 1]
    BY <1>4, <2>1 DEF dll_add_only, QType
  <2>4. /\ r.next = [s.next EXCEPT ![n] = NULL] /\ r.prev = [s.prev EXCEPT ![n] = NULL]
        /\ r.list = [s.list EXCEPT ![n] = l]
    BY <1>4, <2>1 DEF dll_add_only, QType
  <2> HIDE DEF r
  <2>5. p = NULL /\ Len(t) = 0 /\ Len(t) + 1 = 1
    BY <1>1, <1>3, <1>5
  <2> QED
    BY <1>1, <1>3, <1>4, <2>2, <2>3, <2>4, <2>5 DEF Enters, QType, Cells, p, r
<1>6. CASE s.size[l] # 0
  <2> DEFINE d == dll_link(s, p, n)
  <2>1. r = [d EXCEPT !.tail[l] = n, !.list[n] = l, !.next[n] = NULL, !.size[l] = @ + 1]
    BY <1>1, <1>6 DEF dll_add_tail
  <2>2. d \in QType
    BY <1>3, <1>4, LinkTypes
  <2>3. /\ d.head = s.head /\ d.tail = s.tail /\ d.size = s.size /\ d.list = s.list
        /\ d.next = [s.next EXCEPT ![p] = n] /\ d.prev = [s.prev EXCEPT ![n] = p]
    BY <1>4 DEF dll_link, QType
  <2> HIDE DEF d, r
  <2>4. d.size[l] + 1 \in Nat /\ d.size[l] = Len(t)
    BY <1>1, <1>4, <2>2, <2>3 DEF QType
  <2>5. r \in QType
    BY <1>4, <2>1, <2>2, <2>4 DEF QType, Cells
  <2>6. /\ r.head = s.head /\ r.tail = [s.tail EXCEPT ![l] = n]
        /\ r.size = [s.size EXCEPT ![l] = Len(t) + 1]
    BY <1>4, <2>1, <2>2, <2>3, <2>4 DEF QType
  <2>7. /\ r.next = [[s.next EXCEPT ![p] = n] EXCEPT ![n] = NULL]
        /\ r.prev = [s.prev EXCEPT ![n] = p] /\ r.list = [s.list EXCEPT ![n] = l]
    BY <1>4, <2>1, <2>2, <2>3 DEF QType
  <2>8. Len(t) + 1 # 1
    BY <1>1, <1>6
  <2> QED
    BY <1>1, <1>3, <1>4, <2>5, <2>6, <2>7, <2>8 DEF Enters, QType, Cells, p, r
<1> QED
  BY <1>5, <1>6

\* The two ways to link a node n between p and x, as dll_add_before and
\* dll_add_after do.
LinkBetween(s, l, p, n, x) ==
  [dll_link(dll_link(s, p, n), n, x) EXCEPT !.list[n] = l, !.size[l] = @ + 1]

LinkBack(s, l, p, n, x) ==
  [dll_link(dll_link(s, n, x), p, n) EXCEPT !.list[n] = l, !.size[l] = @ + 1]

\* Linking between the neighbours of a middle position enters the node there.
LEMMA MiddleEnters ==
  ASSUME NEW s, NEW l, NEW t, Holds(s, l, t), NEW n, Absent(t, n),
         NEW i \in 1..(Len(t) + 1), i # 1, i # Len(t) + 1
  PROVE  /\ Enters(s, LinkBetween(s, l, Before(t, i), n, From(t, i)), l, t, i, n)
         /\ Enters(s, LinkBack(s, l, Before(t, i), n, From(t, i)), l, t, i, n)
<1> DEFINE p == Before(t, i)
           x == From(t, i)
<1>1. Len(t) \in Nat /\ s.size[l] = Len(t) /\ NULL \notin Nodes
  BY Pointers
<1>2. p \in Cells /\ x \in Cells /\ p # n /\ x # n /\ p # NULL /\ x # NULL
  BY Neighbours
<1>3. s \in QType /\ l \in Lists /\ n \in Nodes /\ n \in Cells
  BY DEF Holds, Absent, Cells
<1>4. ASSUME NEW e \in QType, NEW r, r = [e EXCEPT !.list[n] = l, !.size[l] = @ + 1],
             e.head = s.head, e.tail = s.tail, e.size = s.size, e.list = s.list,
             \A y \in Nodes : /\ e.next[y] = IF y = n THEN x ELSE IF y = p THEN n ELSE s.next[y]
                              /\ e.prev[y] = IF y = n THEN p ELSE IF y = x THEN n ELSE s.prev[y]
      PROVE  Enters(s, r, l, t, i, n)
  <2> HIDE DEF p, x
  <2>1. e.size[l] + 1 \in Nat /\ e.size[l] + 1 = Len(t) + 1
    BY <1>1, <1>4
  <2>2. r \in QType
    BY <1>3, <1>4, <2>1 DEF QType, Cells
  <2>3. /\ r.head = s.head /\ r.tail = s.tail /\ r.size = [s.size EXCEPT ![l] = Len(t) + 1]
        /\ r.next = e.next /\ r.prev = e.prev /\ r.list = [s.list EXCEPT ![n] = l]
    BY <1>3, <1>4, <2>1 DEF QType
  <2> QED
    BY <1>3, <1>4, <2>2, <2>3 DEF Enters, QType, p, x
<1> HIDE DEF p, x
<1>5. ASSUME NEW a \in Cells, NEW b \in Cells, NEW c \in QType
      PROVE  LET e == dll_link(c, a, b)
             IN  /\ e \in QType /\ e.head = c.head /\ e.tail = c.tail /\ e.size = c.size
                 /\ e.list = c.list /\ e.next = [c.next EXCEPT ![a] = b]
                 /\ e.prev = [c.prev EXCEPT ![b] = a]
  <2>1. dll_link(c, a, b) \in QType
    BY LinkTypes
  <2> QED
    BY <2>1 DEF dll_link, QType
<1>6. Enters(s, LinkBetween(s, l, p, n, x), l, t, i, n)
  <2> DEFINE d == dll_link(s, p, n)
             e == dll_link(d, n, x)
  <2>1. /\ d \in QType /\ d.head = s.head /\ d.tail = s.tail /\ d.size = s.size
        /\ d.list = s.list /\ d.next = [s.next EXCEPT ![p] = n]
        /\ d.prev = [s.prev EXCEPT ![n] = p]
    BY <1>2, <1>3, <1>5
  <2> HIDE DEF d
  <2>2. /\ e \in QType /\ e.head = d.head /\ e.tail = d.tail /\ e.size = d.size
        /\ e.list = d.list /\ e.next = [d.next EXCEPT ![n] = x]
        /\ e.prev = [d.prev EXCEPT ![x] = n]
    BY <1>2, <1>3, <1>5, <2>1
  <2> HIDE DEF e
  <2>3. \A y \in Nodes : /\ e.next[y] = IF y = n THEN x ELSE IF y = p THEN n ELSE s.next[y]
                         /\ e.prev[y] = IF y = n THEN p ELSE IF y = x THEN n ELSE s.prev[y]
    BY <1>2, <1>3, <2>1, <2>2 DEF QType, Cells
  <2> DEFINE r == LinkBetween(s, l, p, n, x)
  <2>4. r = [e EXCEPT !.list[n] = l, !.size[l] = @ + 1]
    BY DEF LinkBetween, d, e
  <2>5. e.head = s.head /\ e.tail = s.tail /\ e.size = s.size /\ e.list = s.list
    BY <2>1, <2>2
  <2> HIDE DEF r
  <2>6. Enters(s, r, l, t, i, n)
    BY <1>4, <2>2, <2>3, <2>4, <2>5
  <2> QED
    BY <2>6 DEF r
<1>7. Enters(s, LinkBack(s, l, p, n, x), l, t, i, n)
  <2> DEFINE d == dll_link(s, n, x)
             e == dll_link(d, p, n)
  <2>1. /\ d \in QType /\ d.head = s.head /\ d.tail = s.tail /\ d.size = s.size
        /\ d.list = s.list /\ d.next = [s.next EXCEPT ![n] = x]
        /\ d.prev = [s.prev EXCEPT ![x] = n]
    BY <1>2, <1>3, <1>5
  <2> HIDE DEF d
  <2>2. /\ e \in QType /\ e.head = d.head /\ e.tail = d.tail /\ e.size = d.size
        /\ e.list = d.list /\ e.next = [d.next EXCEPT ![p] = n]
        /\ e.prev = [d.prev EXCEPT ![n] = p]
    BY <1>2, <1>3, <1>5, <2>1
  <2> HIDE DEF e
  <2>3. \A y \in Nodes : /\ e.next[y] = IF y = n THEN x ELSE IF y = p THEN n ELSE s.next[y]
                         /\ e.prev[y] = IF y = n THEN p ELSE IF y = x THEN n ELSE s.prev[y]
    BY <1>2, <1>3, <2>1, <2>2 DEF QType, Cells
  <2> DEFINE r == LinkBack(s, l, p, n, x)
  <2>4. r = [e EXCEPT !.list[n] = l, !.size[l] = @ + 1]
    BY DEF LinkBack, d, e
  <2>5. e.head = s.head /\ e.tail = s.tail /\ e.size = s.size /\ e.list = s.list
    BY <2>1, <2>2
  <2> HIDE DEF r
  <2>6. Enters(s, r, l, t, i, n)
    BY <1>4, <2>2, <2>3, <2>4, <2>5
  <2> QED
    BY <2>6 DEF r
<1> QED
  BY <1>6, <1>7 DEF p, x

\* dll_add_before puts the node at the position of the reference node.
LEMMA AddBeforeEnters ==
  ASSUME NEW s, NEW l, NEW t, Holds(s, l, t), NEW n, Absent(t, n), NEW i \in 1..Len(t)
  PROVE  Enters(s, dll_add_before(s, t[i], n), l, t, i, n)
<1>1. /\ Len(t) \in Nat /\ s.list[t[i]] = l /\ (s.head[l] = t[i] <=> i = 1)
      /\ s.prev[t[i]] = Before(t, i)
  BY Pointers
<1>2. CASE i = 1
  <2>1. dll_add_before(s, t[i], n) = dll_add_head(s, l, n)
    BY <1>1, <1>2 DEF dll_add_before
  <2> QED
    BY <1>2, <2>1, AddHeadEnters
<1>3. CASE i # 1
  <2>1. i \in 1..(Len(t) + 1) /\ i # Len(t) + 1
    BY <1>1
  <2>2. From(t, i) = t[i]
    BY <2>1 DEF From
  <2>3. dll_add_before(s, t[i], n) = LinkBetween(s, l, Before(t, i), n, From(t, i))
    BY <1>1, <1>3, <2>2 DEF dll_add_before, LinkBetween
  <2> QED
    BY <1>3, <2>1, <2>3, MiddleEnters
<1> QED
  BY <1>2, <1>3

\* dll_add_after puts the node at the position after the reference node.
LEMMA AddAfterEnters ==
  ASSUME NEW s, NEW l, NEW t, Holds(s, l, t), NEW n, Absent(t, n), NEW i \in 1..Len(t)
  PROVE  Enters(s, dll_add_after(s, t[i], n), l, t, i + 1, n)
<1>1. /\ Len(t) \in Nat /\ s.list[t[i]] = l /\ (s.tail[l] = t[i] <=> i = Len(t))
      /\ s.next[t[i]] = From(t, i + 1)
  BY Pointers
<1>2. CASE i = Len(t)
  <2>1. dll_add_after(s, t[i], n) = dll_add_tail(s, l, n)
    BY <1>1, <1>2 DEF dll_add_after
  <2> QED
    BY <1>2, <2>1, AddTailEnters
<1>3. CASE i # Len(t)
  <2>1. i + 1 \in 1..(Len(t) + 1) /\ i + 1 # Len(t) + 1 /\ i + 1 # 1 /\ (i + 1) - 1 = i
    BY <1>1, <1>3
  <2>2. Before(t, i + 1) = t[i]
    BY <2>1 DEF Before
  <2>3. dll_add_after(s, t[i], n) = LinkBack(s, l, Before(t, i + 1), n, From(t, i + 1))
    BY <1>1, <1>3, <2>2 DEF dll_add_after, LinkBack
  <2> QED
    BY <2>1, <2>3, MiddleEnters
<1> QED
  BY <1>2, <1>3

\* Clearing a list leaves the nodes' pointers alone.
LEMMA ClearFields ==
  ASSUME NEW s \in QType, NEW l \in Lists
  PROVE  LET r == dll_clear(s, l)
         IN  /\ r \in QType /\ r.next = s.next /\ r.prev = s.prev /\ r.list = s.list
             /\ r.head = [s.head EXCEPT ![l] = NULL] /\ r.tail = [s.tail EXCEPT ![l] = NULL]
             /\ r.size = [s.size EXCEPT ![l] = 0]
<1> DEFINE r == dll_clear(s, l)
<1>1. r \in QType
  BY DEF dll_clear, QType, Cells
<1>2. /\ r.next = s.next /\ r.prev = s.prev /\ r.list = s.list
      /\ r.head = [s.head EXCEPT ![l] = NULL] /\ r.tail = [s.tail EXCEPT ![l] = NULL]
      /\ r.size = [s.size EXCEPT ![l] = 0]
  BY DEF dll_clear, QType
<1> QED
  BY <1>1, <1>2

\* Clearing a list of one node removes that node.
LEMMA OnlyLeaves ==
  ASSUME NEW s, NEW l, NEW t, Holds(s, l, t), Len(t) = 1
  PROVE  Leaves(s, dll_clear(s, l), l, t, 1)
<1> DEFINE r == dll_clear(s, l)
<1>1. s \in QType /\ l \in Lists /\ NULL \notin Nodes
  BY Pointers DEF Holds
<1>2. /\ r \in QType /\ r.next = s.next /\ r.prev = s.prev /\ r.list = s.list
      /\ r.head = [s.head EXCEPT ![l] = NULL] /\ r.tail = [s.tail EXCEPT ![l] = NULL]
      /\ r.size = [s.size EXCEPT ![l] = 0]
  BY <1>1, ClearFields
<1>3. Before(t, 1) = NULL /\ From(t, 2) = NULL /\ From(t, 1 + 1) = NULL
  BY DEF Before, From
<1> HIDE DEF r
<1>4. Leaves(s, r, l, t, 1)
  BY <1>1, <1>2, <1>3 DEF Leaves, QType
<1> QED
  BY <1>4 DEF r

\* dll_remove_head removes the first node.
LEMMA RemoveHeadLeaves ==
  ASSUME NEW s, NEW l, NEW t, Holds(s, l, t), Len(t) # 0
  PROVE  Leaves(s, dll_remove_head(s, l), l, t, 1)
<1> DEFINE r == dll_remove_head(s, l)
           x == From(t, 2)
<1>1. Len(t) \in Nat /\ s.size[l] = Len(t) /\ NULL \notin Nodes /\ s.head[l] = From(t, 1)
  BY Pointers
<1>2. 1 \in 1..Len(t) /\ From(t, 1) = t[1] /\ 2 \in 1..(Len(t) + 1)
  BY <1>1 DEF From
<1>3. s.next[t[1]] = x
  BY <1>2, Pointers
<1>4. x \in Cells /\ (2 = Len(t) + 1 <=> x = NULL) /\ Before(t, 1) = NULL
  BY <1>2, Neighbours DEF Before
<1>5. s \in QType /\ l \in Lists
  BY DEF Holds
<1>6. CASE Len(t) = 1
  BY <1>1, <1>6, OnlyLeaves DEF dll_remove_head
<1>7. CASE Len(t) # 1
  <2> HIDE DEF x
  <2>1. r = [s EXCEPT !.head[l] = x, !.prev[x] = NULL, !.size[l] = @ - 1]
    BY <1>1, <1>2, <1>3, <1>7 DEF dll_remove_head
  <2> HIDE DEF r
  <2>2. s.size[l] - 1 \in Nat /\ s.size[l] - 1 = Len(t) - 1 /\ 1 # Len(t)
    BY <1>1, <1>7
  <2>3. r \in QType
    BY <1>4, <1>5, <2>1, <2>2 DEF QType, Cells
  <2>4. /\ r.head = [s.head EXCEPT ![l] = x] /\ r.tail = s.tail
        /\ r.size = [s.size EXCEPT ![l] = Len(t) - 1]
        /\ r.next = s.next /\ r.prev = [s.prev EXCEPT ![x] = NULL] /\ r.list = s.list
    BY <1>4, <1>5, <2>1, <2>2 DEF QType
  <2>5. x = From(t, 1 + 1)
    BY DEF x
  <2>6. Leaves(s, r, l, t, 1)
    BY <1>1, <1>4, <1>5, <2>2, <2>3, <2>4, <2>5 DEF Leaves, QType, Cells, x
  <2> QED
    BY <2>6 DEF r
<1> QED
  BY <1>6, <1>7

\* dll_remove_tail removes the last node.
LEMMA RemoveTailLeaves ==
  ASSUME NEW s, NEW l, NEW t, Holds(s, l, t), Len(t) # 0
  PROVE  Leaves(s, dll_remove_tail(s, l), l, t, Len(t))
<1> DEFINE r == dll_remove_tail(s, l)
           p == Before(t, Len(t))
<1>1. /\ Len(t) \in Nat /\ s.size[l] = Len(t) /\ NULL \notin Nodes
      /\ s.tail[l] = Before(t, Len(t) + 1)
  BY Pointers
<1>2. /\ Len(t) \in 1..Len(t) /\ Before(t, Len(t) + 1) = t[Len(t)]
      /\ Len(t) \in 1..(Len(t) + 1)
  BY <1>1 DEF Before
<1>3. s.prev[t[Len(t)]] = p
  BY <1>2, Pointers
<1>4. p \in Cells /\ (Len(t) = 1 <=> p = NULL) /\ From(t, Len(t) + 1) = NULL
  <2>1. From(t, Len(t) + 1) = NULL
    BY DEF From
  <2>2. \A j \in 1..(Len(t) + 1) : Before(t, j) \in Cells /\ (j = 1 <=> Before(t, j) = NULL)
    BY Neighbours
  <2> QED
    BY <1>2, <2>1, <2>2
<1>5. s \in QType /\ l \in Lists
  BY DEF Holds
<1>6. CASE Len(t) = 1
  BY <1>1, <1>6, OnlyLeaves DEF dll_remove_tail
<1>7. CASE Len(t) # 1
  <2> HIDE DEF p
  <2>1. r = [s EXCEPT !.tail[l] = p, !.next[p] = NULL, !.size[l] = @ - 1]
    BY <1>1, <1>2, <1>3, <1>7 DEF dll_remove_tail
  <2> HIDE DEF r
  <2>2. s.size[l] - 1 \in Nat /\ s.size[l] - 1 = Len(t) - 1
    BY <1>1
  <2>3. r \in QType
    BY <1>4, <1>5, <2>1, <2>2 DEF QType, Cells
  <2>4. /\ r.tail = [s.tail EXCEPT ![l] = p] /\ r.head = s.head
        /\ r.size = [s.size EXCEPT ![l] = Len(t) - 1]
        /\ r.prev = s.prev /\ r.next = [s.next EXCEPT ![p] = NULL] /\ r.list = s.list
    BY <1>4, <1>5, <2>1, <2>2 DEF QType
  <2>5. Leaves(s, r, l, t, Len(t))
    BY <1>1, <1>4, <1>5, <1>7, <2>3, <2>4 DEF Leaves, QType, Cells, p
  <2> QED
    BY <2>5 DEF r
<1> QED
  BY <1>6, <1>7

\* dll_remove removes its node, wherever in its list it is.
LEMMA RemoveLeaves ==
  ASSUME NEW s, NEW l, NEW t, Holds(s, l, t), NEW i \in 1..Len(t)
  PROVE  Leaves(s, dll_remove(s, t[i]), l, t, i)
<1> DEFINE r == dll_remove(s, t[i])
           p == Before(t, i)
           x == From(t, i + 1)
<1>1. /\ Len(t) \in Nat /\ s.size[l] = Len(t) /\ NULL \notin Nodes
      /\ s.list[t[i]] = l
      /\ s.head[l] = t[i] <=> i = 1
      /\ s.tail[l] = t[i] <=> i = Len(t)
      /\ s.prev[t[i]] = p /\ s.next[t[i]] = x
  BY Pointers
<1>2. i \in 1..(Len(t) + 1) /\ i + 1 \in 1..(Len(t) + 1) /\ Len(t) # 0
  BY <1>1
<1>3. s \in QType /\ l \in Lists
  BY DEF Holds
<1>4. CASE i = 1
  BY <1>1, <1>2, <1>4, RemoveHeadLeaves DEF dll_remove
<1>5. CASE i # 1 /\ i = Len(t)
  BY <1>1, <1>2, <1>5, RemoveTailLeaves DEF dll_remove
<1>6. CASE i # 1 /\ i # Len(t)
  <2>1. p \in Cells /\ x \in Cells
    BY <1>2, Neighbours
  <2> DEFINE d == dll_link(s, p, x)
  <2>2. d \in QType
    BY <1>3, <2>1, LinkTypes
  <2>3. /\ d.head = s.head /\ d.tail = s.tail /\ d.size = s.size /\ d.list = s.list
        /\ d.next = [s.next EXCEPT ![p] = x] /\ d.prev = [s.prev EXCEPT ![x] = p]
    BY <1>3 DEF dll_link, QType
  <2>4. r = [d EXCEPT !.size[l] = @ - 1]
    BY <1>1, <1>6 DEF dll_remove
  <2> HIDE DEF r, d, p, x
  <2>5. d.size[l] - 1 \in Nat /\ d.size[l] - 1 = Len(t) - 1
    BY <1>1, <1>2, <2>3
  <2>6. r \in QType
    BY <1>3, <2>2, <2>4, <2>5 DEF QType
  <2>7. /\ r.head = s.head /\ r.tail = s.tail /\ r.list = s.list
        /\ r.size = [s.size EXCEPT ![l] = Len(t) - 1]
        /\ r.next = [s.next EXCEPT ![p] = x] /\ r.prev = [s.prev EXCEPT ![x] = p]
    BY <1>3, <2>2, <2>3, <2>4, <2>5 DEF QType
  <2>8. Leaves(s, r, l, t, i)
    BY <1>1, <1>3, <1>6, <2>1, <2>6, <2>7 DEF Leaves, QType, Cells, p, x
  <2> QED
    BY <2>8 DEF r
<1> QED
  BY <1>4, <1>5, <1>6

-----------------------------------------------------------------------------
(***************************************************************************)
(* All lists at once                                                       *)
(***************************************************************************)

\* The pointers s represent the lists S.
Rep(s, S) == /\ s \in QType /\ S \in [Lists -> Seq(Nodes)]
             /\ \A l \in Lists : Chain(s, l, S[l])

\* A list of a representation.
LEMMA RepHolds ==
  ASSUME NEW s, NEW S, Rep(s, S), NEW l \in Lists
  PROVE  Holds(s, l, S[l])
  BY DEF Rep, Holds

\* A list other than l has no node of l.
LEMMA ListsApart ==
  ASSUME NEW s, NEW S, Rep(s, S), NEW l \in Lists, NEW m \in Lists, m # l,
         NEW j \in 1..Len(S[m]), NEW i \in 1..Len(S[l])
  PROVE  S[m][j] # S[l][i]
<1>1. Holds(s, m, S[m]) /\ Holds(s, l, S[l])
  BY RepHolds
<1>2. s.list[S[m][j]] = m
  BY <1>1, Pointers
<1>3. s.list[S[l][i]] = l
  BY <1>1, Pointers
<1> QED
  BY <1>2, <1>3

\* The lists after a node entered one of them.
LEMMA EnterRep ==
  ASSUME NEW s, NEW S, Rep(s, S), NEW l \in Lists, NEW n,
         \A m \in Lists : Absent(S[m], n),
         NEW i \in 1..(Len(S[l]) + 1), NEW r, Enters(s, r, l, S[l], i, n)
  PROVE  Rep(r, [S EXCEPT ![l] = Seqs!InsertAt(S[l], i, n)])
<1> DEFINE t == S[l]
           u == Seqs!InsertAt(t, i, n)
           p == Before(t, i)
           x == From(t, i)
<1>1. S \in [Lists -> Seq(Nodes)] /\ t \in Seq(Nodes) /\ Chain(s, l, t)
  BY DEF Rep
<1>2. n \in Nodes /\ \A m \in Lists : \A j \in 1..Len(S[m]) : S[m][j] # n
  BY DEF Absent
<1>3. Chain(r, l, u)
  BY <1>1, <1>2, EnterChain
<1>4. u \in Seq(Nodes)
  BY <1>1, <1>2, Inserted
<1>5. ASSUME NEW m \in Lists, m # l PROVE Chain(r, m, S[m])
  <2>1. S[m] \in Seq(Nodes) /\ Chain(s, m, S[m]) /\ \A j \in 1..Len(S[m]) : S[m][j] \in Nodes
    BY RepHolds, Pointers DEF Rep
  <2>2. /\ p = NULL \/ \E j \in 1..Len(t) : p = t[j]
        /\ x = NULL \/ \E j \in 1..Len(t) : x = t[j]
    BY RepHolds, Neighbours
  <2>3. \A j \in 1..Len(S[m]) : S[m][j] # p /\ S[m][j] # x /\ S[m][j] # n
    BY <1>2, <1>5, <2>1, <2>2, ListsApart, DllAssumption
  <2>4. /\ \A y \in Nodes :
             /\ r.next[y] = IF y = n THEN x ELSE IF y = p THEN n ELSE s.next[y]
             /\ r.prev[y] = IF y = n THEN p ELSE IF y = x THEN n ELSE s.prev[y]
             /\ r.list[y] = IF y = n THEN l ELSE s.list[y]
        /\ r.head[m] = s.head[m] /\ r.tail[m] = s.tail[m] /\ r.size[m] = s.size[m]
    BY <1>5 DEF Enters
  <2> HIDE DEF p, x
  <2>5. \A j \in 1..Len(S[m]) : /\ r.next[S[m][j]] = s.next[S[m][j]]
                                /\ r.prev[S[m][j]] = s.prev[S[m][j]]
                                /\ r.list[S[m][j]] = s.list[S[m][j]]
    BY <2>1, <2>3, <2>4
  <2> QED
    BY <2>1, <2>4, <2>5, ChainFrame
<1> HIDE DEF u, t
<1>6. r \in QType
  BY DEF Enters
<1> DEFINE S2 == [S EXCEPT ![l] = u]
<1>7. S2 \in [Lists -> Seq(Nodes)] /\ \A m \in Lists : S2[m] = IF m = l THEN u ELSE S[m]
  BY <1>1, <1>4
<1> HIDE DEF S2
<1>8. Rep(r, S2)
  BY <1>3, <1>5, <1>6, <1>7 DEF Rep
<1> QED
  BY <1>8 DEF S2, u, t

\* The lists after a node left one of them.
LEMMA LeaveRep ==
  ASSUME NEW s, NEW S, Rep(s, S), NEW l \in Lists,
         NEW i \in 1..Len(S[l]), NEW r, Leaves(s, r, l, S[l], i)
  PROVE  Rep(r, [S EXCEPT ![l] = Seqs!RemoveAt(S[l], i)])
<1> DEFINE t == S[l]
           u == Seqs!RemoveAt(t, i)
           p == Before(t, i)
           x == From(t, i + 1)
<1>1. S \in [Lists -> Seq(Nodes)] /\ t \in Seq(Nodes) /\ Chain(s, l, t) /\ Len(t) \in Nat
  BY LenProperties DEF Rep
<1>2. Chain(r, l, u)
  BY <1>1, LeaveChain
<1>3. u \in Seq(Nodes)
  BY <1>1, Removed
<1>4. ASSUME NEW m \in Lists, m # l PROVE Chain(r, m, S[m])
  <2>1. S[m] \in Seq(Nodes) /\ Chain(s, m, S[m]) /\ \A j \in 1..Len(S[m]) : S[m][j] \in Nodes
    BY RepHolds, Pointers DEF Rep
  <2>2. /\ p = NULL \/ \E j \in 1..Len(t) : p = t[j]
        /\ x = NULL \/ \E j \in 1..Len(t) : x = t[j]
    <3>1. i \in 1..(Len(t) + 1) /\ i + 1 \in 1..(Len(t) + 1)
      BY <1>1
    <3>2. Holds(s, l, t)
      BY RepHolds
    <3>3. /\ i # 1 => i - 1 \in 1..Len(t) /\ p = t[i - 1]
          /\ i = 1 => p = NULL
      BY <3>1, <3>2, Neighbours
    <3> DEFINE j == i + 1
    <3>4. j \in 1..(Len(t) + 1)
      BY <3>1
    <3> HIDE DEF j
    <3>5. /\ j # Len(t) + 1 => j \in 1..Len(t) /\ From(t, j) = t[j]
          /\ j = Len(t) + 1 => From(t, j) = NULL
      BY <3>2, <3>4, Neighbours
    <3> QED
      BY <3>3, <3>5 DEF j
  <2>3. \A j \in 1..Len(S[m]) : S[m][j] # p /\ S[m][j] # x /\ S[m][j] # t[i]
    BY <1>4, <2>1, <2>2, ListsApart, DllAssumption
  <2>4. /\ \A y \in Nodes : y # t[i] =>
             /\ r.next[y] = IF y = p THEN x ELSE s.next[y]
             /\ r.prev[y] = IF y = x THEN p ELSE s.prev[y]
        /\ \A y \in Nodes : r.list[y] = s.list[y]
        /\ r.head[m] = s.head[m] /\ r.tail[m] = s.tail[m] /\ r.size[m] = s.size[m]
    BY <1>4 DEF Leaves
  <2> HIDE DEF p, x
  <2>5. \A j \in 1..Len(S[m]) : /\ r.next[S[m][j]] = s.next[S[m][j]]
                                /\ r.prev[S[m][j]] = s.prev[S[m][j]]
                                /\ r.list[S[m][j]] = s.list[S[m][j]]
    BY <2>1, <2>3, <2>4
  <2> QED
    BY <2>1, <2>4, <2>5, ChainFrame
<1> HIDE DEF u, t
<1>5. r \in QType
  BY DEF Leaves
<1> DEFINE S2 == [S EXCEPT ![l] = u]
<1>6. S2 \in [Lists -> Seq(Nodes)] /\ \A m \in Lists : S2[m] = IF m = l THEN u ELSE S[m]
  BY <1>1, <1>3
<1> HIDE DEF S2
<1>7. Rep(r, S2)
  BY <1>2, <1>4, <1>5, <1>6 DEF Rep
<1> QED
  BY <1>7 DEF S2, u, t

\* The lists after dll_clear.
LEMMA ClearRep ==
  ASSUME NEW s, NEW S, Rep(s, S), NEW l \in Lists
  PROVE  Rep(dll_clear(s, l), [S EXCEPT ![l] = <<>>])
<1> DEFINE r == dll_clear(s, l)
           S2 == [S EXCEPT ![l] = <<>>]
<1>1. s \in QType /\ S \in [Lists -> Seq(Nodes)]
  BY DEF Rep
<1>2. /\ r \in QType /\ r.next = s.next /\ r.prev = s.prev /\ r.list = s.list
      /\ r.head = [s.head EXCEPT ![l] = NULL] /\ r.tail = [s.tail EXCEPT ![l] = NULL]
      /\ r.size = [s.size EXCEPT ![l] = 0]
  BY <1>1, ClearFields
<1> HIDE DEF r
<1>3. r.size[l] = 0 /\ r.head[l] = NULL /\ r.tail[l] = NULL
  BY <1>1, <1>2 DEF QType
<1>4. Chain(r, l, <<>>)
  BY <1>3, ClearedChain
<1>5. ASSUME NEW m \in Lists, m # l PROVE Chain(r, m, S[m])
  <2>1. r.head[m] = s.head[m] /\ r.tail[m] = s.tail[m] /\ r.size[m] = s.size[m]
    BY <1>1, <1>2, <1>5 DEF QType
  <2>2. S[m] \in Seq(Nodes) /\ Chain(s, m, S[m])
    BY DEF Rep
  <2> QED
    BY <1>2, <2>1, <2>2, ChainFrame
<1>6. S2 \in [Lists -> Seq(Nodes)] /\ \A m \in Lists : S2[m] = IF m = l THEN <<>> ELSE S[m]
  BY <1>1
<1> HIDE DEF S2
<1>7. Rep(r, S2)
  BY <1>2, <1>4, <1>5, <1>6 DEF Rep
<1> QED
  BY <1>7 DEF S2, r

-----------------------------------------------------------------------------
(***************************************************************************)
(* The invariant: the pointers represent the lists that following the next *)
(* pointers gives, so that every list is finite, ends at its tail, holds   *)
(* no node twice and shares none.                                          *)
(***************************************************************************)
DllInv == Rep(q, Contents) /\ panicked \in BOOLEAN

\* Lists that the pointers represent are the lists they lead through.
LEMMA RepContents ==
  ASSUME NEW S, S \in [Lists -> Seq(Nodes)]
  PROVE  /\ Rep(q, S) => Contents = S
         /\ Rep(q', S) => Contents' = S
<1>1. ASSUME Rep(q, S) PROVE Contents = S
  <2>1. \A l \in Lists : Forward(l) = S[l]
    BY <1>1, ForwardFollows, ChainFollowed DEF Rep
  <2> QED
    BY <2>1 DEF Contents
<1>2. ASSUME Rep(q', S) PROVE Contents' = S
  <2>1. \A l \in Lists : Followed(q', l) = S[l]
    BY <1>2, ChainFollowed DEF Rep
  <2>2. Contents' = [l \in Lists |-> Followed(q', l)]
    BY ForwardFollows DEF Contents
  <2> QED
    BY <2>1, <2>2
<1> QED
  BY <1>1, <1>2

\* The nodes of the lists are the nodes of the sequences.
LEMMA ListedNodes ==
  ASSUME Rep(q, Contents)
  PROVE  /\ \A n \in Nodes \ Listed : n \in Seqs!Unlisted /\ \A m \in Lists : Absent(Contents[m], n)
         /\ \A n \in Listed : \E l \in Lists : \E i \in 1..Len(Contents[l]) : n = Contents[l][i]
<1>1. \A l \in Lists : /\ Len(Contents[l]) = q.size[l] /\ Contents[l] = Forward(l)
                       /\ DOMAIN Contents[l] = 1..Len(Contents[l])
  <2> TAKE l \in Lists
  <2>1. Contents[l] \in Seq(Nodes) /\ Chain(q, l, Contents[l])
    BY DEF Rep
  <2>2. Contents[l] = Forward(l)
    BY DEF Contents
  <2> QED
    BY <2>1, <2>2, LenProperties DEF Chain
<1>2. \A l \in Lists : /\ Elements(l) = {Contents[l][i] : i \in 1..Len(Contents[l])}
                       /\ Seqs!Elements(l) = {Contents[l][i] : i \in 1..Len(Contents[l])}
  BY <1>1 DEF Elements, Seqs!Elements
<1>3. Listed = UNION {Seqs!Elements(l) : l \in Lists}
  BY <1>2 DEF Listed
<1>4. ASSUME NEW n \in Nodes \ Listed
      PROVE  n \in Seqs!Unlisted /\ \A m \in Lists : Absent(Contents[m], n)
  <2>1. n \in Seqs!Unlisted
    BY <1>3 DEF Seqs!Unlisted
  <2>2. ASSUME NEW m \in Lists, NEW j \in 1..Len(Contents[m]) PROVE Contents[m][j] # n
    BY <1>2, <1>3
  <2> QED
    BY <2>1, <2>2 DEF Absent
<1>5. ASSUME NEW n \in Listed
      PROVE  \E l \in Lists : \E i \in 1..Len(Contents[l]) : n = Contents[l][i]
  BY <1>2 DEF Listed
<1> QED
  BY <1>4, <1>5

\* What a step may do to the sequences, and to the stop.
Outcome == /\ DllInv'
           /\ Seqs!Next \/ Contents' = Contents

\* A node that enters a list.
LEMMA EnterOutcome ==
  ASSUME DllInv, NEW l \in Lists, NEW n \in Nodes \ Listed, UNCHANGED panicked,
         NEW i \in 1..(Len(Contents[l]) + 1), Enters(q, q', l, Contents[l], i, n)
  PROVE  Outcome
<1> DEFINE S == [Contents EXCEPT ![l] = Seqs!InsertAt(Contents[l], i, n)]
<1>1. n \in Seqs!Unlisted /\ \A m \in Lists : Absent(Contents[m], n)
  BY ListedNodes DEF DllInv
<1>2. Rep(q', S)
  BY <1>1, EnterRep DEF DllInv
<1>3. Contents' = S
  BY <1>2, RepContents DEF Rep
<1>4. Seqs!Enter
  BY <1>1, <1>3 DEF Seqs!Enter
<1>5. Rep(q', Contents')
  BY <1>2, <1>3
<1> QED
  BY <1>4, <1>5 DEF Outcome, DllInv, Seqs!Next

\* A node that leaves its list.
LEMMA LeaveOutcome ==
  ASSUME DllInv, NEW l \in Lists, UNCHANGED panicked,
         NEW i \in 1..Len(Contents[l]), Leaves(q, q', l, Contents[l], i)
  PROVE  Outcome
<1> DEFINE S == [Contents EXCEPT ![l] = Seqs!RemoveAt(Contents[l], i)]
<1>1. Rep(q', S)
  BY LeaveRep DEF DllInv
<1>2. Contents' = S
  BY <1>1, RepContents DEF Rep
<1>3. DOMAIN Contents[l] = 1..Len(Contents[l])
  BY LenProperties DEF DllInv, Rep
<1>4. Seqs!Leave
  BY <1>2, <1>3 DEF Seqs!Leave
<1>5. Rep(q', Contents')
  BY <1>1, <1>2
<1> QED
  BY <1>4, <1>5 DEF Outcome, DllInv, Seqs!Next

\* A step that leaves the pointers alone.
LEMMA StutterOutcome ==
  ASSUME DllInv, UNCHANGED q, panicked' \in BOOLEAN
  PROVE  Outcome
<1>1. Rep(q', Contents) /\ Contents \in [Lists -> Seq(Nodes)]
  BY DEF DllInv, Rep
<1>2. Contents' = Contents
  BY <1>1, RepContents
<1> QED
  BY <1>1, <1>2 DEF Outcome, DllInv

\* Every operation of dll.c keeps the invariant and is a step of ListOps.
LEMMA StepOutcome ==
  ASSUME DllInv, [Next]_vars
  PROVE  Outcome
<1>0. Rep(q, Contents) /\ panicked \in BOOLEAN
  BY DEF DllInv
<1>1. ASSUME NEW l \in Lists
      PROVE  /\ Holds(q, l, Contents[l]) /\ q.size[l] = Len(Contents[l])
             /\ Len(Contents[l]) \in Nat
  BY <1>0, RepHolds, Pointers
<1>2. ASSUME NEW l \in Lists, NEW n \in Nodes \ Listed PROVE Absent(Contents[l], n)
  BY <1>0, ListedNodes
<1>3. ASSUME NEW l \in Lists, NEW n \in Nodes \ Listed, AddHead(l, n) PROVE Outcome
  <2>1. Enters(q, q', l, Contents[l], 1, n)
    BY <1>1, <1>2, <1>3, AddHeadEnters DEF AddHead
  <2>2. 1 \in 1..(Len(Contents[l]) + 1)
    BY <1>1
  <2> QED
    BY <1>3, <2>1, <2>2, EnterOutcome DEF AddHead
<1>4. ASSUME NEW l \in Lists, NEW n \in Nodes \ Listed, AddTail(l, n) PROVE Outcome
  <2> DEFINE i == Len(Contents[l]) + 1
  <2>1. Enters(q, q', l, Contents[l], i, n)
    BY <1>1, <1>2, <1>4, AddTailEnters DEF AddTail
  <2>2. i \in 1..(Len(Contents[l]) + 1)
    BY <1>1
  <2> HIDE DEF i
  <2> QED
    BY <1>4, <2>1, <2>2, EnterOutcome DEF AddTail
<1>5. ASSUME NEW ref \in Listed, NEW n \in Nodes \ Listed, AddBefore(ref, n) PROVE Outcome
  <2>0. PICK l \in Lists : \E i \in 1..Len(Contents[l]) : ref = Contents[l][i]
    BY <1>0, ListedNodes
  <2>1. PICK i \in 1..Len(Contents[l]) : ref = Contents[l][i]
    BY <2>0
  <2>2. Enters(q, q', l, Contents[l], i, n)
    BY <1>1, <1>2, <1>5, <2>1, AddBeforeEnters DEF AddBefore
  <2>3. i \in 1..(Len(Contents[l]) + 1)
    BY <1>1
  <2> QED
    BY <1>5, <2>2, <2>3, EnterOutcome DEF AddBefore
<1>6. ASSUME NEW ref \in Listed, NEW n \in Nodes \ Listed, AddAfter(ref, n) PROVE Outcome
  <2>0. PICK l \in Lists : \E i \in 1..Len(Contents[l]) : ref = Contents[l][i]
    BY <1>0, ListedNodes
  <2>1. PICK i \in 1..Len(Contents[l]) : ref = Contents[l][i]
    BY <2>0
  <2> DEFINE j == i + 1
  <2>2. Enters(q, q', l, Contents[l], j, n)
    BY <1>1, <1>2, <1>6, <2>1, AddAfterEnters DEF AddAfter
  <2>3. j \in 1..(Len(Contents[l]) + 1)
    BY <1>1
  <2> HIDE DEF j
  <2> QED
    BY <1>6, <2>2, <2>3, EnterOutcome DEF AddAfter
<1>7. ASSUME NEW l \in Lists, RemoveHead(l) PROVE Outcome
  <2>1. CASE q.size[l] = 0
    BY <1>7, <2>1, StutterOutcome DEF RemoveHead
  <2>2. CASE q.size[l] # 0
    <3>1. Leaves(q, q', l, Contents[l], 1)
      BY <1>1, <1>7, <2>2, RemoveHeadLeaves DEF RemoveHead
    <3>2. 1 \in 1..Len(Contents[l])
      BY <1>1, <2>2
    <3> QED
      BY <1>7, <2>2, <3>1, <3>2, LeaveOutcome DEF RemoveHead
  <2> QED
    BY <2>1, <2>2
<1>8. ASSUME NEW l \in Lists, RemoveTail(l) PROVE Outcome
  <2>1. CASE q.size[l] = 0
    BY <1>8, <2>1, StutterOutcome DEF RemoveTail
  <2>2. CASE q.size[l] # 0
    <3> DEFINE i == Len(Contents[l])
    <3>1. Leaves(q, q', l, Contents[l], i)
      BY <1>1, <1>8, <2>2, RemoveTailLeaves DEF RemoveTail
    <3>2. i \in 1..Len(Contents[l])
      BY <1>1, <2>2
    <3> HIDE DEF i
    <3> QED
      BY <1>8, <2>2, <3>1, <3>2, LeaveOutcome DEF RemoveTail
  <2> QED
    BY <2>1, <2>2
<1>9. ASSUME NEW l \in Lists, Clear(l) PROVE Outcome
  <2> DEFINE S == [Contents EXCEPT ![l] = <<>>]
  <2>1. Rep(q', S)
    BY <1>0, <1>9, ClearRep DEF Clear
  <2>2. Contents' = S
    BY <2>1, RepContents DEF Rep
  <2>3. Seqs!Clear
    BY <2>2 DEF Seqs!Clear
  <2>4. Rep(q', Contents')
    BY <2>1, <2>2
  <2> QED
    BY <1>0, <1>9, <2>3, <2>4 DEF Outcome, DllInv, Seqs!Next, Clear
<1>10. ASSUME NEW n \in Removable, Remove(n) PROVE Outcome
  <2>1. CASE q.list[n] = NULL
    BY <1>10, <2>1, StutterOutcome DEF Remove
  <2>2. CASE q.list[n] # NULL
    <3>1. n \in Listed
      BY <2>2 DEF Removable
    <3>0. PICK l \in Lists : \E i \in 1..Len(Contents[l]) : n = Contents[l][i]
      BY <1>0, <3>1, ListedNodes
    <3>2. PICK i \in 1..Len(Contents[l]) : n = Contents[l][i]
      BY <3>0
    <3>3. Leaves(q, q', l, Contents[l], i)
      BY <1>1, <1>10, <2>2, <3>2, RemoveLeaves DEF Remove
    <3> QED
      BY <1>10, <2>2, <3>3, LeaveOutcome DEF Remove
  <2> QED
    BY <2>1, <2>2
<1>11. CASE UNCHANGED vars
  BY <1>0, <1>11, StutterOutcome DEF vars
<1> QED
  BY <1>3, <1>4, <1>5, <1>6, <1>7, <1>8, <1>9, <1>10, <1>11 DEF Next

\* The zeroed lists are empty.
LEMMA InitOutcome ==
  ASSUME Init
  PROVE  DllInv /\ Seqs!Init
<1> DEFINE S == [l \in Lists |-> <<>>]
<1>1. q \in QType
  BY DEF Init, QType, Cells
<1>2. \A l \in Lists : q.size[l] = 0 /\ q.head[l] = NULL /\ q.tail[l] = NULL
  BY DEF Init
<1>3. \A l \in Lists : Chain(q, l, <<>>)
  BY <1>2, ClearedChain
<1>4. S \in [Lists -> Seq(Nodes)] /\ Rep(q, S)
  BY <1>1, <1>3 DEF Rep
<1>5. Contents = S
  BY <1>4, RepContents
<1> QED
  BY <1>4, <1>5 DEF Init, DllInv, Seqs!Init

\* No list is longer than the number of nodes, for it holds none twice.
LEMMA SizeBounded ==
  ASSUME NEW s, NEW l, NEW t, Holds(s, l, t)
  PROVE  s.size[l] \in 0..Cardinality(Nodes)
<1> DEFINE k == Len(t)
<1>1. k \in Nat /\ t \in [1..k -> Nodes]
  BY LenProperties DEF Holds
<1>2. s.size[l] = k /\ \A i, j \in 1..k : t[i] = t[j] => i = j
  BY DEF Holds, Chain
<1> HIDE DEF k
<1>3. IsFiniteSet(Nodes) /\ Cardinality(Nodes) \in Nat
  BY DllAssumption, FS_CardinalityType
<1>4. IsFiniteSet(1..k) /\ Cardinality(1..k) = k
  BY <1>1, FS_Interval
<1>5. ~(Cardinality(Nodes) < k)
  BY <1>1, <1>2, <1>3, <1>4, FS_PigeonHole
<1> QED
  BY <1>1, <1>2, <1>3, <1>5

\* The invariant gives the types and the mirrored pointers.
LEMMA InvariantMirrors ==
  ASSUME DllInv
  PROVE  BackPointersMirror
<1>1. /\ Rep(q, Contents) /\ panicked \in BOOLEAN /\ q \in QType
      /\ \A l \in Lists : Contents[l] = Forward(l)
  BY DEF DllInv, Rep, Contents
<1>2. \A l \in Lists : Holds(q, l, Forward(l)) /\ Chain(q, l, Forward(l))
  BY <1>1, RepHolds DEF Rep
<1>3. TypeOK
  <2>1. \A l \in Lists : q.size[l] \in 0..Cardinality(Nodes)
    BY <1>2, SizeBounded
  <2>2. q.size \in [Lists -> 0..Cardinality(Nodes)]
    BY <1>1, <2>1 DEF QType
  <2> QED
    BY <1>1, <2>2 DEF TypeOK, QType
<1>4. ASSUME NEW l \in Lists
      PROVE  LET s == Forward(l)
                 k == q.size[l]
             IN  /\ (k = 0) => q.head[l] = NULL /\ q.tail[l] = NULL
                 /\ (k > 0) => /\ q.prev[q.head[l]] = NULL /\ q.next[q.tail[l]] = NULL
                               /\ q.tail[l] = s[k]
                 /\ \A i \in 1..k : q.list[s[i]] = l
                 /\ \A i \in 2..k : q.prev[s[i]] = s[i - 1]
  <2> DEFINE s == Forward(l)
             k == Len(s)
  <2>1. /\ q.size[l] = k
        /\ k = 0 => q.head[l] = NULL /\ q.tail[l] = NULL
        /\ k > 0 => /\ q.head[l] = s[1] /\ q.prev[s[1]] = NULL
                    /\ q.tail[l] = s[k] /\ q.next[s[k]] = NULL
        /\ \A i \in 1..k : q.list[s[i]] = l
        /\ \A i \in 1..(k - 1) : q.prev[s[i + 1]] = s[i]
    BY <1>2 DEF Chain
  <2>2. k \in Nat
    BY <1>2, Pointers
  <2> HIDE DEF k, s
  <2>3. \A i \in 2..k : q.prev[s[i]] = s[i - 1]
    <3> TAKE i \in 2..k
    <3>1. i - 1 \in 1..(k - 1) /\ (i - 1) + 1 = i
      BY <2>2
    <3> QED
      BY <2>1, <3>1
  <2> QED
    BY <2>1, <2>3 DEF s
<1> QED
  BY <1>3, <1>4 DEF BackPointersMirror

(***************************************************************************)
(* Whatever the number of lists and nodes, and however often nodes with    *)
(* stale pointers are added again, the prev chain of dll.c mirrors its     *)
(* next chain, the ends are the list's and every node names its list.      *)
(***************************************************************************)
THEOREM DllBackPointers == Spec => []BackPointersMirror
<1>1. Init => DllInv
  BY InitOutcome
<1>2. DllInv /\ [Next]_vars => DllInv'
  BY StepOutcome DEF Outcome
<1>3. DllInv => BackPointersMirror
  BY InvariantMirrors
<1> QED
  BY <1>1, <1>2, <1>3, PTL DEF Spec

(***************************************************************************)
(* The pointer assignments of dll.c implement sequences: each operation    *)
(* inserts or removes one node at one position of one list, or empties     *)
(* one, and all other lists keep their nodes and order.                    *)
(***************************************************************************)
THEOREM DllImplementsSequences == Spec => ImplementsSequences
<1>1. Init => DllInv /\ Seqs!Init
  BY InitOutcome
<1>2. DllInv /\ [Next]_vars => DllInv' /\ [Seqs!Next]_Contents
  BY StepOutcome DEF Outcome
<1> QED
  BY <1>1, <1>2, PTL DEF Spec, ImplementsSequences, Seqs!Spec
=============================================================================
