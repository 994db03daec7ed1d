---------------------------- MODULE MemMapProofs ----------------------------
(***************************************************************************)
(* Proofs about MemMap, for address spaces of any size and any map of the  *)
(* boot loader: claims that do not engulf a range keep the map sorted and  *)
(* disjoint and every look-up tells the latest claim; with claims that     *)
(* also do not end where a range starts, the panic is exact.               *)
(***************************************************************************)
EXTENDS MemMap, WellFoundedInduction, SequenceTheorems, TLAPS

-----------------------------------------------------------------------------
\* A set of naturals that is not empty has a minimum, and Min is it.
LEMMA MinOfNaturals ==
  ASSUME NEW S \in SUBSET Nat, S # {}
  PROVE  Min(S) \in S /\ \A y \in S : Min(S) <= y
<1> DEFINE Less == {ss \in Nat \X Nat : ss[1] < ss[2]}
<1>1. IsWellFoundedOn(Less, Nat)
  BY NatLessThanWellFounded DEF OpToRel
<1> HIDE DEF Less
<1>2. PICK x \in S : \A y \in S : ~(<<y, x>> \in Less)
  BY <1>1, WFMin
<1>3. \A y \in S : x <= y
  <2> SUFFICES ASSUME NEW y \in S, y < x PROVE FALSE
    OBVIOUS
  <2>1. <<y, x>> \in Less
    BY DEF Less
  <2> QED
    BY <1>2, <2>1
<1> QED
  BY <1>3 DEF Min

Addresses(r) == r.addr..(End(r) - 1)

Maps == {m \in Seq(Ranges) :
           /\ \A i \in DOMAIN m : End(m[i]) <= MaxAddr
           /\ \A i, j \in DOMAIN m : i < j => End(m[i]) <= m[j].addr}

\* The sequence s with its elements a + 1 .. b - 1 replaced by c.
Splice(s, a, c, b) == SubSeq(s, 1, a) \o c \o SubSeq(s, b, Len(s))

\* Where the elements of a splice come from.
LEMMA SpliceElements ==
  ASSUME NEW s \in Seq(Ranges), NEW c \in Seq(Ranges),
         NEW a \in 0..Len(s), NEW b \in (a + 1)..(Len(s) + 1)
  PROVE  LET t == Splice(s, a, c, b)
             k == Len(c)
         IN  /\ t \in Seq(Ranges)
             /\ Len(t) = a + k + (Len(s) + 1 - b)
             /\ \A x \in 1..a : t[x] = s[x]
             /\ \A x \in (a + 1)..(a + k) : t[x] = c[x - a]
             /\ \A x \in (a + k + 1)..Len(t) : /\ x - a - k - 1 + b \in b..Len(s)
                                              /\ t[x] = s[x - a - k - 1 + b]
<1> DEFINE f == SubSeq(s, 1, a)
           g == SubSeq(s, b, Len(s))
           k == Len(c)
           n == Len(s)
<1>1. n \in Nat /\ k \in Nat /\ a \in Nat /\ b \in Nat
  OBVIOUS
<1>2. f \in Seq(Ranges) /\ Len(f) = a /\ \A x \in 1..a : f[x] = s[x]
  BY <1>1
<1>3. /\ g \in Seq(Ranges) /\ Len(g) = n + 1 - b
      /\ \A x \in 1..(n + 1 - b) : g[x] = s[x + b - 1]
  BY <1>1
<1> HIDE DEF f, g
<1> DEFINE h == f \o c
           t == h \o g
<1>4. /\ h \in Seq(Ranges) /\ Len(h) = Len(f) + Len(c)
      /\ \A x \in 1..(Len(f) + Len(c)) : h[x] = IF x <= Len(f) THEN f[x] ELSE c[x - Len(f)]
  BY <1>2, ConcatProperties
<1> HIDE DEF h
<1>5. h \in Seq(Ranges) /\ Len(h) = a + k
  BY <1>2, <1>4
<1>6. /\ t \in Seq(Ranges) /\ Len(t) = Len(h) + Len(g)
      /\ \A x \in 1..(Len(h) + Len(g)) : t[x] = IF x <= Len(h) THEN h[x] ELSE g[x - Len(h)]
  <2>1. h \in Seq(Ranges) /\ g \in Seq(Ranges)
    BY <1>3, <1>5
  <2> QED
    BY <2>1, ConcatProperties
<1>7. Len(t) = a + k + (n + 1 - b)
  BY <1>3, <1>5, <1>6
<1> HIDE DEF t
<1>8. ASSUME NEW x \in 1..a PROVE t[x] = s[x]
  <2>1. x \in 1..(Len(h) + Len(g)) /\ x <= Len(h) /\ x \in 1..(Len(f) + Len(c)) /\ x <= Len(f)
    BY <1>1, <1>2, <1>3, <1>5
  <2>2. t[x] = h[x] /\ h[x] = f[x]
    BY <1>4, <1>6, <2>1
  <2> QED
    BY <1>2, <2>2
<1>9. ASSUME NEW x \in (a + 1)..(a + k) PROVE t[x] = c[x - a]
  <2>1. /\ x \in 1..(Len(h) + Len(g)) /\ x <= Len(h)
        /\ x \in 1..(Len(f) + Len(c)) /\ ~(x <= Len(f))
    BY <1>1, <1>2, <1>3, <1>5
  <2>2. t[x] = h[x] /\ h[x] = c[x - Len(f)]
    BY <1>4, <1>6, <2>1
  <2> QED
    BY <1>2, <2>2
<1>10. ASSUME NEW x \in (a + k + 1)..Len(t)
       PROVE  x - a - k - 1 + b \in b..n /\ t[x] = s[x - a - k - 1 + b]
  <2>1. x \in Nat /\ x - a - k \in 1..(n + 1 - b) /\ x - a - k - 1 + b \in b..n
    BY <1>1, <1>7, <1>10
  <2>2. (x - a - k) + b - 1 = x - a - k - 1 + b
    BY <1>1, <2>1
  <2>3. t[x] = g[x - a - k]
    <3>1. x \in 1..(Len(h) + Len(g)) /\ ~(x <= Len(h)) /\ x - Len(h) = x - a - k
      BY <1>1, <1>3, <1>5, <1>6, <2>1
    <3> QED
      BY <1>6, <3>1
  <2>4. g[x - a - k] = s[(x - a - k) + b - 1]
    BY <1>3, <2>1
  <2> QED
    BY <2>1, <2>2, <2>3, <2>4
<1>11. t = Splice(s, a, c, b)
  BY DEF Splice, f, g, h, t
<1> QED
  BY <1>6, <1>7, <1>8, <1>9, <1>10, <1>11

\* The elements of a splice, as a set.
LEMMA SpliceRange ==
  ASSUME NEW s \in Seq(Ranges), NEW c \in Seq(Ranges),
         NEW a \in 0..Len(s), NEW b \in (a + 1)..(Len(s) + 1), NEW v
  PROVE  LET t == Splice(s, a, c, b)
         IN  (\E x \in DOMAIN t : t[x] = v) <=>
               \/ \E i \in 1..a : s[i] = v
               \/ \E x \in DOMAIN c : c[x] = v
               \/ \E i \in b..Len(s) : s[i] = v
<1> DEFINE t == Splice(s, a, c, b)
           k == Len(c)
           n == Len(s)
<1>1. n \in Nat /\ k \in Nat /\ a \in Nat /\ b \in Nat /\ a < b /\ b <= n + 1
  OBVIOUS
<1>2. /\ t \in Seq(Ranges) /\ Len(t) = a + k + (n + 1 - b)
      /\ \A x \in 1..a : t[x] = s[x]
      /\ \A x \in (a + 1)..(a + k) : t[x] = c[x - a]
      /\ \A x \in (a + k + 1)..Len(t) : /\ x - a - k - 1 + b \in b..n
                                       /\ t[x] = s[x - a - k - 1 + b]
  BY SpliceElements
<1> HIDE DEF t
<1>3. DOMAIN t = 1..Len(t) /\ DOMAIN c = 1..k
  BY <1>2
<1>4. ASSUME NEW x \in DOMAIN t, t[x] = v
      PROVE  \/ \E i \in 1..a : s[i] = v
             \/ \E i \in DOMAIN c : c[i] = v
             \/ \E i \in b..n : s[i] = v
  <2>1. CASE x \in 1..a
    BY <1>2, <1>4, <2>1
  <2>2. CASE x \in (a + 1)..(a + k)
    <3>1. x - a \in DOMAIN c
      BY <1>1, <1>3, <2>2
    <3> QED
      BY <1>2, <1>4, <2>2, <3>1
  <2>3. CASE x \in (a + k + 1)..Len(t)
    BY <1>2, <1>4, <2>3
  <2> QED
    BY <1>1, <1>2, <1>3, <2>1, <2>2, <2>3
<1>5. ASSUME NEW i \in 1..a, s[i] = v PROVE \E x \in DOMAIN t : t[x] = v
  <2>1. i \in DOMAIN t
    BY <1>1, <1>2, <1>3
  <2> QED
    BY <1>2, <1>5, <2>1
<1>6. ASSUME NEW i \in DOMAIN c, c[i] = v PROVE \E x \in DOMAIN t : t[x] = v
  <2>1. i + a \in DOMAIN t /\ i + a \in (a + 1)..(a + k) /\ (i + a) - a = i
    BY <1>1, <1>2, <1>3
  <2>2. t[i + a] = c[(i + a) - a]
    BY <1>2, <2>1
  <2> QED
    BY <1>6, <2>1, <2>2
<1>7. ASSUME NEW i \in b..n, s[i] = v PROVE \E x \in DOMAIN t : t[x] = v
  <2> DEFINE x == i + a + k + 1 - b
  <2>1. x \in DOMAIN t /\ x \in (a + k + 1)..Len(t) /\ x - a - k - 1 + b = i
    BY <1>1, <1>2, <1>3
  <2>2. t[x] = s[x - a - k - 1 + b]
    BY <1>2, <2>1
  <2> QED
    BY <1>7, <2>1, <2>2
<1> QED
  BY <1>4, <1>5, <1>6, <1>7 DEF t

\* The ranges of c lie between the first a ranges of m and those from b on.
Fits(m, a, c, b) ==
  /\ \A i \in 1..a, x \in DOMAIN c : End(m[i]) <= c[x].addr
  /\ \A i \in b..Len(m), x \in DOMAIN c : End(c[x]) <= m[i].addr

\* Ranges that fit between their neighbours keep the map a map.
LEMMA SpliceIsMap ==
  ASSUME NEW m \in Maps, NEW c \in Maps,
         NEW a \in 0..Len(m), NEW b \in (a + 1)..(Len(m) + 1),
         Fits(m, a, c, b)
  PROVE  Splice(m, a, c, b) \in Maps
<1> DEFINE t == Splice(m, a, c, b)
           k == Len(c)
           n == Len(m)
<1>0. m \in Seq(Ranges) /\ c \in Seq(Ranges)
  BY DEF Maps
<1>1. n \in Nat /\ k \in Nat /\ a \in Nat /\ b \in Nat /\ a < b /\ b <= n + 1
  BY <1>0
<1>2. /\ t \in Seq(Ranges) /\ Len(t) = a + k + (n + 1 - b)
      /\ \A x \in 1..a : t[x] = m[x]
      /\ \A x \in (a + 1)..(a + k) : t[x] = c[x - a]
      /\ \A x \in (a + k + 1)..Len(t) : /\ x - a - k - 1 + b \in b..n
                                       /\ t[x] = m[x - a - k - 1 + b]
  BY <1>0, SpliceElements, ZenonT(60)
<1> HIDE DEF t
<1>3. DOMAIN t = 1..Len(t) /\ Len(t) \in Nat /\ DOMAIN c = 1..k /\ DOMAIN m = 1..n
  BY <1>0, <1>2
<1>4. /\ \A i \in 1..n : End(m[i]) <= MaxAddr
      /\ \A i, j \in 1..n : i < j => End(m[i]) <= m[j].addr
      /\ \A i \in 1..k : End(c[i]) <= MaxAddr
      /\ \A i, j \in 1..k : i < j => End(c[i]) <= c[j].addr
  BY <1>3 DEF Maps
\* The zone of an index.
<1>5. ASSUME NEW x \in DOMAIN t
      PROVE  \/ x \in 1..a /\ x \in 1..n /\ t[x] = m[x]
             \/ x \in (a + 1)..(a + k) /\ x - a \in 1..k /\ t[x] = c[x - a]
             \/ /\ x \in (a + k + 1)..Len(t) /\ x - a - k - 1 + b \in b..n
                /\ x - a - k - 1 + b \in 1..n /\ t[x] = m[x - a - k - 1 + b]
  <2>1. x \in Nat /\ x >= 1 /\ x <= Len(t)
    BY <1>3
  <2>2. CASE x \in 1..a
    BY <1>1, <1>2, <2>2
  <2>3. CASE x \in (a + 1)..(a + k)
    BY <1>1, <1>2, <2>3, SMTT(30)
  <2>4. CASE x \in (a + k + 1)..Len(t)
    <3>1. x - a - k - 1 + b \in b..n /\ t[x] = m[x - a - k - 1 + b]
      BY <1>2, <2>4
    <3>2. x - a - k - 1 + b \in 1..n
      BY <1>1, <3>1
    <3> QED
      BY <2>4, <3>1, <3>2
  <2> QED
    BY <1>1, <1>3, <2>1, <2>2, <2>3, <2>4
<1>6. ASSUME NEW x \in DOMAIN t PROVE End(t[x]) <= MaxAddr
  BY <1>4, <1>5
<1>7. ASSUME NEW x \in DOMAIN t, NEW y \in DOMAIN t, x < y PROVE End(t[x]) <= t[y].addr
  <2>0. x \in Nat /\ y \in Nat
    BY <1>3
  <2>1. CASE x \in 1..a /\ x \in 1..n /\ t[x] = m[x]
    <3>1. CASE y \in 1..a /\ y \in 1..n /\ t[y] = m[y]
      BY <1>4, <1>7, <2>1, <3>1
    <3>2. CASE y - a \in 1..k /\ t[y] = c[y - a]
      BY <1>3, <2>1, <3>2 DEF Fits
    <3>3. CASE /\ y - a - k - 1 + b \in b..n
               /\ y - a - k - 1 + b \in 1..n /\ t[y] = m[y - a - k - 1 + b]
      <4>1. x < y - a - k - 1 + b
        BY <1>1, <2>0, <2>1, <3>3
      <4> QED
        BY <1>4, <2>1, <3>3, <4>1
    <3> QED
      BY <1>5, <3>1, <3>2, <3>3
  <2>2. CASE x \in (a + 1)..(a + k) /\ x - a \in 1..k /\ t[x] = c[x - a]
    <3>1. CASE y \in (a + 1)..(a + k) /\ y - a \in 1..k /\ t[y] = c[y - a]
      <4>1. x - a < y - a
        BY <1>1, <1>7, <2>0
      <4> QED
        BY <1>4, <2>2, <3>1, <4>1
    <3>2. CASE /\ y - a - k - 1 + b \in b..n
               /\ y - a - k - 1 + b \in 1..n /\ t[y] = m[y - a - k - 1 + b]
      BY <1>3, <2>2, <3>2 DEF Fits
    <3>3. ~(y \in 1..a)
      BY <1>1, <1>7, <2>0, <2>2
    <3> QED
      BY <1>5, <3>1, <3>2, <3>3
  <2>3. CASE /\ x \in (a + k + 1)..Len(t) /\ x - a - k - 1 + b \in b..n
             /\ x - a - k - 1 + b \in 1..n /\ t[x] = m[x - a - k - 1 + b]
    <3>1. y \in (a + k + 1)..Len(t) /\ x - a - k - 1 + b < y - a - k - 1 + b
      BY <1>1, <1>3, <1>7, <2>0, <2>3, SMTT(30)
    <3>2. y - a - k - 1 + b \in 1..n /\ t[y] = m[y - a - k - 1 + b]
      <4>1. ~(y \in 1..a) /\ ~(y \in (a + 1)..(a + k))
        BY <1>1, <1>3, <2>0, <3>1, SMTT(30)
      <4> QED
        BY <1>5, <4>1
    <3> QED
      BY <1>4, <2>3, <3>1, <3>2
  <2> QED
    BY <1>5, <2>1, <2>2, <2>3
<1> QED
  BY <1>2, <1>6, <1>7 DEF Maps, t

-----------------------------------------------------------------------------
\* The ranges of c lie in r, cover it and have its type outside the claim.
Parts(c, r, claim) ==
  /\ \A x \in DOMAIN c : c[x].addr >= r.addr /\ End(c[x]) <= End(r)
  /\ \A x \in DOMAIN c : \A d \in Addresses(c[x]) :
       c[x].type = IF d \in Addresses(claim) THEN claim.type ELSE r.type
  /\ \A d \in Addresses(r) : \E x \in DOMAIN c : d \in Addresses(c[x])

\* Two tuples of one range put together.
LEMMA Pairs ==
  ASSUME NEW x \in Ranges, NEW y \in Ranges
  PROVE  <<x>> \o <<y>> = <<x, y>>
<1>1. <<x>> \in Seq(Ranges) /\ <<y>> \in Seq(Ranges) /\ <<x, y>> \in Seq(Ranges)
  OBVIOUS
<1>2. Len(<<x>> \o <<y>>) = 2 /\ <<x>> \o <<y>> \in Seq(Ranges)
  BY <1>1, ConcatProperties
<1>3. \A i \in 1..2 : (<<x>> \o <<y>>)[i] = <<x, y>>[i]
  BY <1>1, ConcatProperties
<1> QED
  BY <1>1, <1>2, <1>3, SeqEqual

\* Three tuples of one range put together.
LEMMA Triples ==
  ASSUME NEW x \in Ranges, NEW y \in Ranges, NEW z \in Ranges
  PROVE  <<x>> \o <<y>> \o <<z>> = <<x, y, z>>
<1>1. <<x, y>> \in Seq(Ranges) /\ <<z>> \in Seq(Ranges) /\ <<x, y, z>> \in Seq(Ranges)
  OBVIOUS
<1>2. Len(<<x, y>> \o <<z>>) = 3 /\ <<x, y>> \o <<z>> \in Seq(Ranges)
  BY <1>1, ConcatProperties
<1>3. \A i \in 1..3 : (<<x, y>> \o <<z>>)[i] = <<x, y, z>>[i]
  BY <1>1, ConcatProperties
<1>4. <<x, y>> \o <<z>> = <<x, y, z>>
  BY <1>1, <1>2, <1>3, SeqEqual
<1> QED
  BY <1>4, Pairs

\* An empty tuple on either side adds nothing.
LEMMA EmptySides ==
  ASSUME NEW x \in Ranges, NEW y \in Ranges
  PROVE  /\ <<x>> \o <<y>> \o << >> = <<x, y>>
         /\ << >> \o <<x>> \o <<y>> = <<x, y>>
         /\ << >> \o <<x>> \o << >> = <<x>>
<1>1. <<x>> \in Seq(Ranges) /\ <<x, y>> \in Seq(Ranges)
  OBVIOUS
<1>2. << >> \o <<x>> = <<x>> /\ <<x>> \o << >> = <<x>> /\ <<x, y>> \o << >> = <<x, y>>
  BY <1>1, ConcatEmptySeq
<1> QED
  BY <1>2, Pairs

\* Cutting a claim out of a range that contains it.
LEMMA CutParts ==
  ASSUME NEW r \in Ranges, NEW claim \in Ranges, End(r) <= MaxAddr,
         mem_contains(r, claim)
  PROVE  Cut(r, claim) \in Maps /\ Parts(Cut(r, claim), r, claim)
<1> DEFINE p == [addr |-> r.addr, size |-> claim.addr - r.addr, type |-> r.type]
           s == [addr |-> End(claim), size |-> End(r) - End(claim), type |-> r.type]
<1>1. /\ r.addr \in Nat /\ r.size \in Nat /\ r.size > 0 /\ End(r) = r.addr + r.size
      /\ claim.addr \in Nat /\ claim.size \in Nat /\ claim.size > 0
      /\ End(claim) = claim.addr + claim.size
      /\ r.addr <= claim.addr /\ End(claim) <= End(r) /\ MaxAddr \in Nat
      /\ r.type \in Types /\ r = [addr |-> r.addr, size |-> r.size, type |-> r.type]
  BY BootMapsAssumption DEF Ranges, End, mem_contains
<1>2. [r EXCEPT !.size = claim.addr - r.addr] = p
  BY <1>1
<1>3. [r EXCEPT !.addr = End(claim), !.size = End(r) - End(claim)] = s
  <2> DEFINE e == [r EXCEPT !.addr = End(claim)]
  <2>1. e = [addr |-> End(claim), size |-> r.size, type |-> r.type]
    BY <1>1
  <2> HIDE DEF e
  <2>2. [e EXCEPT !.size = End(r) - End(claim)] = s
    BY <2>1
  <2> QED
    BY <2>2 DEF e
<1>4. /\ claim.addr > r.addr => p \in Ranges
      /\ End(r) > End(claim) => s \in Ranges
  BY <1>1 DEF Ranges
<1>5. p.addr = r.addr /\ End(p) = claim.addr /\ p.type = r.type
  BY <1>1 DEF End
<1>6. s.addr = End(claim) /\ End(s) = End(r) /\ s.type = r.type
  BY <1>1 DEF End
<1> HIDE DEF p, s
<1>7. CASE claim.addr > r.addr /\ End(r) > End(claim)
  <2>1. Cut(r, claim) = <<p, claim, s>>
    BY <1>2, <1>3, <1>4, <1>7, Triples DEF Cut
  <2>2. <<p, claim, s>> \in Maps
    BY <1>1, <1>4, <1>5, <1>6, <1>7 DEF Maps
  <2>3. Parts(<<p, claim, s>>, r, claim)
    BY <1>1, <1>5, <1>6, <1>7 DEF Parts, Addresses
  <2> QED
    BY <2>1, <2>2, <2>3
<1>8. CASE claim.addr > r.addr /\ ~(End(r) > End(claim))
  <2>1. Cut(r, claim) = <<p, claim>>
    BY <1>2, <1>4, <1>8, EmptySides DEF Cut
  <2>2. <<p, claim>> \in Maps
    BY <1>1, <1>4, <1>5, <1>8 DEF Maps
  <2>3. Parts(<<p, claim>>, r, claim)
    BY <1>1, <1>5, <1>8 DEF Parts, Addresses
  <2> QED
    BY <2>1, <2>2, <2>3
<1>9. CASE ~(claim.addr > r.addr) /\ End(r) > End(claim)
  <2>1. Cut(r, claim) = <<claim, s>>
    BY <1>3, <1>4, <1>9, EmptySides DEF Cut
  <2>2. <<claim, s>> \in Maps
    BY <1>1, <1>4, <1>6, <1>9 DEF Maps
  <2>3. Parts(<<claim, s>>, r, claim)
    BY <1>1, <1>6, <1>9 DEF Parts, Addresses
  <2> QED
    BY <2>1, <2>2, <2>3
<1>10. CASE ~(claim.addr > r.addr) /\ ~(End(r) > End(claim))
  <2>1. Cut(r, claim) = <<claim>>
    BY <1>10, EmptySides DEF Cut
  <2>2. <<claim>> \in Maps
    BY <1>1, <1>10 DEF Maps
  <2>3. Parts(<<claim>>, r, claim)
    BY <1>1, <1>10 DEF Parts, Addresses
  <2> QED
    BY <2>1, <2>2, <2>3
<1> QED
  BY <1>7, <1>8, <1>9, <1>10

-----------------------------------------------------------------------------
\* Every range has the type last given to each of its addresses.
Tells(m, f) ==
  \A d \in 0..(MaxAddr - 1) :
    /\ \A i \in DOMAIN m : d \in Addresses(m[i]) => f[d] = m[i].type
    /\ (\A i \in DOMAIN m : d \notin Addresses(m[i])) => f[d] = Unmapped

MapInv ==
  /\ mem_map \in Maps
  /\ claimed \in [0..(MaxAddr - 1) -> Types \cup {Unmapped}]
  /\ panicked \in BOOLEAN
  /\ Tells(mem_map, claimed)

\* What is known of the ranges of a map.
LEMMA MapFacts ==
  ASSUME NEW m \in Maps
  PROVE  /\ m \in Seq(Ranges) /\ Len(m) \in Nat /\ DOMAIN m = 1..Len(m)
         /\ MaxAddr \in Nat
         /\ \A i \in 1..Len(m) :
              /\ m[i] \in Ranges /\ m[i].addr \in Nat /\ m[i].size \in Nat
              /\ m[i].size > 0 /\ End(m[i]) \in Nat /\ m[i].addr < End(m[i])
              /\ End(m[i]) <= MaxAddr
         /\ \A i, j \in 1..Len(m) : i < j => End(m[i]) <= m[j].addr
<1>1. m \in Seq(Ranges) /\ Len(m) \in Nat /\ DOMAIN m = 1..Len(m) /\ MaxAddr \in Nat
  BY BootMapsAssumption DEF Maps
<1>2. ASSUME NEW i \in 1..Len(m)
      PROVE  /\ m[i] \in Ranges /\ m[i].addr \in Nat /\ m[i].size \in Nat
             /\ m[i].size > 0 /\ End(m[i]) \in Nat /\ m[i].addr < End(m[i])
  <2>1. m[i] \in Ranges
    BY <1>1
  <2> QED
    BY <1>1, <2>1 DEF Ranges, End
<1>3. /\ \A i \in 1..Len(m) : End(m[i]) <= MaxAddr
      /\ \A i, j \in 1..Len(m) : i < j => End(m[i]) <= m[j].addr
  BY <1>1 DEF Maps
<1> QED
  BY <1>1, <1>2, <1>3

\* The first range that meets the claim, as mem_update_range looks for it.
LEMMA FirstMet ==
  ASSUME NEW m \in Seq(Ranges), NEW claim,
         NEW i, i = SelectInSeq(m, LAMBDA r : mem_intersect(r, claim))
  PROVE  \/ i = 0 /\ \A j \in 1..Len(m) : ~mem_intersect(m[j], claim)
         \/ /\ i \in 1..Len(m) /\ mem_intersect(m[i], claim)
            /\ \A j \in 1..Len(m) : mem_intersect(m[j], claim) => i <= j
<1> DEFINE I == {j \in 1..Len(m) : mem_intersect(m[j], claim)}
<1>1. i = IF I # {} THEN Min(I) ELSE 0
  BY DEF SelectInSeq
<1>2. I \in SUBSET Nat
  OBVIOUS
<1>3. CASE I = {}
  BY <1>1, <1>3
<1>4. CASE I # {}
  <2>1. i \in I /\ \A j \in I : i <= j
    BY <1>1, <1>2, <1>4, MinOfNaturals
  <2> QED
    BY <2>1
<1> QED
  BY <1>3, <1>4

\* The first range behind the claim, as the search for the gap finds it.
LEMMA GapFound ==
  ASSUME mem_map \in Seq(Ranges), NEW claim
  PROVE  LET g == GapPosition(claim)
         IN  /\ g \in 1..(Len(mem_map) + 1)
             /\ g <= Len(mem_map) => End(claim) <= mem_map[g].addr
             /\ \A j \in 1..Len(mem_map) : End(claim) <= mem_map[j].addr => g <= j
<1> DEFINE I == {j \in 1..Len(mem_map) : End(claim) <= mem_map[j].addr}
           g == GapPosition(claim)
<1>0. Len(mem_map) \in Nat
  OBVIOUS
<1>1. SelectInSeq(mem_map, LAMBDA r : End(claim) <= r.addr) = IF I # {} THEN Min(I) ELSE 0
  BY DEF SelectInSeq
<1>2. I \in SUBSET Nat
  OBVIOUS
<1>3. CASE I = {}
  <2>1. g = Len(mem_map) + 1
    BY <1>1, <1>3 DEF GapPosition
  <2> QED
    BY <1>0, <1>3, <2>1
<1>4. CASE I # {}
  <2>1. Min(I) \in I /\ \A j \in I : Min(I) <= j
    BY <1>2, <1>4, MinOfNaturals
  <2>2. g = Min(I)
    <3>1. Min(I) # 0
      BY <2>1
    <3> QED
      BY <1>1, <1>4, <3>1 DEF GapPosition
  <2> QED
    BY <1>0, <2>1, <2>2
<1> QED
  BY <1>3, <1>4

\* mem_find_range finds the first range that holds the address.
LEMMA RangeFound ==
  ASSUME mem_map \in Seq(Ranges), NEW d
  PROVE  LET i == mem_find_range(d)
         IN  \/ i = 0 /\ \A j \in 1..Len(mem_map) :
                           ~(d >= mem_map[j].addr /\ d < End(mem_map[j]))
             \/ i \in 1..Len(mem_map) /\ d >= mem_map[i].addr /\ d < End(mem_map[i])
<1> DEFINE I == {j \in 1..Len(mem_map) : d >= mem_map[j].addr /\ d < End(mem_map[j])}
           i == mem_find_range(d)
<1>1. i = IF I # {} THEN Min(I) ELSE 0
  BY DEF mem_find_range, SelectInSeq
<1>2. I \in SUBSET Nat
  OBVIOUS
<1>3. CASE I = {}
  BY <1>1, <1>3
<1>4. CASE I # {}
  <2>1. i \in I
    BY <1>1, <1>2, <1>4, MinOfNaturals
  <2> QED
    BY <2>1
<1> QED
  BY <1>3, <1>4
-----------------------------------------------------------------------------
\* The types of the addresses f after the claim.
Given(f, claim) ==
  [d \in 0..(MaxAddr - 1) |->
     IF d \in Addresses(claim) THEN claim.type ELSE f[d]]

\* The ranges c hold what they replace and the claim, with their new types g.
Cover(m, a, c, b, claim, g) ==
  /\ \A x \in DOMAIN c : \A d \in Addresses(c[x]) : d \in 0..(MaxAddr - 1) => g[d] = c[x].type
  /\ \A i \in (a + 1)..(b - 1) : \A d \in Addresses(m[i]) :
       \E x \in DOMAIN c : d \in Addresses(c[x])
  /\ \A d \in Addresses(claim) : \E x \in DOMAIN c : d \in Addresses(c[x])

\* The ranges that stay share no address with the claim.
Apart(m, a, b, claim) ==
  \A i \in (1..a) \cup (b..Len(m)) : \A d \in Addresses(m[i]) : d \notin Addresses(claim)

\* A map whose ranges are replaced around a claim tells the claim.
LEMMA SpliceTells ==
  ASSUME NEW m \in Maps, NEW c \in Maps, NEW claim, NEW f,
         NEW a \in 0..Len(m), NEW b \in (a + 1)..(Len(m) + 1),
         Tells(m, f), Apart(m, a, b, claim), Cover(m, a, c, b, claim, Given(f, claim))
  PROVE  Tells(Splice(m, a, c, b), Given(f, claim))
<1> DEFINE t == Splice(m, a, c, b)
           g == Given(f, claim)
<1>0. /\ m \in Seq(Ranges) /\ c \in Seq(Ranges) /\ Len(m) \in Nat
      /\ DOMAIN m = 1..Len(m) /\ a \in Nat /\ b \in Nat /\ a < b /\ b <= Len(m) + 1
  BY DEF Maps
<1>1. \A v : (\E x \in DOMAIN t : t[x] = v) <=>
               \/ \E i \in 1..a : m[i] = v
               \/ \E x \in DOMAIN c : c[x] = v
               \/ \E i \in b..Len(m) : m[i] = v
  BY <1>0, SpliceRange
<1> HIDE DEF t
<1> SUFFICES ASSUME NEW d \in 0..(MaxAddr - 1)
             PROVE  /\ \A y \in DOMAIN t : d \in Addresses(t[y]) => g[d] = t[y].type
                    /\ (\A y \in DOMAIN t : d \notin Addresses(t[y])) => g[d] = Unmapped
  BY DEF Tells, t
<1>2. g[d] = IF d \in Addresses(claim) THEN claim.type ELSE f[d]
  BY DEF Given
<1>3. /\ \A i \in DOMAIN m : d \in Addresses(m[i]) => f[d] = m[i].type
      /\ (\A i \in DOMAIN m : d \notin Addresses(m[i])) => f[d] = Unmapped
  BY DEF Tells
<1>4. \A i \in (1..a) \cup (b..Len(m)) :
        i \in DOMAIN m /\ (d \in Addresses(m[i]) => g[d] = m[i].type)
  <2> SUFFICES ASSUME NEW i \in (1..a) \cup (b..Len(m))
               PROVE  i \in DOMAIN m /\ (d \in Addresses(m[i]) => g[d] = m[i].type)
    OBVIOUS
  <2>1. i \in DOMAIN m
    BY <1>0
  <2>2. d \in Addresses(m[i]) => d \notin Addresses(claim)
    BY DEF Apart
  <2> QED
    BY <1>2, <1>3, <2>1, <2>2
<1>5. \A x \in DOMAIN c : d \in Addresses(c[x]) => g[d] = c[x].type
  BY DEF Cover
<1>6. ASSUME NEW y \in DOMAIN t, d \in Addresses(t[y]) PROVE g[d] = t[y].type
  <2>1. \/ \E i \in 1..a : m[i] = t[y]
        \/ \E x \in DOMAIN c : c[x] = t[y]
        \/ \E i \in b..Len(m) : m[i] = t[y]
    BY <1>1
  <2> HIDE DEF g
  <2> QED
    BY <1>4, <1>5, <1>6, <2>1
<1>7. ASSUME \A y \in DOMAIN t : d \notin Addresses(t[y]) PROVE g[d] = Unmapped
  <2>1. /\ \A i \in 1..a : d \notin Addresses(m[i])
        /\ \A x \in DOMAIN c : d \notin Addresses(c[x])
        /\ \A i \in b..Len(m) : d \notin Addresses(m[i])
    <3>1. \A i \in 1..a : \E y \in DOMAIN t : t[y] = m[i]
      BY <1>1
    <3>2. \A x \in DOMAIN c : \E y \in DOMAIN t : t[y] = c[x]
      BY <1>1
    <3>3. \A i \in b..Len(m) : \E y \in DOMAIN t : t[y] = m[i]
      BY <1>1
    <3> QED
      BY <1>7, <3>1, <3>2, <3>3
  <2>2. \A i \in (a + 1)..(b - 1) : d \notin Addresses(m[i])
    BY <2>1 DEF Cover
  <2>3. d \notin Addresses(claim)
    BY <2>1 DEF Cover
  <2>4. \A i \in DOMAIN m : d \notin Addresses(m[i])
    <3> SUFFICES ASSUME NEW i \in DOMAIN m PROVE d \notin Addresses(m[i])
      OBVIOUS
    <3>1. i \in 1..a \/ i \in (a + 1)..(b - 1) \/ i \in b..Len(m)
      BY <1>0
    <3> QED
      BY <2>1, <2>2, <3>1
  <2> QED
    BY <1>2, <1>3, <2>3, <2>4
<1> QED
  BY <1>6, <1>7

\* The ghost assignment of an action, in the form of the lemmas.
LEMMA ClaimGives ==
  ASSUME NEW r \in Ranges, claimed \in [0..(MaxAddr - 1) -> Types \cup {Unmapped}], Claim(r)
  PROVE  /\ claimed' = Given(claimed, r)
         /\ claimed' \in [0..(MaxAddr - 1) -> Types \cup {Unmapped}]
<1>1. MaxAddr \in Nat /\ r.addr \in Nat /\ r.size \in Nat /\ End(r) \in Nat /\ r.type \in Types
  BY BootMapsAssumption DEF Ranges, End
<1>2. \A d \in 0..(MaxAddr - 1) : (d >= r.addr /\ d < End(r)) <=> d \in Addresses(r)
  BY <1>1 DEF Addresses
<1> QED
  BY <1>1, <1>2 DEF Claim, Given
-----------------------------------------------------------------------------
\* What is known of a claim.
LEMMA ClaimFacts ==
  ASSUME NEW claim \in Claims
  PROVE  /\ claim \in Ranges /\ claim.addr \in Nat /\ claim.size \in Nat
         /\ End(claim) \in Nat /\ claim.addr < End(claim) /\ End(claim) <= MaxAddr
         /\ Engulfs(claim) => Engulfing
         /\ AbutsFromBelow(claim) => Abutting
<1>1. claim \in Ranges
  BY DEF Claims
<1>2. /\ claim.addr \in Nat /\ claim.size \in Nat
      /\ End(claim) \in Nat /\ claim.addr < End(claim)
  BY <1>1, BootMapsAssumption DEF Ranges, End
<1> QED
  BY <1>1, <1>2 DEF Claims

\* A claim that meets no range and engulfs none lies on one side of each.
LEMMA InTheGap ==
  ASSUME ~Engulfing, mem_map \in Maps, NEW claim \in Claims,
         NEW j \in 1..Len(mem_map), ~mem_intersect(mem_map[j], claim)
  PROVE  End(claim) < mem_map[j].addr \/ End(mem_map[j]) <= claim.addr
<1>1. /\ mem_map[j].addr \in Nat /\ End(mem_map[j]) \in Nat /\ DOMAIN mem_map = 1..Len(mem_map)
  BY MapFacts
<1>2. claim.addr \in Nat /\ End(claim) \in Nat /\ ~Engulfs(claim)
  BY ClaimFacts
<1>3. ~(claim.addr < mem_map[j].addr /\ End(claim) >= End(mem_map[j]))
  BY <1>1, <1>2 DEF Engulfs
<1> QED
  BY <1>1, <1>2, <1>3 DEF mem_intersect

\* A claim inside a range: the range is cut.
LEMMA CutStep ==
  ASSUME MapInv, NEW claim \in Claims, NEW i \in 1..Len(mem_map),
         mem_contains(mem_map[i], claim),
         mem_map' = SubSeq(mem_map, 1, i - 1) \o Cut(mem_map[i], claim)
                         \o SubSeq(mem_map, i + 1, Len(mem_map)),
         Claim(claim), UNCHANGED panicked
  PROVE  MapInv'
<1> DEFINE m == mem_map
           r == mem_map[i]
           c == Cut(r, claim)
           n == Len(mem_map)
<1>0. m \in Maps /\ claimed \in [0..(MaxAddr - 1) -> Types \cup {Unmapped}]
  BY DEF MapInv
<1>1. /\ m \in Seq(Ranges) /\ n \in Nat /\ DOMAIN m = 1..n /\ MaxAddr \in Nat
      /\ \A j \in 1..n : /\ m[j] \in Ranges /\ m[j].addr \in Nat /\ End(m[j]) \in Nat
                         /\ m[j].addr < End(m[j]) /\ End(m[j]) <= MaxAddr
      /\ \A j, k \in 1..n : j < k => End(m[j]) <= m[k].addr
  BY <1>0, MapFacts
<1>2. /\ claim \in Ranges /\ claim.addr \in Nat /\ End(claim) \in Nat
      /\ claim.addr < End(claim) /\ End(claim) <= MaxAddr
  BY ClaimFacts
<1>3. r \in Ranges /\ End(r) <= MaxAddr /\ r.addr <= claim.addr /\ End(claim) <= End(r)
  BY <1>1, <1>2 DEF mem_contains
<1>4. c \in Maps /\ Parts(c, r, claim)
  BY <1>2, <1>3, CutParts
<1> HIDE DEF c
<1>5. i - 1 \in 0..n /\ i + 1 \in ((i - 1) + 1)..(n + 1)
  BY <1>1
<1>6. /\ \A x \in DOMAIN c : c[x].addr >= r.addr /\ End(c[x]) <= End(r)
      /\ \A x \in DOMAIN c : c[x].addr \in Nat /\ End(c[x]) \in Nat
  BY <1>4, MapFacts DEF Parts
<1>7. Fits(m, i - 1, c, i + 1)
  <2>1. ASSUME NEW j \in 1..(i - 1), NEW x \in DOMAIN c PROVE End(m[j]) <= c[x].addr
    <3>1. j \in 1..n /\ i \in 1..n /\ j < i
      BY <1>1
    <3>2. End(m[j]) <= m[i].addr /\ End(m[j]) \in Nat /\ m[i].addr \in Nat
      BY <1>1, <3>1
    <3>3. c[x].addr >= m[i].addr /\ c[x].addr \in Nat
      BY <1>6
    <3> QED
      BY <3>2, <3>3
  <2>2. ASSUME NEW j \in (i + 1)..n, NEW x \in DOMAIN c PROVE End(c[x]) <= m[j].addr
    <3>1. j \in 1..n /\ i \in 1..n /\ i < j
      BY <1>1
    <3>2. End(m[i]) <= m[j].addr /\ End(m[i]) \in Nat /\ m[j].addr \in Nat
      BY <1>1, <3>1
    <3>3. End(c[x]) <= End(m[i]) /\ End(c[x]) \in Nat
      BY <1>6
    <3> QED
      BY <3>2, <3>3
  <2> QED
    BY <2>1, <2>2 DEF Fits
<1>8. mem_map' = Splice(m, i - 1, c, i + 1)
  BY DEF Splice, c
<1>9. mem_map' \in Maps
  BY <1>0, <1>4, <1>5, <1>7, <1>8, SpliceIsMap
<1>10. /\ claimed' = Given(claimed, claim)
       /\ claimed' \in [0..(MaxAddr - 1) -> Types \cup {Unmapped}]
  BY <1>0, <1>2, ClaimGives
<1>11. Apart(m, i - 1, i + 1, claim)
  <2> SUFFICES ASSUME NEW j \in (1..(i - 1)) \cup ((i + 1)..n), NEW d \in Addresses(m[j])
               PROVE  d \notin Addresses(claim)
    BY DEF Apart
  <2>1. j \in 1..n /\ i \in 1..n /\ (j < i \/ i < j)
    BY <1>1
  <2>2. /\ m[j].addr \in Nat /\ End(m[j]) \in Nat /\ m[i].addr \in Nat /\ End(m[i]) \in Nat
        /\ End(m[j]) <= m[i].addr \/ End(m[i]) <= m[j].addr
    BY <1>1, <2>1
  <2> QED
    BY <1>2, <1>3, <2>2, SMTT(30) DEF Addresses
<1>12. Cover(m, i - 1, c, i + 1, claim, Given(claimed, claim))
  <2>1. ASSUME NEW x \in DOMAIN c, NEW d \in Addresses(c[x]), d \in 0..(MaxAddr - 1)
        PROVE  Given(claimed, claim)[d] = c[x].type
    <3>1. c[x].type = IF d \in Addresses(claim) THEN claim.type ELSE r.type
      BY <1>4 DEF Parts
    <3>2. d \in Addresses(r)
      BY <1>1, <1>6 DEF Addresses
    <3>3. claimed[d] = r.type
      BY <1>1, <2>1, <3>2 DEF MapInv, Tells
    <3> QED
      BY <2>1, <3>1, <3>3 DEF Given
  <2>2. \A d \in Addresses(r) : \E x \in DOMAIN c : d \in Addresses(c[x])
    BY <1>4 DEF Parts
  <2>3. \A d \in Addresses(claim) : d \in Addresses(r)
    BY <1>1, <1>2, <1>3 DEF Addresses
  <2>4. \A j \in ((i - 1) + 1)..((i + 1) - 1) : j = i
    BY <1>1
  <2> QED
    BY <2>1, <2>2, <2>3, <2>4 DEF Cover
<1>13. Tells(mem_map', claimed')
  <2>1. Tells(m, claimed)
    BY DEF MapInv
  <2> QED
    BY <1>0, <1>4, <1>5, <1>8, <1>10, <1>11, <1>12, <2>1, SpliceTells
<1>14. panicked' \in BOOLEAN
  BY DEF MapInv
<1> QED
  BY <1>9, <1>10, <1>13, <1>14 DEF MapInv

\* A claim that meets no range goes into the gap.
LEMMA GapStep ==
  ASSUME ~Engulfing, MapInv, NEW claim \in Claims,
         \A j \in 1..Len(mem_map) : ~mem_intersect(mem_map[j], claim),
         mem_map' = InsertAt(mem_map, GapPosition(claim), claim),
         Claim(claim), UNCHANGED panicked
  PROVE  MapInv'
<1> DEFINE m == mem_map
           n == Len(mem_map)
           g == GapPosition(claim)
           c == <<claim>>
<1>0. m \in Maps /\ claimed \in [0..(MaxAddr - 1) -> Types \cup {Unmapped}]
  BY DEF MapInv
<1>1. /\ m \in Seq(Ranges) /\ n \in Nat /\ DOMAIN m = 1..n /\ MaxAddr \in Nat
      /\ \A j \in 1..n : /\ m[j] \in Ranges /\ m[j].addr \in Nat /\ End(m[j]) \in Nat
                         /\ m[j].addr < End(m[j]) /\ End(m[j]) <= MaxAddr
      /\ \A j, k \in 1..n : j < k => End(m[j]) <= m[k].addr
  BY <1>0, MapFacts
<1>2. /\ claim \in Ranges /\ claim.addr \in Nat /\ End(claim) \in Nat
      /\ claim.addr < End(claim) /\ End(claim) <= MaxAddr
  BY ClaimFacts
<1>3. /\ g \in 1..(n + 1)
      /\ g <= n => End(claim) <= m[g].addr
      /\ \A j \in 1..n : End(claim) <= m[j].addr => g <= j
  BY <1>1, GapFound
<1>4. mem_map' = Splice(m, g - 1, c, g)
  BY DEF Splice, InsertAt
<1> HIDE DEF g
<1>5. c \in Maps /\ DOMAIN c = {1} /\ c[1] = claim
  BY <1>1, <1>2 DEF Maps
<1> HIDE DEF c
<1>6. g - 1 \in 0..n /\ g \in ((g - 1) + 1)..(n + 1) /\ g \in Nat
  BY <1>1, <1>3
<1>7. ASSUME NEW j \in 1..(g - 1) PROVE End(m[j]) <= claim.addr
  <2>1. j \in 1..n /\ j < g /\ j \in Nat
    BY <1>1, <1>3
  <2>2. End(claim) < m[j].addr \/ End(m[j]) <= claim.addr
    BY <1>0, <2>1, InTheGap
  <2>3. ~(End(claim) <= m[j].addr)
    BY <1>3, <1>6, <2>1
  <2> QED
    BY <1>1, <1>2, <2>1, <2>2, <2>3
<1>8. ASSUME NEW j \in g..n PROVE End(claim) <= m[j].addr
  <2>1. j \in 1..n /\ g \in 1..n /\ g <= j
    BY <1>1, <1>3
  <2>2. End(claim) <= m[g].addr
    BY <1>1, <1>3, <2>1
  <2>3. CASE g = j
    BY <2>2, <2>3
  <2>4. CASE g < j
    <3>1. End(m[g]) <= m[j].addr /\ m[g].addr < End(m[g])
      BY <1>1, <2>1, <2>4
    <3> QED
      BY <1>1, <1>2, <2>1, <2>2, <3>1, SMTT(30)
  <2> QED
    BY <1>6, <2>1, <2>3, <2>4
<1>9. Fits(m, g - 1, c, g)
  BY <1>5, <1>7, <1>8 DEF Fits
<1>10. mem_map' \in Maps
  BY <1>0, <1>4, <1>5, <1>6, <1>9, SpliceIsMap
<1>11. /\ claimed' = Given(claimed, claim)
       /\ claimed' \in [0..(MaxAddr - 1) -> Types \cup {Unmapped}]
  BY <1>0, <1>2, ClaimGives
<1>12. Apart(m, g - 1, g, claim)
  <2> SUFFICES ASSUME NEW j \in (1..(g - 1)) \cup (g..n), NEW d \in Addresses(m[j])
               PROVE  d \notin Addresses(claim)
    BY DEF Apart
  <2>1. j \in 1..n /\ (End(m[j]) <= claim.addr \/ End(claim) <= m[j].addr)
    BY <1>1, <1>3, <1>7, <1>8
  <2>2. m[j].addr \in Nat /\ End(m[j]) \in Nat
    BY <1>1, <2>1
  <2> QED
    BY <1>2, <2>1, <2>2 DEF Addresses
<1>13. Cover(m, g - 1, c, g, claim, Given(claimed, claim))
  <2>1. ~\E j \in ((g - 1) + 1)..(g - 1) : TRUE
    BY <1>6
  <2> QED
    BY <1>5, <2>1 DEF Cover, Given
<1>14. Tells(mem_map', claimed')
  <2>1. Tells(m, claimed)
    BY DEF MapInv
  <2> QED
    BY <1>0, <1>4, <1>5, <1>6, <1>11, <1>12, <1>13, <2>1, SpliceTells
<1>15. panicked' \in BOOLEAN
  BY DEF MapInv
<1> QED
  BY <1>10, <1>11, <1>14, <1>15 DEF MapInv

\* mem_mark_range changes one type and no address.
LEMMA MarkStep ==
  ASSUME MapInv, NEW addr \in 0..(MaxAddr - 1), NEW type \in Types \ {Boot},
         mem_mark_range(addr, type)
  PROVE  MapInv'
<1> DEFINE m == mem_map
           n == Len(mem_map)
           i == mem_find_range(addr)
<1>0. m \in Maps /\ claimed \in [0..(MaxAddr - 1) -> Types \cup {Unmapped}]
  BY DEF MapInv
<1>1. /\ m \in Seq(Ranges) /\ n \in Nat /\ DOMAIN m = 1..n /\ MaxAddr \in Nat
      /\ \A j \in 1..n : /\ m[j] \in Ranges /\ m[j].addr \in Nat /\ End(m[j]) \in Nat
                         /\ m[j].addr < End(m[j]) /\ End(m[j]) <= MaxAddr
      /\ \A j, k \in 1..n : j < k => End(m[j]) <= m[k].addr
  BY <1>0, MapFacts
<1>2. i = 0 \/ i \in 1..n
  BY <1>1, RangeFound
<1>3. CASE i = 0
  BY <1>3 DEF MapInv, mem_mark_range
<1>4. CASE i \in 1..n
  <2> DEFINE r == [m[i] EXCEPT !.type = type]
  <2>1. /\ mem_map' = [m EXCEPT ![i].type = type] /\ Claim(r) /\ panicked' = panicked
    BY <1>1, <1>4 DEF mem_mark_range
  <2> HIDE DEF i
  <2>2. /\ r \in Ranges /\ r.addr = m[i].addr /\ End(r) = End(m[i]) /\ r.type = type
    BY <1>1, <1>4 DEF Ranges, End
  <2>3. mem_map' = [m EXCEPT ![i] = r]
    BY <1>1, <1>4, <2>1
  <2>4. Addresses(r) = Addresses(m[i])
    BY <2>2 DEF Addresses
  <2> HIDE DEF r
  <2>5. /\ mem_map' \in Seq(Ranges) /\ DOMAIN mem_map' = 1..n /\ Len(mem_map') = n
        /\ mem_map'[i] = r
        /\ \A j \in 1..n : j # i => mem_map'[j] = m[j]
    BY <1>1, <1>4, <2>2, <2>3
  <2>6. \A j \in 1..n : /\ mem_map'[j].addr = m[j].addr /\ End(mem_map'[j]) = End(m[j])
                        /\ Addresses(mem_map'[j]) = Addresses(m[j])
    BY <2>2, <2>4, <2>5
  <2>7. mem_map' \in Maps
    BY <1>1, <2>5, <2>6 DEF Maps
  <2>8. /\ claimed' = Given(claimed, r)
        /\ claimed' \in [0..(MaxAddr - 1) -> Types \cup {Unmapped}]
    BY <1>0, <2>1, <2>2, ClaimGives
  <2>9. Tells(mem_map', claimed')
    <3> SUFFICES ASSUME NEW d \in 0..(MaxAddr - 1)
                 PROVE  /\ \A j \in 1..n : d \in Addresses(m[j]) => claimed'[d] = mem_map'[j].type
                        /\ (\A j \in 1..n : d \notin Addresses(m[j])) => claimed'[d] = Unmapped
      BY <2>5, <2>6 DEF Tells
    <3>1. claimed'[d] = IF d \in Addresses(m[i]) THEN type ELSE claimed[d]
      BY <2>2, <2>4, <2>8 DEF Given
    <3>2. /\ \A j \in 1..n : d \in Addresses(m[j]) => claimed[d] = m[j].type
          /\ (\A j \in 1..n : d \notin Addresses(m[j])) => claimed[d] = Unmapped
      BY <1>1 DEF MapInv, Tells
    <3>3. \A j \in 1..n : d \in Addresses(m[i]) /\ d \in Addresses(m[j]) => j = i
      <4> SUFFICES ASSUME NEW j \in 1..n, d \in Addresses(m[i]), d \in Addresses(m[j]), j # i
                   PROVE  FALSE
        OBVIOUS
      <4>1. i < j \/ j < i
        BY <1>4
      <4>2. End(m[i]) <= m[j].addr \/ End(m[j]) <= m[i].addr
        BY <1>1, <1>4, <4>1
      <4>3. /\ m[i].addr \in Nat /\ End(m[i]) \in Nat /\ m[j].addr \in Nat /\ End(m[j]) \in Nat
        BY <1>1, <1>4
      <4> QED
        BY <4>2, <4>3, SMTT(30) DEF Addresses
    <3>4. ASSUME NEW j \in 1..n, d \in Addresses(m[j]) PROVE claimed'[d] = mem_map'[j].type
      <4>1. CASE j = i
        BY <2>2, <2>5, <3>1, <3>4, <4>1
      <4>2. CASE j # i
        <5>1. d \notin Addresses(m[i])
          BY <3>3, <3>4, <4>2
        <5> QED
          BY <2>5, <3>1, <3>2, <3>4, <4>2, <5>1
      <4> QED
        BY <4>1, <4>2
    <3>5. (\A j \in 1..n : d \notin Addresses(m[j])) => claimed'[d] = Unmapped
      BY <1>4, <3>1, <3>2
    <3> QED
      BY <3>4, <3>5
  <2> QED
    BY <2>1, <2>7, <2>8, <2>9 DEF MapInv
<1> QED
  BY <1>2, <1>3, <1>4
-----------------------------------------------------------------------------
\* The boot loader's map satisfies the invariant.
LEMMA InitMapInv ==
  ASSUME Init PROVE MapInv
<1>1. mem_map \in BootMaps
  BY DEF Init
<1>2. /\ mem_map \in Seq(Ranges)
      /\ \A i \in DOMAIN mem_map : mem_map[i].type = Boot /\ End(mem_map[i]) <= MaxAddr
      /\ \A i, j \in DOMAIN mem_map : i < j => End(mem_map[i]) <= mem_map[j].addr
  BY <1>1, BootMapsAssumption
<1>3. mem_map \in Maps
  BY <1>2 DEF Maps
<1>4. /\ DOMAIN mem_map = 1..Len(mem_map) /\ MaxAddr \in Nat
      /\ \A i \in 1..Len(mem_map) : mem_map[i].addr \in Nat /\ End(mem_map[i]) \in Nat
  BY <1>3, MapFacts
<1>5. \A d \in 0..(MaxAddr - 1) : \A i \in DOMAIN mem_map :
        (d >= mem_map[i].addr /\ d < End(mem_map[i])) <=> d \in Addresses(mem_map[i])
  BY <1>4 DEF Addresses
<1>6. claimed = [d \in 0..(MaxAddr - 1) |->
                   IF \E i \in DOMAIN mem_map : d \in Addresses(mem_map[i])
                     THEN Boot ELSE Unmapped]
  BY <1>5 DEF Init
<1>7. Tells(mem_map, claimed)
  BY <1>2, <1>6 DEF Tells
<1>8. claimed \in [0..(MaxAddr - 1) -> Types \cup {Unmapped}]
  BY <1>6, BootMapsAssumption
<1> QED
  BY <1>3, <1>7, <1>8 DEF MapInv, Init

\* Every step keeps the invariant, if no claim engulfs a range.
LEMMA StepMapInv ==
  ASSUME ~Engulfing, MapInv, [Next]_vars PROVE MapInv'
<1>0. mem_map \in Maps /\ mem_map \in Seq(Ranges)
  BY DEF MapInv, Maps
<1>1. ASSUME NEW claim \in Claims, mem_update_range(claim) PROVE MapInv'
  <2> DEFINE i == SelectInSeq(mem_map, LAMBDA r : mem_intersect(r, claim))
  <2>1. \/ i = 0 /\ \A j \in 1..Len(mem_map) : ~mem_intersect(mem_map[j], claim)
        \/ i \in 1..Len(mem_map)
    BY <1>0, FirstMet
  <2>2. CASE panicked' = TRUE /\ UNCHANGED <<mem_map, claimed>>
    BY <2>2 DEF MapInv
  <2>3. CASE /\ i # 0 /\ mem_contains(mem_map[i], claim)
             /\ mem_map' = SubSeq(mem_map, 1, i - 1) \o Cut(mem_map[i], claim)
                             \o SubSeq(mem_map, i + 1, Len(mem_map))
             /\ Claim(claim) /\ UNCHANGED panicked
    <3>1. i \in 1..Len(mem_map)
      BY <2>1, <2>3
    <3> HIDE DEF i
    <3> QED
      BY <2>3, <3>1, CutStep
  <2>4. CASE /\ i = 0 /\ mem_map' = InsertAt(mem_map, GapPosition(claim), claim)
             /\ Claim(claim) /\ UNCHANGED panicked
    <3>1. \A j \in 1..Len(mem_map) : ~mem_intersect(mem_map[j], claim)
      BY <2>1, <2>4
    <3> QED
      BY <2>4, <3>1, GapStep
  <2> QED
    BY <1>1, <2>2, <2>3, <2>4 DEF mem_update_range
<1>2. CASE UNCHANGED vars
  BY <1>2 DEF MapInv, vars
<1> QED
  BY <1>1, <1>2, MarkStep DEF Next

(***************************************************************************)
(* Through any sequence of claims and marks the map of mem.c stays sorted  *)
(* and its ranges disjoint, whatever map the boot loader passed, if no     *)
(* claim engulfs a range.                                                  *)
(***************************************************************************)
THEOREM MemMapSortedDisjoint ==
  ASSUME ~Engulfing PROVE Spec => []SortedDisjoint
<1>1. MapInv => SortedDisjoint
  BY DEF MapInv, Maps, SortedDisjoint, TypeOK
<1> QED
  BY <1>1, InitMapInv, StepMapInv, PTL DEF Spec

(***************************************************************************)
(* mem_find_range tells, for every address, the type last given to it, and *)
(* finds nothing for an address nobody gave a type, if no claim engulfs a  *)
(* range.                                                                  *)
(***************************************************************************)
THEOREM MemMapLookupTellsLatest ==
  ASSUME ~Engulfing PROVE Spec => []LookupTellsLatest
<1>1. ASSUME MapInv PROVE LookupTellsLatest
  <2> SUFFICES ASSUME NEW d \in 0..(MaxAddr - 1)
               PROVE  LET i == mem_find_range(d)
                      IN  IF i = 0 THEN claimed[d] = Unmapped ELSE claimed[d] = mem_map[i].type
    BY DEF LookupTellsLatest
  <2> DEFINE i == mem_find_range(d)
  <2>0. mem_map \in Maps
    BY <1>1 DEF MapInv
  <2>1. /\ mem_map \in Seq(Ranges) /\ DOMAIN mem_map = 1..Len(mem_map) /\ MaxAddr \in Nat
        /\ \A j \in 1..Len(mem_map) : mem_map[j].addr \in Nat /\ End(mem_map[j]) \in Nat
    BY <2>0, MapFacts
  <2>2. \A j \in 1..Len(mem_map) :
          (d >= mem_map[j].addr /\ d < End(mem_map[j])) <=> d \in Addresses(mem_map[j])
    BY <2>1 DEF Addresses
  <2>3. \/ i = 0 /\ \A j \in 1..Len(mem_map) : d \notin Addresses(mem_map[j])
        \/ i \in 1..Len(mem_map) /\ d \in Addresses(mem_map[i])
    BY <2>1, <2>2, RangeFound
  <2>4. /\ \A j \in 1..Len(mem_map) : d \in Addresses(mem_map[j]) => claimed[d] = mem_map[j].type
        /\ (\A j \in 1..Len(mem_map) : d \notin Addresses(mem_map[j])) => claimed[d] = Unmapped
    BY <1>1, <2>1 DEF MapInv, Tells
  <2> HIDE DEF i
  <2>5. IF i = 0 THEN claimed[d] = Unmapped ELSE claimed[d] = mem_map[i].type
    BY <2>3, <2>4
  <2> QED
    BY <2>5 DEF i
<1> QED
  BY <1>1, InitMapInv, StepMapInv, PTL DEF Spec

\* What decides a panic, in one state: the first range met and the others.
LEMMA PanicDecided ==
  ASSUME ~Engulfing, ~Abutting, MapInv, panicked = FALSE,
         NEW claim \in Claims, mem_update_range(claim)
  PROVE  panicked' <=> /\ ~InsideOne(claim)
                       /\ \E j \in DOMAIN mem_map : Overlap(mem_map[j], claim)
<1> DEFINE m == mem_map
           n == Len(mem_map)
           i == SelectInSeq(mem_map, LAMBDA r : mem_intersect(r, claim))
<1>0. m \in Maps
  BY DEF MapInv
<1>1. /\ m \in Seq(Ranges) /\ n \in Nat /\ DOMAIN m = 1..n
      /\ \A j \in 1..n : m[j].addr \in Nat /\ End(m[j]) \in Nat /\ m[j].addr < End(m[j])
      /\ \A j, k \in 1..n : j < k => End(m[j]) <= m[k].addr
  BY <1>0, MapFacts
<1>2. /\ claim.addr \in Nat /\ End(claim) \in Nat /\ claim.addr < End(claim)
      /\ ~AbutsFromBelow(claim)
  BY ClaimFacts
<1>3. \/ i = 0 /\ \A j \in 1..n : ~mem_intersect(m[j], claim)
      \/ /\ i \in 1..n /\ mem_intersect(m[i], claim)
         /\ \A j \in 1..n : mem_intersect(m[j], claim) => i <= j
  BY <1>1, FirstMet
<1>4. \/ i # 0 /\ ~mem_contains(m[i], claim) /\ panicked' = TRUE
      \/ i # 0 /\ mem_contains(m[i], claim) /\ panicked' = panicked
      \/ i = 0 /\ panicked' = panicked
  BY DEF mem_update_range
<1> HIDE DEF i
<1>5. CASE i # 0 /\ ~mem_contains(m[i], claim) /\ panicked' = TRUE
  <2>0. i \in 1..n /\ mem_intersect(m[i], claim) /\ i \in Nat
    BY <1>3, <1>5
  <2>1. /\ m[i].addr \in Nat /\ End(m[i]) \in Nat /\ m[i].addr < End(m[i])
    BY <1>1, <2>0
  <2>2. \E j \in 1..n : Overlap(m[j], claim)
    <3>1. CASE End(claim) = m[i].addr
      BY <1>1, <1>2, <2>0, <3>1 DEF AbutsFromBelow
    <3>2. CASE End(claim) # m[i].addr
      <4>1. Overlap(m[i], claim)
        BY <1>2, <2>0, <2>1, <3>2 DEF Overlap, mem_intersect
      <4> QED
        BY <2>0, <4>1
    <3> QED
      BY <3>1, <3>2
  <2>3. ASSUME NEW j \in 1..n, mem_contains(m[j], claim) PROVE FALSE
    <3>1. m[j].addr \in Nat /\ End(m[j]) \in Nat /\ m[j].addr < End(m[j]) /\ j \in Nat
      BY <1>1
    <3>2. mem_intersect(m[j], claim)
      BY <1>2, <2>3, <3>1 DEF mem_contains, mem_intersect
    <3>3. i < j
      BY <1>3, <1>5, <2>0, <2>3, <3>1, <3>2
    <3>4. End(m[i]) <= m[j].addr
      BY <1>1, <2>0, <3>3
    <3> QED
      BY <1>2, <2>0, <2>1, <2>3, <3>1, <3>4 DEF mem_contains, mem_intersect
  <2> QED
    BY <1>1, <1>5, <2>2, <2>3 DEF InsideOne
<1>6. CASE i # 0 /\ mem_contains(m[i], claim) /\ panicked' = panicked
  <2>1. i \in DOMAIN m
    BY <1>1, <1>3, <1>6
  <2> QED
    BY <1>6, <2>1 DEF InsideOne
<1>7. CASE i = 0 /\ panicked' = panicked
  <2>1. ASSUME NEW j \in DOMAIN m, Overlap(m[j], claim) PROVE FALSE
    <3>1. j \in 1..n /\ ~mem_intersect(m[j], claim)
      BY <1>1, <1>3, <1>7
    <3>2. End(claim) < m[j].addr \/ End(m[j]) <= claim.addr
      BY <1>0, <3>1, InTheGap
    <3>3. m[j].addr \in Nat /\ End(m[j]) \in Nat
      BY <1>1, <3>1
    <3> QED
      BY <1>2, <2>1, <3>2, <3>3 DEF Overlap
  <2> QED
    BY <1>7, <2>1
<1> QED
  BY <1>4, <1>5, <1>6, <1>7

(***************************************************************************)
(* mem_update_range panics for exactly the claims that share an address    *)
(* with a range and lie inside none, if no claim engulfs a range and none  *)
(* in a gap ends where a range starts.                                     *)
(***************************************************************************)
THEOREM MemMapPanicIffOverlap ==
  ASSUME ~Engulfing, ~Abutting PROVE Spec => PanicIffOverlap
<1> DEFINE Exact == \A c \in Claims :
             mem_update_range(c) =>
               (panicked' <=> /\ ~InsideOne(c)
                              /\ \E i \in DOMAIN mem_map : Overlap(mem_map[i], c))
<1>1. ASSUME MapInv, [Next]_vars PROVE [Exact]_vars
  <2>1. CASE UNCHANGED vars
    BY <2>1
  <2>2. CASE Next
    <3>1. panicked = FALSE
      BY <1>1, <2>2 DEF Next, MapInv
    <3> QED
      BY <1>1, <3>1, PanicDecided
  <2> QED
    BY <1>1, <2>1, <2>2
<1> QED
  BY <1>1, InitMapInv, StepMapInv, PTL DEF Spec, PanicIffOverlap
=============================================================================
