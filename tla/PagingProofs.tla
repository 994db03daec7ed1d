---------------------------- MODULE PagingProofs ----------------------------
(***************************************************************************)
(* Proofs about Paging, for tables of any size and any ranges: every       *)
(* address translates to the page it was last mapped to, and no page that  *)
(* was lent has two uses.                                                  *)
(***************************************************************************)
EXTENDS Paging, FiniteSetTheorems, WellFoundedInduction, TLAPS

-----------------------------------------------------------------------------
(***************************************************************************)
(* Addresses and indices                                                   *)
(***************************************************************************)

\* What the assumption says of the numbers.
LEMMA Numbers ==
  /\ PT \in Nat \ {0} /\ PDT \in Nat \ {0} /\ PDPT \in Nat \ {0} /\ PML4T \in Nat \ {0}
  /\ 5 < PT /\ BootPages \subseteq Virtual
  /\ LowPages \subseteq BootPages \ {0, 3, 4, 5} /\ MainPages \subseteq Nat \ {0, 3, 4, 5}
  /\ MainPages \cap LowPages = {}
<1>1. /\ PT \in Nat \ {0} /\ PDT \in Nat \ {0} /\ PDPT \in Nat \ {0} /\ PML4T \in Nat \ {0}
      /\ 5 < PT
  BY PagingAssumption DEF Pdt0
<1>2. PDPT * PML4T \in Nat \ {0}
  BY <1>1
<1>3. PDT * (PDPT * PML4T) \in Nat \ {0}
  BY <1>1, <1>2
<1>4. ASSUME NEW n \in Nat \ {0} PROVE PT <= PT * n
  BY <1>1
<1>5. PT <= PT * (PDT * (PDPT * PML4T)) /\ PT * (PDT * (PDPT * PML4T)) \in Nat
  BY <1>1, <1>3, <1>4
<1> QED
  BY <1>1, <1>5, PagingAssumption DEF Virtual, BootPages, Pml4, Pdpt0, Pdt0

\* A quotient and a remainder make the number.
LEMMA Division ==
  ASSUME NEW a \in Nat, NEW m \in Nat \ {0}
  PROVE  /\ a \div m \in Nat /\ a % m \in 0..(m - 1)
         /\ a = m * (a \div m) + (a % m)
<1>1. a \div m \in Nat /\ a % m \in 0..(m - 1)
  OBVIOUS
<1>2. a = m * (a \div m) + (a % m)
  OBVIOUS
<1> QED
  BY <1>1, <1>2

\* A quotient is below the other factor.
LEMMA Quotient ==
  ASSUME NEW m \in Nat \ {0}, NEW n \in Nat \ {0}, NEW a \in 0..(m * n - 1)
  PROVE  a \div m \in 0..(n - 1)
<1>1. m * n \in Nat /\ a \in Nat /\ a < m * n
  OBVIOUS
<1> DEFINE d == a \div m
<1>2. d \in Nat /\ m * d <= a
  BY <1>1, Division
<1> HIDE DEF d
<1>3. ASSUME d >= n PROVE FALSE
  <2>1. PICK k \in Nat : d = n + k
    BY <1>2, <1>3
  <2>2. m * d = m * n + m * k /\ m * k \in Nat
    BY <2>1
  <2> QED
    BY <1>1, <1>2, <2>2
<1> QED
  BY <1>2, <1>3 DEF d

\* The indices of an address are entries of the tables.
LEMMA IndexRange ==
  ASSUME NEW v \in Virtual
  PROVE  /\ pt_index(v) \in 0..(PT - 1) /\ pt_index(v) \in Indices
         /\ pdt_index(v) \in Indices /\ pdpt_index(v) \in Indices /\ pml4t_index(v) \in Indices
         /\ v \in Nat /\ v = PT * (v \div PT) + pt_index(v)
<1> DEFINE c == PDPT * PML4T
           b == PDT * c
<1>1. c \in Nat \ {0}
  BY Numbers
<1> HIDE DEF c
<1>2. b \in Nat \ {0}
  BY <1>1, Numbers
<1>3. v \in 0..(PT * b - 1) /\ v \in Nat
  BY DEF Virtual, c
<1> HIDE DEF b
<1>4. v \div PT \in 0..(b - 1) /\ pt_index(v) \in 0..(PT - 1) /\ v = PT * (v \div PT) + pt_index(v)
  BY <1>2, <1>3, Numbers, Quotient, Division DEF pt_index
<1> DEFINE w == v \div PT
<1> HIDE DEF w
<1>5. w \in 0..(b - 1) /\ w \in Nat
  BY <1>2, <1>4 DEF w
<1>6. w \div PDT \in 0..(c - 1) /\ w % PDT \in 0..(PDT - 1)
  BY <1>1, <1>5, Numbers, Quotient, Division DEF b
<1> DEFINE x == w \div PDT
<1> HIDE DEF x
<1>7. x \in 0..(c - 1) /\ x \in Nat
  BY <1>1, <1>6 DEF x
<1>8. x \div PDPT \in 0..(PML4T - 1) /\ x % PDPT \in 0..(PDPT - 1)
  BY <1>7, Numbers, Quotient, Division DEF c
<1>9. /\ 0..(PT - 1) \subseteq Indices /\ 0..(PDT - 1) \subseteq Indices
      /\ 0..(PDPT - 1) \subseteq Indices /\ 0..(PML4T - 1) \subseteq Indices
  BY DEF Indices
<1> QED
  BY <1>3, <1>4, <1>6, <1>8, <1>9 DEF pdt_index, pdpt_index, pml4t_index, x, w

\* Addresses with the same upper indices are in the same 2M page, and with
\* the same lowest index they are the same.
LEMMA SameIndices ==
  ASSUME NEW v \in Virtual, NEW u \in Virtual, pdt_index(v) = pdt_index(u),
         pdpt_index(v) = pdpt_index(u), pml4t_index(v) = pml4t_index(u)
  PROVE  /\ v \div PT = u \div PT
         /\ pt_index(v) = pt_index(u) => v = u
<1> DEFINE a == v \div PT
           b == u \div PT
<1>1. a \in Nat /\ b \in Nat /\ v = PT * a + pt_index(v) /\ u = PT * b + pt_index(u)
  BY IndexRange, Division, Numbers
<1>2. a % PDT = b % PDT /\ (a \div PDT) % PDPT = (b \div PDT) % PDPT
      /\ (a \div PDT) \div PDPT = (b \div PDT) \div PDPT
  BY DEF pdt_index, pdpt_index, pml4t_index
<1> HIDE DEF a, b
<1>3. a \div PDT = b \div PDT
  <2> DEFINE c == a \div PDT
             d == b \div PDT
  <2>1. c \in Nat /\ d \in Nat
    BY <1>1, Division, Numbers
  <2>2. c % PDPT = d % PDPT /\ c \div PDPT = d \div PDPT
    BY <1>2
  <2> HIDE DEF c, d
  <2>3. c = PDPT * (c \div PDPT) + (c % PDPT) /\ d = PDPT * (d \div PDPT) + (d % PDPT)
    BY <2>1, Division, Numbers
  <2>4. c = d
    BY <2>2, <2>3, Zenon
  <2> QED
    BY <2>4 DEF c, d
<1>4. a = PDT * (a \div PDT) + (a % PDT) /\ b = PDT * (b \div PDT) + (b % PDT)
  BY <1>1, Division, Numbers
<1>5. a = b
  BY <1>2, <1>3, <1>4, Zenon
<1> QED
  BY <1>1, <1>5 DEF a, b

\* Address 0 has the indices 0.
LEMMA ZeroIndices ==
  ASSUME NEW v \in BootPages
  PROVE  /\ v \in Virtual /\ pdt_index(v) = 0 /\ pdpt_index(v) = 0 /\ pml4t_index(v) = 0
         /\ pt_index(v) = v /\ 0 \in Indices
<1>1. v \in 0..(PT - 1) /\ v \in Virtual /\ PT \in Nat \ {0}
  BY Numbers DEF BootPages
<1>2. v \div PT = 0 /\ v % PT = v
  <2>1. v \in 0..(PT * 1 - 1)
    BY <1>1
  <2>2. v \div PT \in 0..(1 - 1)
    BY <1>1, <2>1, Quotient
  <2>3. v = PT * (v \div PT) + (v % PT)
    BY <1>1, Division
  <2> QED
    BY <1>1, <2>2, <2>3
<1>3. ASSUME NEW m \in Nat \ {0} PROVE 0 \div m = 0 /\ 0 % m = 0
  <2>1. 0 \in 0..(m * 1 - 1)
    OBVIOUS
  <2>2. 0 \div m \in 0..(1 - 1)
    BY <2>1, Quotient
  <2>3. 0 = m * (0 \div m) + (0 % m) /\ 0 % m \in Nat
    BY Division
  <2> QED
    BY <2>2, <2>3
<1>4. 0 \in Indices
  BY <1>1 DEF Indices
<1> QED
  BY <1>1, <1>2, <1>3, <1>4, Numbers DEF pt_index, pdt_index, pdpt_index, pml4t_index

-----------------------------------------------------------------------------
(***************************************************************************)
(* The tables                                                              *)
(***************************************************************************)
Entries == [addr : Int, big : BOOLEAN]

State == [mem : [Frames \X Indices -> Entries], low : SUBSET LowPages,
          main : SUBSET MainPages, short : BOOLEAN]

TablesOf(s) == {Pml4, Pdpt0, Pdt0} \cup (LowPages \ s.low)

\* What may stand in table t, a table of level lev[t]: nothing, a table of
\* the next level, a 2M page in level 2, or a page in level 1.
Allowed(s, lev, t, e) ==
  \/ e = Zero
  \/ /\ lev[t] \in 2..4 /\ ~e.big /\ e.addr \in TablesOf(s) /\ lev[e.addr] = lev[t] - 1
  \/ /\ lev[t] = 2 /\ e.big /\ e.addr \in Virtual /\ e.addr % PT = 0 /\ e.addr \notin MainPages
  \/ /\ lev[t] = 1 /\ ~e.big
     /\ e.addr \in (Virtual \ BootPages) \ MainPages \/ e.addr \in MainPages \ s.main

Levels(s, lev) == /\ lev \in [TablesOf(s) -> 1..4] /\ lev[Pml4] = 4
                  /\ \A t \in TablesOf(s), i \in Indices : Allowed(s, lev, t, s.mem[<<t, i>>])

\* A table or a page that was lent has one entry.
Single(s) ==
  \A t, u \in TablesOf(s), i, j \in Indices :
    /\ s.mem[<<t, i>>].addr = s.mem[<<u, j>>].addr
    /\ s.mem[<<t, i>>].addr \in TablesOf(s) \cup MainPages
    => t = u /\ i = j

\* The entries of boot.asm.
Boot(s) == /\ s.mem[<<Pml4, 0>>] = Entry(Pdpt0) /\ s.mem[<<Pdpt0, 0>>] = Entry(Pdt0)
           /\ s.mem[<<Pdt0, 0>>] = BigEntry(0)

Tree(s, lev) == s \in State /\ Levels(s, lev) /\ Single(s) /\ Boot(s)

\* The entries on the walk to v.
E4(s, v) == s.mem[<<Pml4, pml4t_index(v)>>]
E3(s, v) == s.mem[<<E4(s, v).addr, pdpt_index(v)>>]
E2(s, v) == s.mem[<<E3(s, v).addr, pdt_index(v)>>]
E1(s, v) == s.mem[<<E2(s, v).addr, pt_index(v)>>]

\* The page at the end of the walk, and whether a 2M page maps it.
Look(s, v) ==
  IF E4(s, v) = Zero \/ E3(s, v) = Zero \/ E2(s, v) = Zero THEN [page |-> NoPage, big |-> FALSE]
  ELSE IF E2(s, v).big THEN [page |-> E2(s, v).addr + pt_index(v), big |-> TRUE]
  ELSE [page |-> E1(s, v).addr, big |-> FALSE]

\* It is what the processor's walk finds.
LEMMA TranslateLooks ==
  ASSUME NEW s, NEW v
  PROVE  Translate(s, v) = Look(s, v).page
  BY DEF Translate, Look, E1, E2, E3, E4

\* Every address leads to its page; 2M pages map one to one.
Right(s, w) == \A v \in Virtual : /\ Look(s, v).page = w[v]
                                  /\ Look(s, v).big => w[v] = v /\ v \in BigPages

Good(s, w, lev) == Tree(s, lev) /\ Right(s, w)

\* The level-2 and the level-1 table of v.
Leads2(s, v, t) == E4(s, v) # Zero /\ E3(s, v) # Zero /\ E3(s, v).addr = t
Leads1(s, v, t) == /\ E4(s, v) # Zero /\ E3(s, v) # Zero
                   /\ E2(s, v) # Zero /\ ~E2(s, v).big /\ E2(s, v).addr = t

\* The entries are distinct.
LEMMA EntryFacts ==
  /\ \A p \in Nat : /\ Entry(p) # Zero /\ Entry(p).addr = p /\ ~Entry(p).big
                    /\ BigEntry(p) # Zero /\ BigEntry(p).addr = p /\ BigEntry(p).big
                    /\ Entry(p) \in Entries /\ BigEntry(p) \in Entries
  /\ Zero \in Entries /\ Zero.addr = -1 /\ Zero.big = FALSE
  BY DEF Entry, BigEntry, Zero, Entries, NoPage

\* The tables are pages of low memory, page 0 apart.
LEMMA TableFacts ==
  ASSUME NEW s \in State
  PROVE  /\ TablesOf(s) \subseteq Frames /\ TablesOf(s) \subseteq BootPages \ {0}
         /\ Pml4 \in TablesOf(s) /\ Pdpt0 \in TablesOf(s) /\ Pdt0 \in TablesOf(s)
         /\ TablesOf(s) \cap MainPages = {} /\ TablesOf(s) \cap s.low = {}
         /\ TablesOf(s) \subseteq Nat
         /\ \A t \in TablesOf(s), i \in Indices : s.mem[<<t, i>>] \in Entries
<1>1. {3, 4, 5} \subseteq BootPages \ {0}
  BY Numbers DEF BootPages
<1>2. s.low \subseteq LowPages
  BY DEF State
<1>3. TablesOf(s) \subseteq BootPages \ {0} /\ BootPages \subseteq Nat
  <2>1. LowPages \subseteq BootPages \ {0}
    BY Numbers
  <2>2. TablesOf(s) \subseteq BootPages \ {0}
    BY <1>1, <2>1 DEF TablesOf, Pml4, Pdpt0, Pdt0
  <2>3. BootPages \subseteq Nat
    BY DEF BootPages
  <2> QED
    BY <2>2, <2>3
<1>4. TablesOf(s) \subseteq Frames
  BY <1>3 DEF Frames
<1>5. TablesOf(s) \cap MainPages = {} /\ TablesOf(s) \cap s.low = {}
  BY <1>2, Numbers DEF TablesOf, Pml4, Pdpt0, Pdt0
<1>6. \A t \in TablesOf(s), i \in Indices : s.mem[<<t, i>>] \in Entries
  BY <1>4 DEF State
<1> QED
  BY <1>3, <1>4, <1>5, <1>6 DEF TablesOf

\* The walk goes down through the levels.
LEMMA WalkDown ==
  ASSUME NEW s, NEW lev, Tree(s, lev), NEW v \in Virtual
  PROVE  /\ E4(s, v) # Zero =>
              /\ ~E4(s, v).big /\ E4(s, v).addr \in TablesOf(s) /\ lev[E4(s, v).addr] = 3
         /\ E4(s, v) # Zero /\ E3(s, v) # Zero =>
              /\ ~E3(s, v).big /\ E3(s, v).addr \in TablesOf(s) /\ lev[E3(s, v).addr] = 2
         /\ E4(s, v) # Zero /\ E3(s, v) # Zero /\ E2(s, v) # Zero /\ ~E2(s, v).big =>
              /\ E2(s, v).addr \in TablesOf(s) /\ lev[E2(s, v).addr] = 1
         /\ E4(s, v) # Zero /\ E3(s, v) # Zero /\ E2(s, v) # Zero /\ E2(s, v).big =>
              /\ E2(s, v).addr \in Virtual /\ E2(s, v).addr \notin TablesOf(s)
<1>1. /\ s \in State /\ lev[Pml4] = 4 /\ Pml4 \in TablesOf(s)
      /\ \A t \in TablesOf(s), i \in Indices : Allowed(s, lev, t, s.mem[<<t, i>>])
  BY TableFacts DEF Tree, Levels
<1>2. pml4t_index(v) \in Indices /\ pdpt_index(v) \in Indices /\ pdt_index(v) \in Indices
  BY IndexRange
<1>3. ASSUME NEW t \in TablesOf(s), NEW i \in Indices, s.mem[<<t, i>>] # Zero, lev[t] \in {3, 4}
      PROVE  /\ ~s.mem[<<t, i>>].big /\ s.mem[<<t, i>>].addr \in TablesOf(s)
             /\ lev[s.mem[<<t, i>>].addr] = lev[t] - 1
  BY <1>1, <1>3 DEF Allowed
<1>4. E4(s, v) # Zero =>
        /\ ~E4(s, v).big /\ E4(s, v).addr \in TablesOf(s) /\ lev[E4(s, v).addr] = 3
  BY <1>1, <1>2, <1>3 DEF E4
<1>5. E4(s, v) # Zero /\ E3(s, v) # Zero =>
        /\ ~E3(s, v).big /\ E3(s, v).addr \in TablesOf(s) /\ lev[E3(s, v).addr] = 2
  BY <1>2, <1>3, <1>4 DEF E3
<1>6. ASSUME E4(s, v) # Zero, E3(s, v) # Zero, E2(s, v) # Zero
      PROVE  /\ ~E2(s, v).big => E2(s, v).addr \in TablesOf(s) /\ lev[E2(s, v).addr] = 1
             /\ E2(s, v).big => E2(s, v).addr \in Virtual /\ E2(s, v).addr \notin TablesOf(s)
  <2> DEFINE t == E3(s, v).addr
             e == E2(s, v)
  <2>1. t \in TablesOf(s) /\ lev[t] = 2
    BY <1>5, <1>6
  <2>2. Allowed(s, lev, t, e) /\ e # Zero
    BY <1>1, <1>2, <1>6, <2>1 DEF E2
  <2> HIDE DEF t, e
  <2>3. ~e.big => e.addr \in TablesOf(s) /\ lev[e.addr] = 1
    BY <2>1, <2>2 DEF Allowed
  <2>4. e.big => e.addr \in Virtual /\ e.addr % PT = 0
    BY <2>1, <2>2 DEF Allowed
  <2>5. ASSUME NEW a \in TablesOf(s) PROVE a % PT # 0
    <3>1. a \in BootPages /\ a # 0
      BY <1>1, TableFacts
    <3>2. pt_index(a) = a
      BY <3>1, ZeroIndices
    <3> QED
      BY <3>1, <3>2 DEF pt_index
  <2> QED
    BY <2>3, <2>4, <2>5 DEF e
<1> QED
  BY <1>4, <1>5, <1>6

\* Addresses with a common table have the indices above it in common.
LEMMA SamePath ==
  ASSUME NEW s, NEW lev, Tree(s, lev), NEW v \in Virtual, NEW u \in Virtual, NEW t
  PROVE  /\ Leads2(s, v, t) /\ Leads2(s, u, t) =>
              pml4t_index(v) = pml4t_index(u) /\ pdpt_index(v) = pdpt_index(u)
         /\ Leads1(s, v, t) /\ Leads1(s, u, t) => v \div PT = u \div PT
<1>1. s \in State /\ Pml4 \in TablesOf(s) /\ Single(s)
  BY TableFacts DEF Tree
<1>2. /\ pml4t_index(v) \in Indices /\ pdpt_index(v) \in Indices /\ pdt_index(v) \in Indices
      /\ pml4t_index(u) \in Indices /\ pdpt_index(u) \in Indices /\ pdt_index(u) \in Indices
  BY IndexRange
<1>3. ASSUME NEW x, Leads2(s, v, x), Leads2(s, u, x)
      PROVE  pml4t_index(v) = pml4t_index(u) /\ pdpt_index(v) = pdpt_index(u)
  <2>1. /\ E4(s, v).addr \in TablesOf(s) /\ E4(s, u).addr \in TablesOf(s)
        /\ E3(s, v).addr \in TablesOf(s) /\ E3(s, v).addr = E3(s, u).addr
    BY <1>3, WalkDown DEF Leads2
  <2>2. E4(s, v).addr = E4(s, u).addr /\ pdpt_index(v) = pdpt_index(u)
    BY <1>1, <1>2, <2>1 DEF Single, E3
  <2>3. pml4t_index(v) = pml4t_index(u)
    BY <1>1, <1>2, <2>1, <2>2 DEF Single, E4
  <2> QED
    BY <2>2, <2>3
<1>4. ASSUME Leads1(s, v, t), Leads1(s, u, t) PROVE v \div PT = u \div PT
  <2>1. /\ E3(s, v).addr \in TablesOf(s) /\ E3(s, u).addr \in TablesOf(s)
        /\ E2(s, v).addr \in TablesOf(s) /\ E2(s, v).addr = E2(s, u).addr
    BY <1>4, WalkDown DEF Leads1
  <2>2. E3(s, v).addr = E3(s, u).addr /\ pdt_index(v) = pdt_index(u)
    BY <1>1, <1>2, <2>1 DEF Single, E2
  <2>3. pml4t_index(v) = pml4t_index(u) /\ pdpt_index(v) = pdpt_index(u)
    BY <1>3, <1>4, <2>2 DEF Leads1, Leads2
  <2> QED
    BY <2>2, <2>3, SameIndices
<1> QED
  BY <1>3, <1>4

-----------------------------------------------------------------------------
(***************************************************************************)
(* A new table                                                             *)
(***************************************************************************)

\* No entry leads to a page that is free.
LEMMA FreeUnused ==
  ASSUME NEW s, NEW lev, Tree(s, lev), NEW t \in TablesOf(s), NEW i \in Indices
  PROVE  s.mem[<<t, i>>].addr \notin s.low \cup s.main
<1> DEFINE e == s.mem[<<t, i>>]
<1>1. /\ s \in State /\ Allowed(s, lev, t, e) /\ lev[t] \in 1..4
      /\ TablesOf(s) \cap MainPages = {} /\ TablesOf(s) \cap s.low = {}
      /\ s.low \subseteq LowPages /\ s.main \subseteq MainPages
  BY TableFacts DEF Tree, Levels, State
<1> SUFFICES e.addr \notin s.low \cup s.main
  OBVIOUS
<1> HIDE DEF e
<1>2. /\ LowPages \subseteq BootPages \ {0} /\ MainPages \cap LowPages = {}
      /\ MainPages \subseteq Nat /\ BootPages \subseteq Nat
  <2>1. BootPages \subseteq Nat
    BY DEF BootPages
  <2> QED
    BY <2>1, Numbers
<1>3. CASE e = Zero
  <2>1. e.addr = -1
    BY <1>3, EntryFacts
  <2>2. s.low \subseteq Nat /\ s.main \subseteq Nat
    BY <1>1, <1>2
  <2> QED
    BY <2>1, <2>2
<1>4. CASE e.addr \in TablesOf(s)
  BY <1>1, <1>4
<1>5. CASE e.addr \in Virtual /\ e.addr % PT = 0 /\ e.addr \notin MainPages
  <2>1. ASSUME e.addr \in BootPages PROVE e.addr = 0
    BY <1>5, <2>1, ZeroIndices DEF pt_index
  <2> QED
    BY <1>1, <1>2, <1>5, <2>1
<1>6. CASE e.addr \in (Virtual \ BootPages) \ MainPages \/ e.addr \in MainPages \ s.main
  BY <1>1, <1>2, <1>6
<1> QED
  BY <1>1, <1>3, <1>4, <1>5, <1>6 DEF Allowed

\* s2 is s with a new table, page p, in entry i of table t.
Grown(s, s2, t, i, p) ==
  /\ s2 \in State /\ s2.low = s.low \ {p} /\ s2.main = s.main
  /\ \A u \in TablesOf(s), j \in Indices :
       s2.mem[<<u, j>>] = IF u = t /\ j = i THEN Entry(p) ELSE s.mem[<<u, j>>]
  /\ \A j \in Indices : s2.mem[<<p, j>>] = Zero

\* The new table has its level, and nothing else changes its own.
LEMMA GrownTree ==
  ASSUME NEW s, NEW lev, Tree(s, lev), NEW t \in TablesOf(s), NEW i \in Indices, NEW p \in s.low,
         lev[t] \in 2..4, s.mem[<<t, i>>] = Zero, NEW s2, Grown(s, s2, t, i, p)
  PROVE  Tree(s2, [u \in TablesOf(s) \cup {p} |-> IF u = p THEN lev[t] - 1 ELSE lev[u]])
<1> DEFINE T == TablesOf(s)
           lev2 == [u \in T \cup {p} |-> IF u = p THEN lev[t] - 1 ELSE lev[u]]
<1>1. /\ s \in State /\ s2 \in State /\ p \notin T /\ p \in LowPages /\ lev \in [T -> 1..4]
      /\ lev[Pml4] = 4 /\ Pml4 \in T /\ Pdpt0 \in T /\ Pdt0 \in T /\ p \in Nat
      /\ TablesOf(s2) = T \cup {p}
  <2>1. s \in State /\ s2 \in State /\ lev \in [T -> 1..4] /\ lev[Pml4] = 4 /\ p \in LowPages
    BY DEF Tree, Levels, State, Grown
  <2>2. Pml4 \in T /\ Pdpt0 \in T /\ Pdt0 \in T /\ p \notin T
    BY <2>1, TableFacts
  <2>3. TablesOf(s2) = T \cup {p}
    BY <2>1 DEF TablesOf, Grown
  <2>4. p \in Nat
    BY <2>1, Numbers DEF BootPages
  <2> QED
    BY <2>1, <2>2, <2>3, <2>4
<1>2. /\ lev2 \in [T \cup {p} -> 1..4] /\ lev2[p] = lev[t] - 1 /\ \A u \in T : lev2[u] = lev[u]
  BY <1>1
<1> HIDE DEF lev2, T
<1>3. ASSUME NEW u \in TablesOf(s2), NEW j \in Indices PROVE Allowed(s2, lev2, u, s2.mem[<<u, j>>])
  <2>1. CASE u = p
    BY <2>1 DEF Allowed, Grown
  <2>2. CASE u \in T /\ u = t /\ j = i
    <3>1. s2.mem[<<u, j>>] = Entry(p)
      BY <2>2 DEF Grown, T
    <3>2. lev2[u] \in 2..4 /\ lev2[p] = lev2[u] - 1 /\ p \in TablesOf(s2)
      BY <1>1, <1>2, <2>2
    <3> QED
      BY <1>1, <3>1, <3>2, EntryFacts DEF Allowed
  <2>3. CASE u \in T /\ ~(u = t /\ j = i)
    <3> DEFINE e == s.mem[<<u, j>>]
    <3>1. s2.mem[<<u, j>>] = e
      BY <2>3 DEF Grown, T
    <3>2. Allowed(s, lev, u, e)
      BY <2>3 DEF Tree, Levels, T
    <3> HIDE DEF e
    <3>3. lev2[u] = lev[u] /\ s2.main = s.main /\ (e.addr \in T => lev2[e.addr] = lev[e.addr])
      BY <1>2, <2>3 DEF Grown
    <3>4. Allowed(s2, lev2, u, e)
      BY <1>1, <3>2, <3>3 DEF Allowed, T
    <3> QED
      BY <3>1, <3>4
  <2> QED
    BY <1>1, <2>1, <2>2, <2>3
<1>4. Levels(s2, lev2)
  BY <1>1, <1>2, <1>3 DEF Levels
<1>5. Single(s2)
  <2> SUFFICES ASSUME NEW u \in TablesOf(s2), NEW w \in TablesOf(s2), NEW j \in Indices,
                      NEW k \in Indices, s2.mem[<<u, j>>].addr = s2.mem[<<w, k>>].addr,
                      s2.mem[<<u, j>>].addr \in TablesOf(s2) \cup MainPages
               PROVE  u = w /\ j = k
    BY DEF Single
  <2>1. ASSUME NEW x \in TablesOf(s2), NEW l \in Indices,
               s2.mem[<<x, l>>].addr \in TablesOf(s2) \cup MainPages
        PROVE  /\ x \in T
               /\ \/ x = t /\ l = i /\ s2.mem[<<x, l>>].addr = p
                  \/ /\ s2.mem[<<x, l>>] = s.mem[<<x, l>>] /\ s2.mem[<<x, l>>].addr # p
                     /\ s.mem[<<x, l>>].addr \in T \cup MainPages
    <3>1. x # p
      <4>1. -1 \notin TablesOf(s2) \cup MainPages
        BY <1>1, TableFacts, Numbers
      <4> QED
        BY <2>1, <4>1, EntryFacts DEF Grown
    <3>2. x \in T
      BY <1>1, <3>1
    <3>3. CASE x = t /\ l = i
      BY <1>1, <3>2, <3>3, EntryFacts DEF Grown, T
    <3>4. CASE ~(x = t /\ l = i)
      <4>1. s2.mem[<<x, l>>] = s.mem[<<x, l>>]
        BY <3>2, <3>4 DEF Grown, T
      <4>2. s.mem[<<x, l>>].addr # p
        BY <3>2, FreeUnused DEF T
      <4> QED
        BY <1>1, <2>1, <3>2, <4>1, <4>2
    <3> QED
      BY <3>2, <3>3, <3>4
  <2>2. /\ u \in T /\ w \in T
        /\ \/ u = t /\ j = i /\ w = t /\ k = i
           \/ /\ s.mem[<<u, j>>].addr = s.mem[<<w, k>>].addr
              /\ s.mem[<<u, j>>].addr \in T \cup MainPages
    BY <2>1
  <2> QED
    BY <2>2 DEF Tree, Single, T
<1>6. Boot(s2)
  <2>1. 0 \in Indices /\ 0 \in Nat
    BY ZeroIndices, Numbers DEF BootPages
  <2>2. \A q \in {Pml4, Pdpt0, Pdt0} : s.mem[<<q, 0>>] # Zero
    BY EntryFacts DEF Tree, Boot, Pdpt0, Pdt0
  <2>3. \A q \in {Pml4, Pdpt0, Pdt0} : s2.mem[<<q, 0>>] = s.mem[<<q, 0>>]
    BY <1>1, <2>1, <2>2 DEF Grown, T
  <2> QED
    BY <2>3 DEF Tree, Boot
<1> QED
  BY <1>1, <1>4, <1>5, <1>6 DEF Tree, lev2, T

\* Every address still leads to the same page.
LEMMA GrownLook ==
  ASSUME NEW s, NEW lev, Tree(s, lev), NEW t \in TablesOf(s), NEW i \in Indices, NEW p \in s.low,
         lev[t] \in 2..4, s.mem[<<t, i>>] = Zero, NEW s2, Grown(s, s2, t, i, p), NEW v \in Virtual
  PROVE  Look(s2, v) = Look(s, v)
<1>1. /\ pml4t_index(v) \in Indices /\ pdpt_index(v) \in Indices
      /\ pdt_index(v) \in Indices /\ pt_index(v) \in Indices
  BY IndexRange
<1>2. s \in State /\ Pml4 \in TablesOf(s) /\ p \in Nat
  <2>1. s \in State /\ p \in LowPages
    BY DEF Tree, State
  <2> QED
    BY <2>1, TableFacts, Numbers DEF BootPages
<1>3. ASSUME NEW u \in TablesOf(s), NEW j \in Indices
      PROVE  /\ s.mem[<<u, j>>] # Zero => s2.mem[<<u, j>>] = s.mem[<<u, j>>]
             /\ s.mem[<<u, j>>] = Zero => s2.mem[<<u, j>>] \in {Zero, Entry(p)}
  BY DEF Grown
<1>4. Entry(p).addr = p /\ Entry(p) # Zero /\ ~Entry(p).big /\ Zero.addr = -1
  BY <1>2, EntryFacts
<1>5. CASE E4(s, v) = Zero
  <2>1. Look(s, v) = [page |-> NoPage, big |-> FALSE]
    BY <1>5 DEF Look
  <2>2. E4(s2, v) \in {Zero, Entry(p)}
    BY <1>1, <1>2, <1>3, <1>5 DEF E4
  <2>3. E4(s2, v) = Entry(p) => E3(s2, v) = Zero
    BY <1>1, <1>4 DEF E3, Grown
  <2> QED
    BY <2>1, <2>2, <2>3 DEF Look
<1>6. CASE E4(s, v) # Zero /\ E3(s, v) = Zero
  <2>1. Look(s, v) = [page |-> NoPage, big |-> FALSE]
    BY <1>6 DEF Look
  <2>2. E4(s2, v) = E4(s, v) /\ E4(s, v).addr \in TablesOf(s)
    BY <1>1, <1>2, <1>3, <1>6, WalkDown DEF E4
  <2>3. E3(s2, v) \in {Zero, Entry(p)}
    BY <1>1, <1>3, <1>6, <2>2 DEF E3
  <2>4. E3(s2, v) = Entry(p) => E2(s2, v) = Zero
    BY <1>1, <1>4 DEF E2, Grown
  <2> QED
    BY <2>1, <2>3, <2>4 DEF Look
<1>7. CASE E4(s, v) # Zero /\ E3(s, v) # Zero
  <2>1. E4(s2, v) = E4(s, v) /\ E4(s, v).addr \in TablesOf(s)
    BY <1>1, <1>2, <1>3, <1>7, WalkDown DEF E4
  <2>2. E3(s2, v) = E3(s, v) /\ E3(s, v).addr \in TablesOf(s)
    BY <1>1, <1>3, <1>7, <2>1, WalkDown DEF E3
  <2>3. CASE E2(s, v) = Zero
    <3>1. Look(s, v) = [page |-> NoPage, big |-> FALSE]
      BY <2>3 DEF Look
    <3>2. E2(s2, v) \in {Zero, Entry(p)}
      BY <1>1, <1>3, <2>2, <2>3 DEF E2
    <3>3. E2(s2, v) = Entry(p) => E1(s2, v).addr = NoPage
      BY <1>1, <1>4 DEF E1, Grown, NoPage
    <3> QED
      BY <1>4, <1>7, <2>1, <2>2, <3>1, <3>2, <3>3 DEF Look
  <2>4. CASE E2(s, v) # Zero
    <3>1. E2(s2, v) = E2(s, v)
      BY <1>1, <1>3, <2>2, <2>4 DEF E2
    <3>2. CASE E2(s, v).big
      BY <2>1, <2>2, <3>1, <3>2 DEF Look
    <3>3. CASE ~E2(s, v).big
      <4>1. E2(s, v).addr \in TablesOf(s) /\ lev[E2(s, v).addr] = 1
        BY <1>7, <2>4, <3>3, WalkDown
      <4>2. E1(s2, v).addr = E1(s, v).addr
        BY <1>1, <3>1, <4>1 DEF E1, Grown
      <4> QED
        BY <2>1, <2>2, <3>1, <3>3, <4>2 DEF Look
    <3> QED
      BY <3>2, <3>3
  <2> QED
    BY <2>3, <2>4
<1> QED
  BY <1>5, <1>6, <1>7

\* A set of naturals that is not empty has a minimum, and Min is it.
LEMMA MinOfNaturals ==
  ASSUME NEW S \in SUBSET Nat, S # {}
  PROVE  Min(S) \in S /\ \A y \in S : Min(S) <= y
<1> DEFINE Less == {ss \in Nat \X Nat : ss[1] < ss[2]}
<1>1. IsWellFoundedOn(Less, Nat)
  BY NatLessThanWellFounded DEF OpToRel
<1> HIDE DEF Less
<1>2. PICK x \in S : \A y \in S : ~(<<y, x>> \in Less)
  BY <1>1, WFMin
<1>3. \A y \in S : x <= y
  <2> SUFFICES ASSUME NEW y \in S, y < x PROVE FALSE
    OBVIOUS
  <2>1. <<y, x>> \in Less
    BY DEF Less
  <2> QED
    BY <1>2, <2>1
<1> QED
  BY <1>3 DEF Min

(***************************************************************************)

-----------------------------------------------------------------------------
(***************************************************************************)
(* The walk of mem_map_page                                                *)
(***************************************************************************)

\* A page for a table: cleared, and the lowest free one if there is one.
LEMMA PageForTable ==
  ASSUME NEW s \in State
  PROVE  LET a == allocate_page(s)
         IN  /\ a.page \in Nat /\ a.s \in State /\ a.s.main = s.main
             /\ a.s.short = (s.short \/ s.low = {})
             /\ s.low # {} => a.page \in s.low
             /\ a.s.low = s.low \ {a.page}
             /\ \A c \in Frames \X Indices :
                  a.s.mem[c] = IF c[1] = a.page THEN Zero ELSE s.mem[c]
<1> DEFINE a == allocate_page(s)
           page == NextPage(s.low)
           mem == Cleared(s.mem, page)
<1>1. /\ s.mem \in [Frames \X Indices -> Entries] /\ s.low \in SUBSET LowPages
      /\ s.main \in SUBSET MainPages /\ s.short \in BOOLEAN
      /\ DOMAIN s.mem = Frames \X Indices
  BY DEF State
<1>2. page \in Nat /\ (s.low # {} => page \in s.low)
  <2>1. s.low \in SUBSET Nat
    <3>1. BootPages \subseteq Nat
      BY DEF BootPages
    <3> QED
      BY <1>1, <3>1, Numbers
  <2> QED
    BY <2>1, MinOfNaturals DEF NextPage
<1>3. /\ a.page = page
      /\ a.s = [s EXCEPT !.low = s.low \ {page}, !.mem = mem, !.short = s.short \/ s.low = {}]
  BY DEF allocate_page
<1> HIDE DEF a, page
<1>4. mem = [c \in Frames \X Indices |-> IF c[1] = page THEN Zero ELSE s.mem[c]]
  BY <1>1 DEF Cleared
<1>5. mem \in [Frames \X Indices -> Entries]
  BY <1>1, <1>4, EntryFacts
<1>6. \A c \in Frames \X Indices : mem[c] = IF c[1] = page THEN Zero ELSE s.mem[c]
  BY <1>4
<1> HIDE DEF mem
<1>7. /\ a.s \in State /\ a.s.main = s.main /\ a.s.short = (s.short \/ s.low = {})
      /\ a.s.low = s.low \ {page} /\ a.s.mem = mem
  BY <1>1, <1>3, <1>5 DEF State
<1>8. \A c \in Frames \X Indices : a.s.mem[c] = IF c[1] = a.page THEN Zero ELSE s.mem[c]
  BY <1>3, <1>6, <1>7
<1> QED
  BY <1>2, <1>3, <1>7, <1>8 DEF a

\* Writing an entry, in a table or elsewhere.
Put(s, t, i, e) == [s EXCEPT !.mem[<<t, i>>] = e]

\* What an entry that is written changes.
LEMMA PutFacts ==
  ASSUME NEW s \in State, NEW t, NEW i, NEW e \in Entries
  PROVE  /\ Put(s, t, i, e) \in State /\ Put(s, t, i, e).low = s.low
         /\ Put(s, t, i, e).main = s.main /\ Put(s, t, i, e).short = s.short
         /\ \A u \in Frames, j \in Indices :
              Put(s, t, i, e).mem[<<u, j>>] = IF u = t /\ j = i THEN e ELSE s.mem[<<u, j>>]
<1> DEFINE mem == [s.mem EXCEPT ![<<t, i>>] = e]
<1>1. s.mem \in [Frames \X Indices -> Entries]
  BY DEF State
<1>2. mem \in [Frames \X Indices -> Entries]
  BY <1>1
<1>3. \A u \in Frames, j \in Indices :
        mem[<<u, j>>] = IF u = t /\ j = i THEN e ELSE s.mem[<<u, j>>]
  BY <1>1
<1>4. Put(s, t, i, e) = [s EXCEPT !.mem = mem]
  BY DEF Put
<1> HIDE DEF mem
<1>5. /\ Put(s, t, i, e) \in State /\ Put(s, t, i, e).low = s.low
      /\ Put(s, t, i, e).main = s.main /\ Put(s, t, i, e).short = s.short
      /\ Put(s, t, i, e).mem = mem
  BY <1>2, <1>4 DEF State
<1> QED
  BY <1>3, <1>5

\* A step down keeps the types, whatever is taken for a table.
LEMMA DescendTypes ==
  ASSUME NEW s \in State, NEW t, NEW i
  PROVE  /\ Descend(s, t, i).s \in State /\ Descend(s, t, i).s.main = s.main
         /\ s.short => Descend(s, t, i).s.short
<1> DEFINE a == allocate_page(s)
<1>1. /\ a.page \in Nat /\ a.s \in State /\ a.s.main = s.main
      /\ a.s.short = (s.short \/ s.low = {})
  BY PageForTable
<1>2. CASE s.mem[<<t, i>>] # Zero
  BY <1>2 DEF Descend
<1>3. CASE s.mem[<<t, i>>] = Zero
  <2>1. Descend(s, t, i).s = Put(a.s, t, i, Entry(a.page))
    BY <1>3 DEF Descend, Put
  <2> HIDE DEF a
  <2>2. Entry(a.page) \in Entries
    BY <1>1, EntryFacts
  <2>3. /\ Put(a.s, t, i, Entry(a.page)) \in State
        /\ Put(a.s, t, i, Entry(a.page)).main = a.s.main
        /\ Put(a.s, t, i, Entry(a.page)).short = a.s.short
    BY <1>1, <2>2, PutFacts
  <2> QED
    BY <1>1, <2>1, <2>3
<1> QED
  BY <1>2, <1>3

\* No entry of s2 leads to a page that no entry of s led to, if it was lent.
NoneNew(s, s2) ==
  \A u \in TablesOf(s2), j \in Indices :
    s2.mem[<<u, j>>].addr \in MainPages =>
      u \in TablesOf(s) /\ s.mem[<<u, j>>] = s2.mem[<<u, j>>]

\* s2 has the entries of s, and perhaps more tables; nothing else is mapped.
Keeps(s, s2, lev2) ==
  /\ NoneNew(s, s2)
  /\ Tree(s2, lev2) /\ s2.main = s.main /\ TablesOf(s) \subseteq TablesOf(s2)
  /\ \A u \in TablesOf(s), j \in Indices :
       s.mem[<<u, j>>] # Zero => s2.mem[<<u, j>>] = s.mem[<<u, j>>]
  /\ \A v \in Virtual : Look(s2, v) = Look(s, v)

\* A step down to a table that is there, or to a new one.
LEMMA DescendGood ==
  ASSUME NEW s, NEW lev, Tree(s, lev), NEW t \in TablesOf(s), NEW i \in Indices, lev[t] \in 2..4,
         ~Descend(s, t, i).s.short
  PROVE  LET d == Descend(s, t, i)
         IN  /\ \E lev2 : Keeps(s, d.s, lev2)
             /\ d.s.mem[<<t, i>>] # Zero /\ d.s.mem[<<t, i>>].addr = d.table
<1> DEFINE d == Descend(s, t, i)
           a == allocate_page(s)
<1>0. s \in State
  BY DEF Tree
<1>1. CASE s.mem[<<t, i>>] # Zero
  <2>1. d.s = s /\ d.table = s.mem[<<t, i>>].addr
    BY <1>1 DEF Descend
  <2>2. Keeps(s, s, lev)
    BY DEF Keeps, NoneNew
  <2> QED
    BY <1>1, <2>1, <2>2
<1>2. CASE s.mem[<<t, i>>] = Zero
  <2>1. d.s = Put(a.s, t, i, Entry(a.page)) /\ d.table = a.page
    BY <1>2 DEF Descend, Put
  <2>2. /\ a.page \in Nat /\ a.s \in State /\ a.s.main = s.main
        /\ a.s.short = (s.short \/ s.low = {})
        /\ s.low # {} => a.page \in s.low
        /\ a.s.low = s.low \ {a.page}
        /\ \A c \in Frames \X Indices :
             a.s.mem[c] = IF c[1] = a.page THEN Zero ELSE s.mem[c]
    BY <1>0, PageForTable
  <2> DEFINE p == a.page
             m == a.s
             n == d.s
  <2>3. ~n.short
    OBVIOUS
  <2> HIDE DEF a, d, p, m, n
  <2>4. Entry(p) \in Entries /\ Entry(p) # Zero /\ Entry(p).addr = p /\ p \in Nat
    BY <2>2, EntryFacts DEF p
  <2>5. /\ n \in State /\ n.low = m.low /\ n.main = m.main /\ n.short = m.short
        /\ \A u \in Frames, j \in Indices :
             n.mem[<<u, j>>] = IF u = t /\ j = i THEN Entry(p) ELSE m.mem[<<u, j>>]
    BY <2>1, <2>2, <2>4, PutFacts DEF m, n, p
  <2>6. p \in s.low /\ n.low = s.low \ {p} /\ n.main = s.main
    BY <2>2, <2>3, <2>5 DEF p, m
  <2>7. \A u \in Frames, j \in Indices : m.mem[<<u, j>>] = IF u = p THEN Zero ELSE s.mem[<<u, j>>]
    BY <2>2 DEF m, p
  <2>8. TablesOf(s) \subseteq Frames /\ p \notin TablesOf(s) /\ p \in Frames /\ t # p
    <3>1. p \in BootPages
      BY <1>0, <2>6, Numbers DEF State
    <3> QED
      BY <1>0, <2>6, <3>1, TableFacts DEF Frames
  <2>9. \A u \in TablesOf(s), j \in Indices :
          n.mem[<<u, j>>] = IF u = t /\ j = i THEN Entry(p) ELSE s.mem[<<u, j>>]
    BY <2>5, <2>7, <2>8
  <2>10. \A j \in Indices : n.mem[<<p, j>>] = Zero
    BY <2>5, <2>7, <2>8
  <2>11. Grown(s, n, t, i, p)
    BY <2>5, <2>6, <2>9, <2>10 DEF Grown
  <2>12. PICK lev2 : Tree(n, lev2)
    BY <1>2, <2>6, <2>11, GrownTree
  <2>13. \A v \in Virtual : Look(n, v) = Look(s, v)
    BY <1>2, <2>6, <2>11, GrownLook
  <2>14. TablesOf(s) \subseteq TablesOf(n)
    BY <2>6 DEF TablesOf
  <2>15. Keeps(s, n, lev2)
    <3>1. TablesOf(n) = TablesOf(s) \cup {p} /\ p \notin MainPages /\ -1 \notin MainPages
      <4>1. p \in LowPages
        BY <1>0, <2>6 DEF State
      <4> QED
        BY <2>6, <4>1, Numbers DEF TablesOf
    <3>2. ASSUME NEW u \in TablesOf(n), NEW j \in Indices, n.mem[<<u, j>>].addr \in MainPages
          PROVE  u \in TablesOf(s) /\ s.mem[<<u, j>>] = n.mem[<<u, j>>]
      <4>1. u # p
        BY <2>10, <3>1, <3>2, EntryFacts
      <4>2. ~(u = t /\ j = i)
        BY <2>4, <2>9, <3>1, <3>2
      <4> QED
        BY <2>9, <3>1, <4>1, <4>2
    <3> QED
      BY <1>2, <2>6, <2>9, <2>12, <2>13, <2>14, <3>2 DEF Keeps, NoneNew
  <2>16. n.mem[<<t, i>>] # Zero /\ n.mem[<<t, i>>].addr = p
    BY <2>4, <2>9
  <2> QED
    BY <2>1, <2>15, <2>16 DEF d, n, p
<1> QED
  BY <1>1, <1>2

\* The three steps down of mem_map_page.
Step1(s, v) == Descend(s, Pml4, pml4t_index(v))
Step2(s, v) == Descend(Step1(s, v).s, Step1(s, v).table, pdpt_index(v))
Step3(s, v) == Descend(Step2(s, v).s, Step2(s, v).table, pdt_index(v))

\* The steps keep the types, and that a page manager ran out.
LEMMA StepTypes ==
  ASSUME NEW s \in State, NEW v
  PROVE  /\ Step1(s, v).s \in State /\ Step2(s, v).s \in State /\ Step3(s, v).s \in State
         /\ Step2(s, v).s.main = s.main /\ Step3(s, v).s.main = s.main
         /\ s.short => Step1(s, v).s.short
         /\ Step1(s, v).s.short => Step2(s, v).s.short
         /\ Step2(s, v).s.short => Step3(s, v).s.short
<1>1. /\ Step1(s, v).s \in State /\ Step1(s, v).s.main = s.main
      /\ s.short => Step1(s, v).s.short
  BY DescendTypes DEF Step1
<1>2. /\ Step2(s, v).s \in State /\ Step2(s, v).s.main = s.main
      /\ Step1(s, v).s.short => Step2(s, v).s.short
  BY <1>1, DescendTypes DEF Step2
<1>3. /\ Step3(s, v).s \in State /\ Step3(s, v).s.main = s.main
      /\ Step2(s, v).s.short => Step3(s, v).s.short
  BY <1>2, DescendTypes DEF Step3
<1> QED
  BY <1>1, <1>2, <1>3

\* Step by step, what was there is kept.
LEMMA KeepsTwice ==
  ASSUME NEW s, NEW m, NEW n, NEW lev1, NEW lev2, Keeps(s, m, lev1), Keeps(m, n, lev2)
  PROVE  Keeps(s, n, lev2)
<1>1. ASSUME NEW u \in TablesOf(s), NEW j \in Indices, s.mem[<<u, j>>] # Zero
      PROVE  n.mem[<<u, j>>] = s.mem[<<u, j>>]
  BY <1>1 DEF Keeps
<1>2. NoneNew(s, n)
  BY DEF Keeps, NoneNew
<1> QED
  BY <1>1, <1>2 DEF Keeps

\* The first two steps lead to the level-2 table of v.
LEMMA TwoSteps ==
  ASSUME NEW s, NEW lev, Tree(s, lev), NEW v \in Virtual, ~Step2(s, v).s.short
  PROVE  /\ \E lev2 : Keeps(s, Step2(s, v).s, lev2)
         /\ Leads2(Step2(s, v).s, v, Step2(s, v).table)
<1> DEFINE d1 == Step1(s, v)
           d2 == Step2(s, v)
<1>1. /\ s \in State /\ lev[Pml4] = 4 /\ Pml4 \in TablesOf(s)
      /\ pml4t_index(v) \in Indices /\ pdpt_index(v) \in Indices
  BY TableFacts, IndexRange DEF Tree, Levels
<1>2. ~d1.s.short
  BY <1>1, StepTypes
<1>3. /\ \E lev1 : Keeps(s, d1.s, lev1)
      /\ d1.s.mem[<<Pml4, pml4t_index(v)>>] # Zero
      /\ d1.s.mem[<<Pml4, pml4t_index(v)>>].addr = d1.table
  <2>1. lev[Pml4] \in 2..4
    BY <1>1
  <2>2. ~Descend(s, Pml4, pml4t_index(v)).s.short
    BY <1>2 DEF Step1
  <2> QED
    BY <1>1, <2>1, <2>2, DescendGood DEF Step1
<1>4. PICK lev1 : Keeps(s, d1.s, lev1)
  BY <1>3
<1>5. Tree(d1.s, lev1) /\ E4(d1.s, v) # Zero /\ E4(d1.s, v).addr = d1.table
  BY <1>3, <1>4 DEF Keeps, E4
<1>6. d1.table \in TablesOf(d1.s) /\ lev1[d1.table] = 3
  BY <1>5, WalkDown
<1> HIDE DEF d1
<1>7. d2 = Descend(d1.s, d1.table, pdpt_index(v)) /\ ~d2.s.short
  BY DEF Step2, d1
<1>8. /\ \E lev2 : Keeps(d1.s, d2.s, lev2)
      /\ d2.s.mem[<<d1.table, pdpt_index(v)>>] # Zero
      /\ d2.s.mem[<<d1.table, pdpt_index(v)>>].addr = d2.table
  <2>1. lev1[d1.table] \in 2..4
    BY <1>6
  <2> QED
    BY <1>1, <1>5, <1>6, <1>7, <2>1, DescendGood
<1>9. PICK lev2 : Keeps(d1.s, d2.s, lev2)
  BY <1>8
<1> HIDE DEF d2
<1>10. E4(d2.s, v) = E4(d1.s, v)
  <2>1. Pml4 \in TablesOf(d1.s)
    BY <1>1, <1>4 DEF Keeps
  <2> QED
    BY <1>1, <1>5, <1>9, <2>1 DEF Keeps, E4
<1>11. Leads2(d2.s, v, d2.table)
  BY <1>5, <1>8, <1>10 DEF Leads2, E3
<1> QED
  BY <1>4, <1>9, <1>11, KeepsTwice DEF d2

\* All three lead to the level-1 table, or to a 2M page taken for one.
LEMMA ThreeSteps ==
  ASSUME NEW s, NEW lev, Tree(s, lev), NEW v \in Virtual, ~Step3(s, v).s.short
  PROVE  LET n == Step3(s, v).s
         IN  /\ \E lev2 : Keeps(s, n, lev2)
             /\ E4(n, v) # Zero /\ E3(n, v) # Zero /\ E2(n, v) # Zero
             /\ E2(n, v).addr = Step3(s, v).table
<1> DEFINE d2 == Step2(s, v)
           d3 == Step3(s, v)
<1>1. /\ s \in State /\ pml4t_index(v) \in Indices
      /\ pdpt_index(v) \in Indices /\ pdt_index(v) \in Indices
  BY IndexRange DEF Tree
<1>2. ~d2.s.short
  BY <1>1, StepTypes
<1>3. (\E lev2 : Keeps(s, d2.s, lev2)) /\ Leads2(d2.s, v, d2.table)
  BY <1>2, TwoSteps
<1>4. PICK lev2 : Keeps(s, d2.s, lev2)
  BY <1>3
<1>5. Tree(d2.s, lev2) /\ E4(d2.s, v) # Zero /\ E3(d2.s, v) # Zero /\ E3(d2.s, v).addr = d2.table
  BY <1>3, <1>4 DEF Keeps, Leads2
<1>6. /\ d2.table \in TablesOf(d2.s) /\ lev2[d2.table] = 2 /\ E4(d2.s, v).addr \in TablesOf(d2.s)
      /\ Pml4 \in TablesOf(d2.s)
  BY <1>5, WalkDown, TableFacts DEF Tree
<1> HIDE DEF d2
<1>7. d3 = Descend(d2.s, d2.table, pdt_index(v)) /\ ~d3.s.short
  BY DEF Step3, d2
<1>8. /\ \E lev3 : Keeps(d2.s, d3.s, lev3)
      /\ d3.s.mem[<<d2.table, pdt_index(v)>>] # Zero
      /\ d3.s.mem[<<d2.table, pdt_index(v)>>].addr = d3.table
  <2>1. lev2[d2.table] \in 2..4
    BY <1>6
  <2> QED
    BY <1>1, <1>5, <1>6, <1>7, <2>1, DescendGood
<1>9. PICK lev3 : Keeps(d2.s, d3.s, lev3)
  BY <1>8
<1> HIDE DEF d3
<1>10. E4(d3.s, v) = E4(d2.s, v)
  BY <1>1, <1>5, <1>6, <1>9 DEF Keeps, E4
<1>11. E3(d3.s, v) = E3(d2.s, v)
  BY <1>1, <1>5, <1>6, <1>9, <1>10 DEF Keeps, E3
<1>12. E2(d3.s, v) # Zero /\ E2(d3.s, v).addr = d3.table
  BY <1>5, <1>8, <1>11 DEF E2
<1> QED
  BY <1>4, <1>5, <1>9, <1>10, <1>11, <1>12, KeepsTwice DEF d3

-----------------------------------------------------------------------------
(***************************************************************************)
(* The entry that mem_map_page writes                                      *)
(***************************************************************************)

\* Tables are not aligned as 2M pages are.
LEMMA TablesUnaligned ==
  ASSUME NEW s \in State, NEW t \in TablesOf(s)
  PROVE  t % PT # 0
<1>1. t \in BootPages /\ t # 0
  BY TableFacts
<1>2. pt_index(t) = t
  BY <1>1, ZeroIndices
<1> QED
  BY <1>1, <1>2 DEF pt_index

\* The levels of boot.asm's tables, and the walk to address 0.
LEMMA BootLevels ==
  ASSUME NEW s, NEW lev, Tree(s, lev)
  PROVE  /\ lev[Pml4] = 4 /\ lev[Pdpt0] = 3 /\ lev[Pdt0] = 2 /\ Leads2(s, 0, Pdt0)
         /\ 0 \in Virtual /\ 0 \in BootPages
         /\ \A v \in BootPages : /\ E4(s, v) # Zero /\ E3(s, v) # Zero /\ E2(s, v) # Zero
                                 /\ E2(s, v).big /\ E2(s, v).addr = 0 /\ Look(s, v).big
<1>0. 0 \in BootPages
  BY Numbers DEF BootPages
<1>1. ASSUME NEW v \in BootPages
      PROVE  E4(s, v) = Entry(Pdpt0) /\ E3(s, v) = Entry(Pdt0) /\ E2(s, v) = BigEntry(0)
  <2>1. v \in Virtual /\ pdt_index(v) = 0 /\ pdpt_index(v) = 0 /\ pml4t_index(v) = 0
    BY ZeroIndices
  <2>2. E4(s, v) = Entry(Pdpt0)
    BY <2>1 DEF E4, Tree, Boot
  <2>3. E3(s, v) = Entry(Pdt0)
    BY <2>1, <2>2, EntryFacts DEF E3, Tree, Boot, Pdpt0
  <2>4. E2(s, v) = BigEntry(0)
    BY <2>1, <2>3, EntryFacts DEF E2, Tree, Boot, Pdt0
  <2> QED
    BY <2>2, <2>3, <2>4
<1>2. /\ Entry(Pdpt0) # Zero /\ Entry(Pdt0) # Zero /\ BigEntry(0) # Zero /\ BigEntry(0).big
      /\ BigEntry(0).addr = 0 /\ Entry(Pdpt0).addr = Pdpt0 /\ Entry(Pdt0).addr = Pdt0
  BY EntryFacts DEF Pdpt0, Pdt0
<1>3. \A v \in BootPages : /\ E4(s, v) # Zero /\ E3(s, v) # Zero /\ E2(s, v) # Zero
                           /\ E2(s, v).big /\ E2(s, v).addr = 0
  BY <1>1, <1>2
<1>4. \A v \in BootPages : Look(s, v).big
  BY <1>3 DEF Look
<1>5. 0 \in Virtual /\ E4(s, 0) = Entry(Pdpt0) /\ E3(s, 0) = Entry(Pdt0)
  BY <1>0, <1>1, ZeroIndices
<1>6. lev[Pdpt0] = 3 /\ lev[Pdt0] = 2
  BY <1>2, <1>5, WalkDown
<1>7. Leads2(s, 0, Pdt0)
  BY <1>2, <1>5 DEF Leads2
<1> QED
  BY <1>0, <1>3, <1>4, <1>5, <1>6, <1>7 DEF Tree, Levels

\* s2 has new entry e in entry i of table t.
Written(s, s2, t, i, e) ==
  /\ s2 \in State /\ s2.low = s.low /\ s2.main \subseteq s.main
  /\ \A u \in TablesOf(s), j \in Indices :
       s2.mem[<<u, j>>] = IF u = t /\ j = i THEN e ELSE s.mem[<<u, j>>]

\* An entry that fits, and leads to no page that is in use, may be written.
LEMMA WrittenTree ==
  ASSUME NEW s, NEW lev, Tree(s, lev), NEW t, NEW i, NEW e, NEW s2, Written(s, s2, t, i, e),
         t \in TablesOf(s) => Allowed(s2, lev, t, e),
         ~(i = 0 /\ t \in {Pml4, Pdpt0, Pdt0}) \/ (e = s.mem[<<t, i>>]),
         \A u \in TablesOf(s), j \in Indices :
           e.addr = s.mem[<<u, j>>].addr => e.addr \notin TablesOf(s) \cup MainPages
  PROVE  Tree(s2, lev)
<1>1. TablesOf(s2) = TablesOf(s) /\ s2 \in State /\ s \in State
  BY DEF TablesOf, Written, Tree
<1>2. ASSUME NEW u \in TablesOf(s2), NEW j \in Indices PROVE Allowed(s2, lev, u, s2.mem[<<u, j>>])
  <2>1. CASE u = t /\ j = i
    BY <1>1, <1>2, <2>1 DEF Written
  <2>2. CASE ~(u = t /\ j = i)
    <3> DEFINE f == s.mem[<<u, j>>]
    <3>1. s2.mem[<<u, j>>] = f
      BY <1>1, <2>2 DEF Written
    <3>2. Allowed(s, lev, u, f)
      BY <1>1 DEF Tree, Levels
    <3>3. s2.main \subseteq s.main
      BY DEF Written
    <3> HIDE DEF f
    <3>4. Allowed(s2, lev, u, f)
      BY <1>1, <3>2, <3>3 DEF Allowed
    <3> QED
      BY <3>1, <3>4
  <2> QED
    BY <2>1, <2>2
<1>3. Levels(s2, lev)
  BY <1>1, <1>2 DEF Tree, Levels
<1>4. Single(s2)
  <2> SUFFICES ASSUME NEW u \in TablesOf(s), NEW w \in TablesOf(s), NEW j \in Indices,
                      NEW k \in Indices, s2.mem[<<u, j>>].addr = s2.mem[<<w, k>>].addr,
                      s2.mem[<<u, j>>].addr \in TablesOf(s) \cup MainPages
               PROVE  u = w /\ j = k
    BY <1>1 DEF Single
  <2>1. /\ s2.mem[<<u, j>>] = IF u = t /\ j = i THEN e ELSE s.mem[<<u, j>>]
        /\ s2.mem[<<w, k>>] = IF w = t /\ k = i THEN e ELSE s.mem[<<w, k>>]
    BY DEF Written
  <2>2. CASE ~(u = t /\ j = i) /\ ~(w = t /\ k = i)
    BY <2>1, <2>2 DEF Tree, Single
  <2>3. CASE u = t /\ j = i /\ ~(w = t /\ k = i)
    BY <2>1, <2>3
  <2>4. CASE ~(u = t /\ j = i) /\ w = t /\ k = i
    BY <2>1, <2>4
  <2> QED
    BY <2>2, <2>3, <2>4
<1>5. Boot(s2)
  <2>1. 0 \in Indices /\ Pml4 \in TablesOf(s) /\ Pdpt0 \in TablesOf(s) /\ Pdt0 \in TablesOf(s)
    BY <1>1, TableFacts, BootLevels, ZeroIndices
  <2>2. \A q \in {Pml4, Pdpt0, Pdt0} : s2.mem[<<q, 0>>] = s.mem[<<q, 0>>]
    BY <2>1 DEF Written
  <2> QED
    BY <2>2 DEF Tree, Boot
<1> QED
  BY <1>1, <1>3, <1>4, <1>5 DEF Tree

\* A page taken for a table but in no walk: nothing changes.
LEMMA WrittenOutside ==
  ASSUME NEW s, NEW lev, Tree(s, lev), NEW t, NEW i, NEW e, NEW s2, Written(s, s2, t, i, e),
         t \notin TablesOf(s)
  PROVE  Tree(s2, lev) /\ \A v \in Virtual : Look(s2, v) = Look(s, v)
<1>1. \A u \in TablesOf(s), j \in Indices : s2.mem[<<u, j>>] = s.mem[<<u, j>>]
  BY DEF Written
<1>3. Tree(s2, lev)
  <2>1. TablesOf(s2) = TablesOf(s) /\ s2 \in State /\ s \in State /\ s2.main \subseteq s.main
    BY DEF TablesOf, Written, Tree
  <2>2. ASSUME NEW u \in TablesOf(s2), NEW j \in Indices PROVE Allowed(s2, lev, u, s2.mem[<<u, j>>])
    <3> DEFINE f == s.mem[<<u, j>>]
    <3>1. s2.mem[<<u, j>>] = f
      BY <1>1, <2>1
    <3>2. Allowed(s, lev, u, f)
      BY <2>1 DEF Tree, Levels
    <3> HIDE DEF f
    <3> QED
      BY <2>1, <3>1, <3>2 DEF Allowed
  <2>3. Levels(s2, lev)
    BY <2>1, <2>2 DEF Tree, Levels
  <2>4. Single(s2)
    BY <1>1, <2>1 DEF Tree, Single
  <2>5. 0 \in Indices /\ Pml4 \in TablesOf(s) /\ Pdpt0 \in TablesOf(s) /\ Pdt0 \in TablesOf(s)
    BY <2>1, TableFacts, BootLevels, ZeroIndices
  <2>6. Boot(s2)
    BY <1>1, <2>5 DEF Tree, Boot
  <2> QED
    BY <2>1, <2>3, <2>4, <2>6 DEF Tree
<1>4. ASSUME NEW v \in Virtual PROVE Look(s2, v) = Look(s, v)
  <2>1. /\ pml4t_index(v) \in Indices /\ pdpt_index(v) \in Indices
        /\ pdt_index(v) \in Indices /\ pt_index(v) \in Indices /\ Pml4 \in TablesOf(s)
    BY IndexRange, TableFacts DEF Tree
  <2>2. E4(s2, v) = E4(s, v)
    BY <1>1, <2>1 DEF E4
  <2>3. E4(s, v) # Zero => E3(s2, v) = E3(s, v)
    BY <1>1, <2>1, <2>2, WalkDown DEF E3
  <2>4. E4(s, v) # Zero /\ E3(s, v) # Zero => E2(s2, v) = E2(s, v)
    BY <1>1, <2>1, <2>3, WalkDown DEF E2
  <2>5. E4(s, v) # Zero /\ E3(s, v) # Zero /\ E2(s, v) # Zero /\ ~E2(s, v).big =>
          E1(s2, v) = E1(s, v)
    BY <1>1, <2>1, <2>4, WalkDown DEF E1
  <2> QED
    BY <2>2, <2>3, <2>4, <2>5 DEF Look
<1> QED
  BY <1>3, <1>4

\* What changes no entry of the levels above leaves the walk as it is.
LEMMA SameAbove ==
  ASSUME NEW s, NEW lev, Tree(s, lev), NEW s2, NEW l \in 1..2, NEW v \in Virtual,
         \A u \in TablesOf(s), j \in Indices :
           lev[u] # l => s2.mem[<<u, j>>] = s.mem[<<u, j>>]
  PROVE  /\ E4(s2, v) = E4(s, v)
         /\ E4(s, v) # Zero => E3(s2, v) = E3(s, v)
         /\ l = 1 /\ E4(s, v) # Zero /\ E3(s, v) # Zero => E2(s2, v) = E2(s, v)
<1>1. /\ pml4t_index(v) \in Indices /\ pdpt_index(v) \in Indices /\ pdt_index(v) \in Indices
      /\ Pml4 \in TablesOf(s) /\ lev[Pml4] = 4
  BY IndexRange, TableFacts DEF Tree, Levels
<1>2. E4(s2, v) = E4(s, v)
  BY <1>1 DEF E4
<1>3. E4(s, v) # Zero => E3(s2, v) = E3(s, v)
  BY <1>1, <1>2, WalkDown DEF E3
<1>4. l = 1 /\ E4(s, v) # Zero /\ E3(s, v) # Zero => E2(s2, v) = E2(s, v)
  BY <1>1, <1>3, WalkDown DEF E2
<1> QED
  BY <1>2, <1>3, <1>4

\* A 4K page: only its address is mapped anew.
LEMMA Written4k ==
  ASSUME NEW s, NEW lev, Tree(s, lev), NEW v \in Virtual, NEW t, Leads1(s, v, t), NEW page,
         NEW s2, Written(s, s2, t, pt_index(v), Entry(page)),
         \/ page \in (Virtual \ BootPages) \ MainPages
         \/ /\ page \in MainPages \ s2.main
            /\ \A u \in TablesOf(s), j \in Indices : s.mem[<<u, j>>].addr # page
  PROVE  /\ Tree(s2, lev) /\ Look(s2, v) = [page |-> page, big |-> FALSE]
         /\ \A u \in Virtual : u # v => Look(s2, u) = Look(s, u)
<1>0. s \in State /\ page \in Nat /\ pt_index(v) \in Indices
  BY Numbers, IndexRange DEF Tree
<1>1. t \in TablesOf(s) /\ lev[t] = 1
  BY WalkDown DEF Leads1
<1>2. Entry(page).addr = page /\ ~Entry(page).big
  BY <1>0, EntryFacts
<1>3. Tree(s2, lev)
  <2>1. Allowed(s2, lev, t, Entry(page))
    BY <1>1, <1>2 DEF Allowed
  <2>2. t \notin {Pml4, Pdpt0, Pdt0}
    BY <1>1, BootLevels
  <2>3. \A u \in TablesOf(s), j \in Indices :
          page = s.mem[<<u, j>>].addr => page \notin TablesOf(s) \cup MainPages
    BY <1>0, TableFacts
  <2> DEFINE e == Entry(page)
             i == pt_index(v)
  <2>4. e.addr = page /\ Allowed(s2, lev, t, e) /\ Written(s, s2, t, i, e)
    BY <1>2, <2>1
  <2> HIDE DEF e, i
  <2>5. \A u \in TablesOf(s), j \in Indices :
          e.addr = s.mem[<<u, j>>].addr => e.addr \notin TablesOf(s) \cup MainPages
    BY <2>3, <2>4
  <2>6. ~(i = 0 /\ t \in {Pml4, Pdpt0, Pdt0}) \/ (e = s.mem[<<t, i>>])
    BY <2>2
  <2> QED
    BY <2>4, <2>5, <2>6, WrittenTree
<1>4. \A u \in TablesOf(s), j \in Indices : lev[u] # 1 => s2.mem[<<u, j>>] = s.mem[<<u, j>>]
  BY <1>1 DEF Written
<1>5. ASSUME NEW u \in Virtual
      PROVE  /\ E4(s2, u) = E4(s, u)
             /\ E4(s, u) # Zero => E3(s2, u) = E3(s, u)
             /\ E4(s, u) # Zero /\ E3(s, u) # Zero => E2(s2, u) = E2(s, u)
  <2>1. 1 \in 1..2
    OBVIOUS
  <2> QED
    BY <1>4, <2>1, SameAbove
<1>6. Look(s2, v) = [page |-> page, big |-> FALSE]
  <2>1. /\ E4(s2, v) # Zero /\ E3(s2, v) # Zero /\ E2(s2, v) # Zero /\ ~E2(s2, v).big
        /\ E2(s2, v).addr = t
    BY <1>5 DEF Leads1
  <2>2. E1(s2, v) = Entry(page)
    BY <1>0, <1>1, <2>1 DEF E1, Written
  <2> QED
    BY <1>2, <2>1, <2>2 DEF Look
<1>7. ASSUME NEW u \in Virtual, u # v PROVE Look(s2, u) = Look(s, u)
  <2>1. CASE E4(s, u) = Zero \/ E3(s, u) = Zero \/ E2(s, u) = Zero \/ E2(s, u).big
    BY <1>5, <2>1 DEF Look
  <2>2. CASE E4(s, u) # Zero /\ E3(s, u) # Zero /\ E2(s, u) # Zero /\ ~E2(s, u).big
    <3> DEFINE x == E2(s, u).addr
    <3>1. x \in TablesOf(s) /\ Leads1(s, u, x) /\ pt_index(u) \in Indices
      BY <2>2, WalkDown, IndexRange DEF Leads1
    <3>2. ASSUME x = t PROVE pt_index(u) # pt_index(v)
      <4>1. u \div PT = v \div PT
        BY <3>1, <3>2, SamePath
      <4>2. u = PT * (u \div PT) + pt_index(u) /\ v = PT * (v \div PT) + pt_index(v)
        BY IndexRange
      <4> QED
        BY <1>7, <4>1, <4>2, Zenon
    <3>3. s2.mem[<<x, pt_index(u)>>] = s.mem[<<x, pt_index(u)>>]
      BY <3>1, <3>2 DEF Written
    <3>4. E1(s2, u) = E1(s, u)
      BY <1>5, <2>2, <3>3 DEF E1
    <3> QED
      BY <1>5, <2>2, <3>4 DEF Look
  <2> QED
    BY <2>1, <2>2
<1> QED
  BY <1>3, <1>6, <1>7

\* A 2M page: only its block of addresses is mapped anew, one to one.
LEMMA Written2m ==
  ASSUME NEW s, NEW lev, Tree(s, lev), NEW v \in Virtual, v % PT = 0, v \notin MainPages,
         NEW t, Leads2(s, v, t), NEW s2, Written(s, s2, t, pdt_index(v), BigEntry(v))
  PROVE  /\ Tree(s2, lev)
         /\ \A u \in Virtual : Look(s2, u) = IF u \div PT = v \div PT
                                               THEN [page |-> u, big |-> TRUE] ELSE Look(s, u)
<1>0. s \in State /\ v \in Nat /\ pdt_index(v) \in Indices /\ v = PT * (v \div PT) + 0
  BY IndexRange DEF Tree, pt_index
<1>1. t \in TablesOf(s) /\ lev[t] = 2
  BY WalkDown DEF Leads2
<1>2. BigEntry(v).addr = v /\ BigEntry(v).big /\ BigEntry(v) # Zero
  BY <1>0, EntryFacts
<1>3. Tree(s2, lev)
  <2> DEFINE e == BigEntry(v)
             i == pdt_index(v)
  <2>1. e.addr = v /\ Allowed(s2, lev, t, e) /\ Written(s, s2, t, i, e)
    BY <1>1, <1>2 DEF Allowed
  <2>2. ASSUME i = 0, t \in {Pml4, Pdpt0, Pdt0} PROVE e = s.mem[<<t, i>>]
    <3>1. t = Pdt0 /\ Leads2(s, 0, t) /\ 0 \in Virtual /\ 0 \in BootPages
      BY <1>1, <2>2, BootLevels
    <3>2. pml4t_index(v) = pml4t_index(0) /\ pdpt_index(v) = pdpt_index(0)
      BY <3>1, SamePath
    <3>3. pdt_index(0) = 0 /\ pt_index(0) = 0
      BY <3>1, ZeroIndices
    <3>4. v = 0
      BY <2>2, <3>1, <3>2, <3>3, SameIndices DEF pt_index
    <3> QED
      BY <2>2, <3>1, <3>4 DEF Tree, Boot
  <2> HIDE DEF e, i
  <2>3. v \notin TablesOf(s) \cup MainPages
    BY <1>0, TablesUnaligned
  <2>4. \A u \in TablesOf(s), j \in Indices :
          e.addr = s.mem[<<u, j>>].addr => e.addr \notin TablesOf(s) \cup MainPages
    BY <2>1, <2>3
  <2>5. ~(i = 0 /\ t \in {Pml4, Pdpt0, Pdt0}) \/ (e = s.mem[<<t, i>>])
    BY <2>2
  <2> QED
    BY <2>1, <2>4, <2>5, WrittenTree
<1>4. \A u \in TablesOf(s), j \in Indices : lev[u] # 2 => s2.mem[<<u, j>>] = s.mem[<<u, j>>]
  BY <1>1 DEF Written
<1>5. ASSUME NEW u \in Virtual
      PROVE  E4(s2, u) = E4(s, u) /\ (E4(s, u) # Zero => E3(s2, u) = E3(s, u))
  <2>1. 2 \in 1..2
    OBVIOUS
  <2> QED
    BY <1>4, <2>1, SameAbove
<1>6. ASSUME NEW u \in Virtual, u \div PT = v \div PT
      PROVE  Look(s2, u) = [page |-> u, big |-> TRUE]
  <2>1. /\ pml4t_index(u) = pml4t_index(v) /\ pdpt_index(u) = pdpt_index(v)
        /\ pdt_index(u) = pdt_index(v)
    BY <1>6 DEF pml4t_index, pdpt_index, pdt_index
  <2>2. E4(s2, u) = E4(s, v) /\ E3(s2, u) = E3(s, v)
    <3>1. E4(s, u) = E4(s, v)
      BY <2>1 DEF E4
    <3>2. E3(s, u) = E3(s, v)
      BY <2>1, <3>1 DEF E3
    <3> QED
      BY <1>5, <3>1, <3>2 DEF Leads2
  <2>3. E2(s2, u) = BigEntry(v)
    BY <1>0, <1>1, <2>1, <2>2 DEF E2, Leads2, Written
  <2>4. u = v + pt_index(u)
    <3>1. u = PT * (u \div PT) + pt_index(u) /\ pt_index(u) \in Nat /\ u \in Nat
      BY IndexRange, Numbers
    <3>2. u = PT * (v \div PT) + pt_index(u) /\ PT * (v \div PT) = v
      <4> DEFINE k == v \div PT
      <4>0. k \in Nat /\ PT \in Nat
        BY <1>0, Division, Numbers
      <4> HIDE DEF k
      <4>1. PT * k \in Nat
        BY <4>0
      <4> USE DEF k
      <4> QED
        BY <1>0, <1>6, <3>1, <4>1
    <3> QED
      BY <3>2
  <2> QED
    BY <1>2, <2>2, <2>3, <2>4 DEF Look, Leads2
<1>7. ASSUME NEW u \in Virtual, u \div PT # v \div PT PROVE Look(s2, u) = Look(s, u)
  <2>1. CASE E4(s, u) = Zero \/ E3(s, u) = Zero
    BY <1>5, <2>1 DEF Look
  <2>2. CASE E4(s, u) # Zero /\ E3(s, u) # Zero
    <3> DEFINE x == E3(s, u).addr
    <3>1. /\ x \in TablesOf(s) /\ Leads2(s, u, x) /\ lev[x] = 2
          /\ pdt_index(u) \in Indices /\ pt_index(u) \in Indices
      BY <2>2, WalkDown, IndexRange DEF Leads2
    <3>2. ASSUME x = t, pdt_index(u) = pdt_index(v) PROVE FALSE
      <4>1. pml4t_index(u) = pml4t_index(v) /\ pdpt_index(u) = pdpt_index(v)
        BY <3>1, <3>2, SamePath
      <4> QED
        BY <1>7, <3>2, <4>1, SameIndices
    <3>3. E2(s2, u) = E2(s, u)
      BY <1>5, <2>2, <3>1, <3>2 DEF E2, Written
    <3>4. E2(s, u) # Zero /\ ~E2(s, u).big => E1(s2, u) = E1(s, u)
      <4>1. E2(s, u) # Zero /\ ~E2(s, u).big =>
              E2(s, u).addr \in TablesOf(s) /\ lev[E2(s, u).addr] = 1
        BY <2>2, WalkDown
      <4> QED
        BY <1>4, <3>1, <3>3, <4>1 DEF E1
    <3> QED
      BY <1>5, <2>2, <3>3, <3>4 DEF Look
  <2> QED
    BY <2>1, <2>2
<1> QED
  BY <1>3, <1>6, <1>7

-----------------------------------------------------------------------------
(***************************************************************************)
(* The mapping of a page                                                   *)
(***************************************************************************)
Wants == [Virtual -> Virtual \cup MainPages \cup {NoPage}]

\* mem_map_page is the steps down and an entry.
LEMMA MapPageIsPut ==
  ASSUME NEW s \in State, NEW v, NEW page
  PROVE  /\ mem_map_page(s, v, page, FALSE) =
              Put(Step3(s, v).s, Step3(s, v).table, pt_index(v), Entry(page))
         /\ mem_map_page(s, v, page, TRUE) =
              Put(Step2(s, v).s, Step2(s, v).table, pdt_index(v), BigEntry(page - (page % PT)))
  BY DEF mem_map_page, Put, Step1, Step2, Step3

\* It keeps the types and the state of the main page manager.
LEMMA MapPageTypes ==
  ASSUME NEW s \in State, NEW v, NEW page \in Nat
  PROVE  /\ mem_map_page(s, v, page, FALSE) \in State
         /\ mem_map_page(s, v, page, FALSE).main = s.main
         /\ mem_map_page(s, v, page, FALSE).short = Step3(s, v).s.short
         /\ s.short => mem_map_page(s, v, page, FALSE).short
<1>1. /\ Step3(s, v).s \in State /\ (s.short => Step3(s, v).s.short) /\ Entry(page) \in Entries
      /\ Step3(s, v).s.main = s.main
  BY StepTypes, EntryFacts
<1> DEFINE n == Put(Step3(s, v).s, Step3(s, v).table, pt_index(v), Entry(page))
<1>2. n \in State /\ n.short = Step3(s, v).s.short /\ n.main = Step3(s, v).s.main
  BY <1>1, PutFacts
<1>3. mem_map_page(s, v, page, FALSE) = n
  BY MapPageIsPut
<1> QED
  BY <1>1, <1>2, <1>3, Zenon

\* What the entry changes in the tables that the steps led through.
LEMMA MapPageWrites ==
  ASSUME NEW s \in State, NEW t, NEW i, NEW e \in Entries
  PROVE  Written(s, Put(s, t, i, e), t, i, e)
<1>1. TablesOf(s) \subseteq Frames
  BY TableFacts
<1> QED
  BY <1>1, PutFacts DEF Written

\* A 4K page where no 2M page is.
LEMMA Place4k ==
  ASSUME NEW s, NEW w \in Wants, NEW lev, Good(s, w, lev), NEW v \in Virtual, ~Look(s, v).big,
         NEW page, ~mem_map_page(s, v, page, FALSE).short,
         \/ page \in (Virtual \ BootPages) \ MainPages
         \/ /\ page \in MainPages \ s.main
            /\ \A u \in TablesOf(s), j \in Indices : s.mem[<<u, j>>].addr # page
  PROVE  \E lev2 : Good(mem_map_page(s, v, page, FALSE), [w EXCEPT ![v] = page], lev2)
<1> DEFINE m == Step3(s, v).s
           t == Step3(s, v).table
           i == pt_index(v)
           n == mem_map_page(s, v, page, FALSE)
<1>1. s \in State /\ Tree(s, lev) /\ Right(s, w) /\ page \in Nat
  BY Numbers, IndexRange DEF Good, Tree
<1>2. n = Put(m, t, i, Entry(page)) /\ ~m.short /\ m \in State
  <2>0. n = Put(m, t, i, Entry(page))
    BY <1>1, MapPageIsPut
  <2>1. m \in State
    BY <1>1, StepTypes
  <2>2. n.short = m.short
    BY <1>1, MapPageTypes
  <2> QED
    BY <2>0, <2>1, <2>2, Zenon
<1>3. /\ \E lev2 : Keeps(s, m, lev2)
      /\ E4(m, v) # Zero /\ E3(m, v) # Zero /\ E2(m, v) # Zero /\ E2(m, v).addr = t
  BY <1>1, <1>2, ThreeSteps
<1>4. PICK lev2 : Keeps(s, m, lev2)
  BY <1>3
<1> HIDE DEF m, t, n
<1>5. Tree(m, lev2) /\ m.main = s.main /\ \A u \in Virtual : Look(m, u) = Look(s, u)
  BY <1>4 DEF Keeps
<1>6. Leads1(m, v, t)
  <2>1. ~Look(m, v).big
    BY <1>5
  <2>2. ~E2(m, v).big
    BY <1>3, <2>1 DEF Look
  <2> QED
    BY <1>3, <2>2 DEF Leads1
<1>7. Written(m, n, t, i, Entry(page)) /\ n.main = m.main
  <2>1. Entry(page) \in Entries
    BY <1>1, EntryFacts
  <2> QED
    BY <1>2, <2>1, MapPageWrites, PutFacts
<1>8. \/ page \in (Virtual \ BootPages) \ MainPages
      \/ /\ page \in MainPages \ n.main
         /\ \A u \in TablesOf(m), j \in Indices : m.mem[<<u, j>>].addr # page
  <2>1. ASSUME page \in MainPages \ s.main,
               \A u \in TablesOf(s), j \in Indices : s.mem[<<u, j>>].addr # page,
               NEW u \in TablesOf(m), NEW j \in Indices, m.mem[<<u, j>>].addr = page
        PROVE  FALSE
    <3>1. u \in TablesOf(s) /\ s.mem[<<u, j>>] = m.mem[<<u, j>>]
      BY <1>4, <2>1 DEF Keeps, NoneNew
    <3> QED
      BY <2>1, <3>1
  <2> QED
    BY <1>5, <1>7, <2>1
<1>9. /\ Tree(n, lev2) /\ Look(n, v) = [page |-> page, big |-> FALSE]
      /\ \A u \in Virtual : u # v => Look(n, u) = Look(m, u)
  BY <1>5, <1>6, <1>7, <1>8, Written4k
<1>10. Right(n, [w EXCEPT ![v] = page])
  <2> DEFINE w2 == [w EXCEPT ![v] = page]
  <2>1. w2[v] = page /\ \A u \in Virtual : u # v => w2[u] = w[u]
    BY DEF Wants
  <2> HIDE DEF w2
  <2>2. Look(n, v).page = w2[v] /\ ~Look(n, v).big
    BY <1>9, <2>1
  <2>3. ASSUME NEW u \in Virtual, u # v
        PROVE  Look(n, u).page = w2[u] /\ (Look(n, u).big => w2[u] = u /\ u \in BigPages)
    <3>1. Look(n, u) = Look(s, u) /\ w2[u] = w[u]
      BY <1>5, <1>9, <2>1, <2>3
    <3> QED
      BY <1>1, <3>1 DEF Right
  <2>4. Right(n, w2)
    BY <2>2, <2>3 DEF Right
  <2> QED
    BY <2>4 DEF w2
<1> QED
  BY <1>9, <1>10 DEF Good, n

\* A 4K page inside a 2M page that maps the address already.
LEMMA PlaceInside ==
  ASSUME NEW s, NEW w \in Wants, NEW lev, Good(s, w, lev), NEW v \in Virtual, Look(s, v).big,
         ~mem_map_page(s, v, v, FALSE).short
  PROVE  \E lev2 : Good(mem_map_page(s, v, v, FALSE), [w EXCEPT ![v] = v], lev2)
<1> DEFINE m == Step3(s, v).s
           t == Step3(s, v).table
           i == pt_index(v)
           n == mem_map_page(s, v, v, FALSE)
<1>1. s \in State /\ Tree(s, lev) /\ Right(s, w) /\ v \in Nat
  BY IndexRange DEF Good, Tree
<1>2. n = Put(m, t, i, Entry(v)) /\ ~m.short /\ m \in State
  <2>0. n = Put(m, t, i, Entry(v))
    BY <1>1, MapPageIsPut
  <2>1. m \in State
    BY <1>1, StepTypes
  <2>2. n.short = m.short
    BY <1>1, MapPageTypes
  <2> QED
    BY <2>0, <2>1, <2>2, Zenon
<1>3. /\ \E lev2 : Keeps(s, m, lev2)
      /\ E4(m, v) # Zero /\ E3(m, v) # Zero /\ E2(m, v) # Zero /\ E2(m, v).addr = t
  BY <1>1, <1>2, ThreeSteps
<1>4. PICK lev2 : Keeps(s, m, lev2)
  BY <1>3
<1> HIDE DEF m, t, n
<1>5. Tree(m, lev2) /\ \A u \in Virtual : Look(m, u) = Look(s, u)
  BY <1>4 DEF Keeps
<1>6. t \notin TablesOf(m)
  <2>1. E2(m, v).big
    BY <1>3, <1>5 DEF Look
  <2> QED
    BY <1>3, <1>5, <2>1, WalkDown
<1>7. Written(m, n, t, i, Entry(v))
  <2>1. Entry(v) \in Entries
    BY <1>1, EntryFacts
  <2> QED
    BY <1>2, <2>1, MapPageWrites
<1>8. Tree(n, lev2) /\ \A u \in Virtual : Look(n, u) = Look(s, u)
  BY <1>5, <1>6, <1>7, WrittenOutside
<1>9. [w EXCEPT ![v] = v] = w
  <2>1. w[v] = v
    BY <1>1 DEF Right
  <2> QED
    BY <2>1 DEF Wants
<1>10. Right(n, w)
  BY <1>1, <1>8 DEF Right
<1> QED
  BY <1>8, <1>9, <1>10 DEF Good, n

\* The inductive invariant, of the tables s and the ghost w: until a page manager
\* runs out, the tables are a tree with one entry for every page that was
\* lent, and every address leads to its page.
Sound(s, w) == s \in State /\ w \in Wants /\ (~s.short => \E lev : Good(s, w, lev))

\* One page of mem_map_range_4k.
LEMMA Sound4k ==
  ASSUME NEW s, NEW w, Sound(s, w), NEW v \in Virtual, v \notin MainPages
  PROVE  /\ Sound(mem_map_page(s, v, v, FALSE), [w EXCEPT ![v] = v])
         /\ mem_map_page(s, v, v, FALSE).main = s.main
<1> DEFINE n == mem_map_page(s, v, v, FALSE)
           w2 == [w EXCEPT ![v] = v]
<1>2. s \in State /\ w \in Wants /\ v \in Nat
  BY IndexRange DEF Sound
<1>3. n \in State /\ (s.short => n.short) /\ n.main = s.main
  BY <1>2, MapPageTypes
<1>4. w2 \in Wants
  BY <1>2 DEF Wants
<1>5. ASSUME ~n.short PROVE \E lev : Good(n, w2, lev)
  <2>1. PICK lev : Good(s, w, lev)
    BY <1>3, <1>5 DEF Sound
  <2> HIDE DEF w2
  <2>2. CASE Look(s, v).big
    BY <1>2, <1>5, <2>1, <2>2, PlaceInside DEF w2
  <2>3. CASE ~Look(s, v).big
    <3>1. v \notin BootPages
      BY <2>1, <2>3, BootLevels DEF Good
    <3>2. v \in (Virtual \ BootPages) \ MainPages
      BY <3>1
    <3> QED
      BY <1>2, <1>5, <2>1, <2>3, <3>2, Place4k DEF w2
  <2> QED
    BY <2>2, <2>3
<1>6. Sound(n, w2)
  <2> HIDE DEF n, w2
  <2> QED
    BY <1>3, <1>4, <1>5 DEF Sound
<1> QED
  BY <1>3, <1>6

\* A page of the main page manager, and what is left of it.
LEMMA PageOfMain ==
  ASSUME NEW s \in State
  PROVE  LET a == AllocateMain(s)
         IN  /\ a.page = NextPage(s.main) /\ a.page \in Nat /\ a.page \in Virtual \cup MainPages /\ a.s \in State
             /\ a.s.low = s.low /\ a.s.mem = s.mem /\ a.s.main = s.main \ {a.page}
             /\ s.short => a.s.short
             /\ ~a.s.short => ~s.short /\ a.page \in s.main
<1> DEFINE page == NextPage(s.main)
           a == AllocateMain(s)
<1>1. /\ s.mem \in [Frames \X Indices -> Entries] /\ s.low \in SUBSET LowPages
      /\ s.main \in SUBSET MainPages /\ s.short \in BOOLEAN
  BY DEF State
<1>2. page \in Nat /\ (s.main # {} => page \in s.main) /\ (s.main = {} => page = 0)
  <2>1. s.main \in SUBSET Nat
    BY <1>1, Numbers
  <2> QED
    BY <2>1, MinOfNaturals DEF NextPage
<1>3. 0 \in Virtual
  BY Numbers DEF BootPages
<1>4. a.page = page /\ a.s = [s EXCEPT !.main = s.main \ {page}, !.short = s.short \/ s.main = {}]
  BY DEF AllocateMain
<1>0. page = NextPage(s.main)
  OBVIOUS
<1> HIDE DEF page, a
<1>5. /\ a.s \in State /\ a.s.low = s.low /\ a.s.mem = s.mem /\ a.s.main = s.main \ {page}
      /\ a.s.short = (s.short \/ s.main = {})
  BY <1>1, <1>4 DEF State
<1>6. page \in Virtual \cup MainPages
  BY <1>1, <1>2, <1>3
<1> QED
  BY <1>0, <1>1, <1>2, <1>4, <1>5, <1>6 DEF a

\* One page of mem_allocate_range, or a page fault.
LEMMA SoundFresh ==
  ASSUME NEW s, NEW w, Sound(s, w), NEW v \in Virtual, ~s.short => ~Look(s, v).big
  PROVE  /\ Sound(MapFresh(s, v), [w EXCEPT ![v] = NextPage(s.main)])
         /\ MapFresh(s, v).main = s.main \ {NextPage(s.main)}
<1> DEFINE a == AllocateMain(s)
           p == a.page
           m == a.s
           n == mem_map_page(m, v, p, FALSE)
           w2 == [w EXCEPT ![v] = p]
<1>1. MapFresh(s, v) = n
  BY DEF MapFresh
<1>2. s \in State /\ w \in Wants /\ v \in Nat
  BY IndexRange DEF Sound
<1>3. /\ p = NextPage(s.main) /\ p \in Nat /\ p \in Virtual \cup MainPages /\ m \in State
      /\ m.low = s.low /\ m.mem = s.mem /\ m.main = s.main \ {p}
      /\ s.short => m.short
      /\ ~m.short => ~s.short /\ p \in s.main
  BY <1>2, PageOfMain
<1> HIDE DEF m, p
<1>4. n \in State /\ (m.short => n.short) /\ n.main = m.main
  BY <1>3, MapPageTypes
<1>5. w2 \in Wants
  BY <1>2, <1>3 DEF Wants
<1>6. ASSUME ~n.short PROVE \E lev : Good(n, w2, lev)
  <2>1. ~s.short /\ p \in s.main /\ p \in MainPages
    BY <1>2, <1>3, <1>4, <1>6 DEF State
  <2>2. PICK lev : Good(s, w, lev)
    BY <2>1 DEF Sound
  <2>3. ~Look(s, v).big
    BY <2>1
  <2> HIDE DEF w2
  <2>4. Written(s, m, 0, 0, Zero) /\ 0 \notin TablesOf(s)
    <3>1. 0 \notin TablesOf(s)
      BY <1>2, TableFacts
    <3> QED
      BY <1>3, <3>1 DEF Written
  <2>5. Tree(m, lev) /\ \A u \in Virtual : Look(m, u) = Look(s, u)
    BY <2>2, <2>4, WrittenOutside DEF Good
  <2>6. Good(m, w, lev)
    BY <2>2, <2>5 DEF Good, Right
  <2>7. \A u \in TablesOf(m), j \in Indices : m.mem[<<u, j>>].addr # p
    <3>1. TablesOf(m) = TablesOf(s)
      BY <1>3 DEF TablesOf
    <3>2. Tree(s, lev)
      BY <2>2 DEF Good
    <3>3. ASSUME NEW u \in TablesOf(s), NEW j \in Indices PROVE s.mem[<<u, j>>].addr # p
      BY <2>1, <3>2, FreeUnused
    <3> QED
      BY <1>3, <3>1, <3>3
  <2>8. p \in MainPages \ m.main
    BY <1>3, <2>1
  <2>9. ~Look(m, v).big
    BY <2>3, <2>5
  <2> QED
    BY <1>2, <1>6, <2>6, <2>7, <2>8, <2>9, Place4k DEF w2
<1>7. Sound(n, w2)
  <2> HIDE DEF n, w2
  <2> QED
    BY <1>4, <1>5, <1>6 DEF Sound
<1> HIDE DEF n
<1> QED
  BY <1>1, <1>3, <1>4, <1>7

\* The addresses of a 2M page.
LEMMA Block ==
  ASSUME NEW m \in Nat \ {0}, NEW k \in Nat, NEW q \in Nat, NEW r \in 0..(m - 1)
  PROVE  (q = k) <=> (m * q + r \in (m * k)..(m * k + m - 1))
<1>1. m * k \in Nat /\ m * q \in Nat
  OBVIOUS
<1>2. ASSUME q = k PROVE m * q + r \in (m * k)..(m * k + m - 1)
  <2>1. m * q = m * k
    BY <1>2
  <2> HIDE <1>2
  <2> QED
    BY <1>1, <2>1
<1>3. ASSUME q > k PROVE m * q + r > m * k + m - 1
  <2>1. PICK d \in Nat : q = k + 1 + d
    BY <1>3
  <2>2. m * q = m * k + m + m * d /\ m * d \in Nat
    BY <2>1
  <2> QED
    BY <1>1, <2>2
<1>4. ASSUME q < k PROVE m * q + r < m * k
  <2>1. PICK d \in Nat : k = q + 1 + d
    BY <1>4
  <2>2. m * k = m * q + m + m * d /\ m * d \in Nat
    BY <2>1
  <2> QED
    BY <1>1, <2>2
<1>5. q = k \/ q > k \/ q < k
  OBVIOUS
<1>6. /\ q > k => m * q + r \notin (m * k)..(m * k + m - 1)
      /\ q < k => m * q + r \notin (m * k)..(m * k + m - 1)
  BY <1>1, <1>3, <1>4
<1> QED
  BY <1>2, <1>5, <1>6

\* One page of mem_map_range_2m.
LEMMA Sound2m ==
  ASSUME NEW s, NEW w, Sound(s, w), NEW v \in Virtual, v % PT = 0, v \notin MainPages,
         v..(v + PT - 1) \subseteq BigPages
  PROVE  /\ Sound(mem_map_page(s, v, v, TRUE),
                  [u \in Virtual |-> IF u \in v..(v + PT - 1) THEN u ELSE w[u]])
         /\ mem_map_page(s, v, v, TRUE).main = s.main
<1> DEFINE m == Step2(s, v).s
           t == Step2(s, v).table
           i == pdt_index(v)
           n == mem_map_page(s, v, v, TRUE)
           w2 == [u \in Virtual |-> IF u \in v..(v + PT - 1) THEN u ELSE w[u]]
<1>2. s \in State /\ w \in Wants /\ v \in Nat /\ v - (v % PT) = v
  BY IndexRange DEF Sound
<1>3. BigEntry(v) \in Entries
  BY <1>2, EntryFacts
<1>4. n = Put(m, t, i, BigEntry(v))
  <2>1. n = Put(m, t, i, BigEntry(v - (v % PT)))
    BY <1>2, MapPageIsPut
  <2> QED
    BY <1>2, <2>1
<1>5. m \in State /\ (s.short => m.short) /\ m.main = s.main
  BY <1>2, StepTypes
<1>6. n \in State /\ n.short = m.short /\ n.main = m.main
  <2> HIDE DEF m, t, i, n
  <2>1. /\ Put(m, t, i, BigEntry(v)) \in State /\ Put(m, t, i, BigEntry(v)).short = m.short
        /\ Put(m, t, i, BigEntry(v)).main = m.main
    BY <1>3, <1>5, PutFacts
  <2> QED
    BY <1>4, <2>1, Zenon
<1>7. w2 \in Wants
  BY <1>2 DEF Wants
<1>8. ASSUME ~n.short PROVE \E lev : Good(n, w2, lev)
  <2>1. ~m.short /\ ~s.short
    BY <1>5, <1>6, <1>8, Zenon
  <2>2. PICK lev : Good(s, w, lev)
    BY <2>1 DEF Sound
  <2>3. Tree(s, lev) /\ Right(s, w)
    BY <2>2 DEF Good
  <2>4. (\E lev2 : Keeps(s, m, lev2)) /\ Leads2(m, v, t)
    BY <2>1, <2>3, TwoSteps
  <2>5. PICK lev2 : Keeps(s, m, lev2)
    BY <2>4
  <2>6. Tree(m, lev2) /\ \A u \in Virtual : Look(m, u) = Look(s, u)
    BY <2>5 DEF Keeps
  <2> HIDE DEF m, t, n
  <2>7. Written(m, n, t, i, BigEntry(v))
    BY <1>3, <1>4, <1>5, MapPageWrites
  <2>8. /\ Tree(n, lev2)
        /\ \A u \in Virtual : Look(n, u) = IF u \div PT = v \div PT
                                             THEN [page |-> u, big |-> TRUE] ELSE Look(m, u)
    BY <2>4, <2>6, <2>7, Written2m
  <2>9. ASSUME NEW u \in Virtual
        PROVE  (u \div PT = v \div PT) <=> (u \in v..(v + PT - 1))
    <3> DEFINE q == u \div PT
               k == v \div PT
               r == pt_index(u)
    <3>1. /\ u = PT * q + r /\ r \in 0..(PT - 1) /\ v = PT * k + 0 /\ PT \in Nat \ {0}
          /\ q \in Nat /\ k \in Nat
      BY IndexRange, Division, Numbers DEF pt_index
    <3> HIDE DEF q, k, r
    <3>2. PT * k = v
      <4>1. PT * k \in Nat
        BY <3>1
      <4> QED
        BY <3>1, <4>1
    <3>3. (q = k) <=> (PT * q + r \in (PT * k)..(PT * k + PT - 1))
      BY <3>1, Block
    <3>4. (q = k) <=> (u \in v..(v + PT - 1))
      BY <3>1, <3>2, <3>3, Zenon
    <3> QED
      BY <3>4 DEF q, k
  <2>10. \A u \in Virtual : w2[u] = IF u \in v..(v + PT - 1) THEN u ELSE w[u]
    OBVIOUS
  <2> HIDE DEF w2
  <2>11. ASSUME NEW u \in Virtual
         PROVE  Look(n, u).page = w2[u] /\ (Look(n, u).big => w2[u] = u /\ u \in BigPages)
    <3>1. CASE u \in v..(v + PT - 1)
      <4>1. Look(n, u) = [page |-> u, big |-> TRUE] /\ w2[u] = u
        BY <2>8, <2>9, <2>10, <3>1
      <4> QED
        BY <3>1, <4>1
    <3>2. CASE u \notin v..(v + PT - 1)
      <4>1. Look(n, u) = Look(s, u) /\ w2[u] = w[u]
        BY <2>6, <2>8, <2>9, <2>10, <3>2
      <4> QED
        BY <2>3, <4>1 DEF Right
    <3> QED
      BY <3>1, <3>2
  <2>12. Right(n, w2)
    BY <2>11 DEF Right
  <2> QED
    BY <2>8, <2>12 DEF Good
<1>9. Sound(n, w2)
  <2> HIDE DEF m, n, w2
  <2> QED
    BY <1>6, <1>7, <1>8 DEF Sound
<1> QED
  BY <1>5, <1>6, <1>9

-----------------------------------------------------------------------------
(***************************************************************************)
(* The loops over a range                                                  *)
(***************************************************************************)
\* What holds of a number when it holds of the one before holds up to N.
LEMMA CountUp ==
  ASSUME NEW N \in Nat, NEW T, 0 \in T, \A n \in 1..N : n - 1 \in T => n \in T
  PROVE  \A n \in 0..N : n \in T
<1> DEFINE S == {n \in 0..N : n \notin T}
           Less == {ss \in Nat \X Nat : ss[1] < ss[2]}
<1> SUFFICES ASSUME S # {} PROVE FALSE
  OBVIOUS
<1>1. IsWellFoundedOn(Less, Nat)
  BY NatLessThanWellFounded DEF OpToRel
<1>2. S \in SUBSET Nat
  OBVIOUS
<1> HIDE DEF Less
<1>3. PICK x \in S : \A y \in S : ~(<<y, x>> \in Less)
  BY <1>1, <1>2, WFMin
<1>4. x \in 1..N /\ x - 1 \in 0..N
  OBVIOUS
<1>5. x - 1 \in S
  BY <1>3, <1>4
<1>6. <<x - 1, x>> \in Less
  BY <1>4 DEF Less
<1> QED
  BY <1>3, <1>5, <1>6

\* What a loop of n rounds makes of f, the results after each round.
Loop(s, r, step, how, n, f) ==
  [i \in 0..n |-> IF i = 0 THEN s ELSE Mapping(f[i - 1], r[1] + (i - 1) * step, how)]

\* A loop has results.
LEMMA LoopEnds ==
  ASSUME NEW x, NEW r, NEW step, NEW how, NEW N \in Nat
  PROVE  \E f : f = Loop(x, r, step, how, N, f)
<1> DEFINE L(n, f) == Loop(x, r, step, how, n, f)
           T == {n \in Nat : \E f : f = L(n, f)}
<1>1. 0 \in T
  <2> DEFINE f == [i \in 0..0 |-> x]
  <2>1. f = L(0, f)
    BY DEF Loop
  <2> QED
    BY <2>1
<1>2. ASSUME NEW n \in 1..N, n - 1 \in T PROVE n \in T
  <2>1. PICK f : f = L(n - 1, f)
    BY <1>2
  <2> DEFINE e == Mapping(f[n - 1], r[1] + (n - 1) * step, how)
             g == [i \in 0..n |-> IF i = n THEN e ELSE f[i]]
  <2>2. ASSUME NEW i \in 0..n
        PROVE  g[i] = IF i = 0 THEN x ELSE Mapping(g[i - 1], r[1] + (i - 1) * step, how)
    <3>1. CASE i = n
      <4>1. g[n - 1] = f[n - 1] /\ g[i] = e
        BY <3>1
      <4> QED
        BY <3>1, <4>1
    <3>2. CASE i # n
      <4>1. i \in 0..(n - 1) /\ g[i] = f[i] /\ (i # 0 => g[i - 1] = f[i - 1])
        BY <3>2
      <4>2. f[i] = IF i = 0 THEN x ELSE Mapping(f[i - 1], r[1] + (i - 1) * step, how)
        BY <2>1, <4>1 DEF Loop
      <4> QED
        BY <4>1, <4>2
    <3> QED
      BY <3>1, <3>2
  <2>3. g = L(n, g)
    <3>1. g = [i \in 0..n |-> g[i]]
      OBVIOUS
    <3> HIDE DEF g
    <3> QED
      BY <2>2, <3>1 DEF Loop
  <2> HIDE DEF g
  <2> QED
    BY <2>3
<1> HIDE DEF T
<1>3. \A n \in 0..N : n \in T
  BY <1>1, <1>2, CountUp
<1> QED
  BY <1>3 DEF T


\* The tables y are sound for the ghost w, and m is left of the main pages.
Kept(y, w, m) == Sound(y, w) /\ y.main = m

\* What every round keeps, the loop keeps; G and M are the ghost and the main
\* pages after each round.
LEMMA EachSound ==
  ASSUME NEW s, NEW r, NEW step, NEW how, r[2] \div step \in Nat, NEW G, NEW M,
         Kept(s, G[0], M[0]),
         \A y, i : i \in 1..(r[2] \div step) /\ Kept(y, G[i - 1], M[i - 1]) =>
                     Kept(Mapping(y, r[1] + (i - 1) * step, how), G[i], M[i])
  PROVE  Sound(MapEach(s, r, step, how), G[r[2] \div step])
<1> DEFINE N == r[2] \div step
           f == CHOOSE g : g = Loop(s, r, step, how, N, g)
<1>1. MapEach(s, r, step, how) = f[N]
  BY DEF MapEach, Loop
<1>2. f = Loop(s, r, step, how, N, f)
  <2>1. \E g : g = Loop(s, r, step, how, N, g)
    BY LoopEnds
  <2> QED
    BY <2>1
<1> HIDE DEF f, N
<1>3. \A i \in 0..N : f[i] = IF i = 0 THEN s ELSE Mapping(f[i - 1], r[1] + (i - 1) * step, how)
  BY <1>2 DEF Loop
<1> DEFINE T == {i \in Nat : Kept(f[i], G[i], M[i])}
<1>4. N \in Nat
  BY DEF N
<1>5. 0 \in T
  BY <1>3, <1>4
<1>6. ASSUME NEW n \in 1..N, n - 1 \in T PROVE n \in T
  <2>1. /\ f[n] = Mapping(f[n - 1], r[1] + (n - 1) * step, how)
        /\ Kept(f[n - 1], G[n - 1], M[n - 1])
    BY <1>3, <1>4, <1>6
  <2>2. Kept(Mapping(f[n - 1], r[1] + (n - 1) * step, how), G[n], M[n])
    BY <2>1 DEF N
  <2> QED
    BY <1>4, <2>1, <2>2
<1> HIDE DEF T
<1>7. \A n \in 0..N : n \in T
  BY <1>4, <1>5, <1>6, CountUp
<1>8. Sound(f[N], G[N])
  BY <1>4, <1>7 DEF T, Kept
<1> QED
  BY <1>1, <1>8 DEF N

\* What LeftAfter counts down.
LEMMA LeftCounts ==
  ASSUME NEW free, NEW N \in Nat, NEW left, left = LeftAfter(free, N)
  PROVE  /\ left[0] = free
         /\ \A k \in 1..N : left[k] = left[k - 1] \ {NextPage(left[k - 1])}
<1> DEFINE L(n, f) == [k \in 0..n |-> IF k = 0 THEN free ELSE f[k - 1] \ {NextPage(f[k - 1])}]
           T == {n \in Nat : \E f : f = L(n, f)}
<1>1. 0 \in T
  <2> DEFINE f == [k \in 0..0 |-> free]
  <2>1. f = L(0, f)
    OBVIOUS
  <2> QED
    BY <2>1
<1>2. ASSUME NEW n \in 1..N, n - 1 \in T PROVE n \in T
  <2>1. PICK f : f = L(n - 1, f)
    BY <1>2
  <2> DEFINE e == f[n - 1] \ {NextPage(f[n - 1])}
             g == [k \in 0..n |-> IF k = n THEN e ELSE f[k]]
  <2>2. ASSUME NEW k \in 0..n
        PROVE  g[k] = IF k = 0 THEN free ELSE g[k - 1] \ {NextPage(g[k - 1])}
    <3>1. CASE k = n
      <4>1. g[n - 1] = f[n - 1] /\ g[k] = e
        BY <3>1
      <4> QED
        BY <3>1, <4>1
    <3>2. CASE k # n
      <4>1. k \in 0..(n - 1) /\ g[k] = f[k] /\ (k # 0 => g[k - 1] = f[k - 1])
        BY <3>2
      <4>2. f[k] = IF k = 0 THEN free ELSE f[k - 1] \ {NextPage(f[k - 1])}
        BY <2>1, <4>1
      <4> QED
        BY <4>1, <4>2
    <3> QED
      BY <3>1, <3>2
  <2>3. g = L(n, g)
    <3>1. g = [k \in 0..n |-> g[k]]
      OBVIOUS
    <3> HIDE DEF g
    <3> QED
      BY <2>2, <3>1
  <2> HIDE DEF g
  <2> QED
    BY <2>3
<1> HIDE DEF T
<1>3. N \in T
  <2>1. \A n \in 0..N : n \in T
    BY <1>1, <1>2, CountUp
  <2> QED
    BY <2>1
<1>4. left = CHOOSE f : f = L(N, f)
  BY DEF LeftAfter
<1>5. left = L(N, left)
  BY <1>3, <1>4 DEF T
<1>6. left[0] = free
  BY <1>5
<1>7. ASSUME NEW k \in 1..N PROVE left[k] = left[k - 1] \ {NextPage(left[k - 1])}
  <2>1. k \in 0..N /\ k # 0
    OBVIOUS
  <2> QED
    BY <1>5, <2>1
<1> QED
  BY <1>6, <1>7

\* The pages of a range are addresses.
LEMMA RangeFacts ==
  ASSUME NEW r \in Ranges4k \cup Mapped2m \cup Allocated
  PROVE  /\ r[1] \in Nat /\ r[2] \in Nat \ {0} /\ RangePages(r) \subseteq Virtual
         /\ Virtual \subseteq Nat
         /\ \A i \in 1..r[2] : r[1] + (i - 1) * 1 \in RangePages(r)
<1> DEFINE top == PT * (PDT * (PDPT * PML4T)) - 1
<1>1. /\ r[2] \in Nat \ {0} /\ r[1] \in Virtual /\ r[1] + r[2] - 1 \in Virtual
      /\ Virtual \subseteq Nat
  BY PagingAssumption, IndexRange
<1>2. Virtual = 0..top
  BY DEF Virtual
<1> HIDE DEF top
<1>3. top \in Int
  <2>1. PDPT * PML4T \in Nat
    BY Numbers
  <2>2. PDT * (PDPT * PML4T) \in Nat
    BY <2>1, Numbers
  <2>3. PT * (PDT * (PDPT * PML4T)) \in Nat
    BY <2>2, Numbers
  <2> QED
    BY <2>3 DEF top
<1>4. RangePages(r) \subseteq Virtual
  BY <1>1, <1>2, <1>3 DEF RangePages
<1>5. ASSUME NEW i \in 1..r[2] PROVE r[1] + (i - 1) * 1 \in RangePages(r)
  <2> DEFINE b == r[1]
             n == r[2]
  <2>1. b \in Nat /\ n \in Nat /\ i \in 1..n /\ RangePages(r) = b..(b + n - 1)
    BY <1>1 DEF RangePages
  <2> HIDE DEF b, n
  <2>2. b + (i - 1) * 1 \in b..(b + n - 1)
    BY <2>1
  <2> QED
    BY <2>1, <2>2 DEF b
<1> QED
  BY <1>1, <1>4, <1>5

\* A number divided by 1.
LEMMA ByOne ==
  ASSUME NEW n \in Nat
  PROVE  n \div 1 = n
  OBVIOUS

\* A multiple leaves no remainder.
LEMMA Multiple ==
  ASSUME NEW m \in Nat \ {0}, NEW k \in Nat
  PROVE  (m * k) % m = 0
<1> DEFINE a == m * k
           q == a \div m
           z == a % m
<1>1. a \in Nat
  OBVIOUS
<1>2. q \in Nat /\ z \in 0..(m - 1) /\ a = m * q + z
  BY <1>1, Division
<1> HIDE DEF q, z
<1>3. m * q + z \in (m * k)..(m * k + m - 1)
  BY <1>1, <1>2
<1>4. q = k
  BY <1>2, <1>3, Block
<1>5. m * q = a
  BY <1>4
<1>6. z = 0
  <2> HIDE DEF a
  <2> QED
    BY <1>1, <1>2, <1>5
<1> QED
  BY <1>6 DEF z

\* mem_map_range_4k maps all pages of the range.
LEMMA Range4kSound ==
  ASSUME NEW r \in Ranges4k, NEW s, NEW w, Sound(s, w)
  PROVE  Sound(MapEach(s, r, 1, "4k"),
               [u \in Virtual |-> IF u \in RangePages(r) THEN u ELSE w[u]])
<1> DEFINE n == r[2]
           b == r[1]
           W(i) == [u \in Virtual |-> IF u \in b..(b + i - 1) THEN u ELSE w[u]]
           G == [i \in 0..n |-> W(i)]
           M == [i \in 0..n |-> s.main]
<1>1. /\ b \in Nat /\ n \in Nat /\ RangePages(r) \subseteq Virtual
      /\ \A i \in 1..n : b + (i - 1) * 1 \in RangePages(r)
      /\ Virtual \subseteq Nat
  BY RangeFacts
<1>2. RangePages(r) \cap MainPages = {}
  BY PagingAssumption
<1>3. r[2] \div 1 = n
  BY <1>1, ByOne
<1>4. RangePages(r) = b..(b + n - 1)
  BY DEF RangePages
<1> HIDE DEF n, b
<1>5. Kept(s, G[0], M[0])
  <2>1. W(0) = w
    <3>1. w \in Wants
      BY DEF Sound
    <3>2. ASSUME NEW u \in Virtual PROVE W(0)[u] = w[u]
      BY <1>1
    <3> QED
      BY <3>1, <3>2 DEF Wants
  <2>2. G[0] = W(0) /\ M[0] = s.main
    BY <1>1
  <2> QED
    BY <2>1, <2>2 DEF Kept
<1>6. ASSUME NEW y, NEW i \in 1..n, Kept(y, G[i - 1], M[i - 1])
      PROVE  Kept(Mapping(y, b + (i - 1) * 1, "4k"), G[i], M[i])
  <2> DEFINE v == b + (i - 1) * 1
  <2>1. v \in Virtual /\ v \notin MainPages
    BY <1>1, <1>2
  <2>2. G[i - 1] = W(i - 1) /\ G[i] = W(i) /\ M[i] = s.main /\ M[i - 1] = s.main
    BY <1>1
  <2>3. W(i) = [W(i - 1) EXCEPT ![v] = v]
    <3>1. ASSUME NEW u \in Virtual
          PROVE  (u \in b..(b + i - 1)) <=> (u \in b..(b + (i - 1) - 1) \/ u = v)
      BY <1>1
    <3> HIDE DEF v
    <3> QED
      BY <2>1, <3>1
  <2> HIDE DEF v, W, G, M
  <2>4. /\ Sound(mem_map_page(y, v, v, FALSE), [W(i - 1) EXCEPT ![v] = v])
        /\ mem_map_page(y, v, v, FALSE).main = y.main
    BY <1>6, <2>1, <2>2, Sound4k DEF Kept
  <2>5. Kept(Mapping(y, v, "4k"), G[i], M[i])
    BY <1>6, <2>2, <2>3, <2>4 DEF Kept, Mapping
  <2> QED
    BY <2>5 DEF v
<1>7. G[n] = [u \in Virtual |-> IF u \in RangePages(r) THEN u ELSE w[u]]
  BY <1>1, <1>4
<1> HIDE DEF G, M, W
<1>8. Sound(MapEach(s, r, 1, "4k"), G[n])
  BY <1>1, <1>3, <1>5, <1>6, EachSound DEF b
<1> QED
  BY <1>7, <1>8

\* mem_allocate_range maps its pages to the next ones of the main memory.
LEMMA AllocateSound ==
  ASSUME NEW r \in Allocated, NEW s, NEW w, Sound(s, w)
  PROVE  Sound(MapEach(s, r, 1, "fresh"),
               [u \in Virtual |->
                  IF u \in RangePages(r) THEN NextPage(LeftAfter(s.main, r[2])[u - r[1]])
                  ELSE w[u]])
<1> DEFINE n == r[2]
           b == r[1]
           M == LeftAfter(s.main, n)
           W(i) == [u \in Virtual |-> IF u \in b..(b + i - 1) THEN NextPage(M[u - b]) ELSE w[u]]
           G == [i \in 0..n |-> W(i)]
<1>1. /\ b \in Nat /\ n \in Nat /\ RangePages(r) \subseteq Virtual
      /\ \A i \in 1..n : b + (i - 1) * 1 \in RangePages(r)
      /\ Virtual \subseteq Nat
  BY RangeFacts
<1>2. RangePages(r) \cap BigPages = {}
  BY PagingAssumption
<1>3. r[2] \div 1 = n
  BY <1>1, ByOne
<1>4. RangePages(r) = b..(b + n - 1)
  BY DEF RangePages
<1>5. G[n] = [u \in Virtual |->
                IF u \in RangePages(r) THEN NextPage(LeftAfter(s.main, r[2])[u - r[1]])
                ELSE w[u]]
  BY <1>1, <1>4
<1> HIDE DEF n, b
<1>6. /\ M[0] = s.main
      /\ \A k \in 1..n : M[k] = M[k - 1] \ {NextPage(M[k - 1])}
  <2>1. n \in Nat
    BY <1>1
  <2>2. M = LeftAfter(s.main, n)
    OBVIOUS
  <2> HIDE DEF M
  <2> QED
    BY <2>1, <2>2, LeftCounts
<1> HIDE DEF M
<1>7. Kept(s, G[0], M[0])
  <2>1. W(0) = w
    <3>1. w \in Wants
      BY DEF Sound
    <3>2. ASSUME NEW u \in Virtual PROVE W(0)[u] = w[u]
      BY <1>1
    <3> QED
      BY <3>1, <3>2 DEF Wants
  <2>2. G[0] = W(0) /\ M[0] = s.main
    BY <1>1, <1>6
  <2> QED
    BY <2>1, <2>2 DEF Kept
<1>8. ASSUME NEW y, NEW i \in 1..n, Kept(y, G[i - 1], M[i - 1])
      PROVE  Kept(Mapping(y, b + (i - 1) * 1, "fresh"), G[i], M[i])
  <2> DEFINE v == b + (i - 1) * 1
  <2>1. v \in Virtual /\ v \notin BigPages /\ v - b = i - 1
    <3>1. v - b = i - 1
      BY <1>1
    <3>2. v \in RangePages(r)
      BY <1>1
    <3> QED
      BY <1>1, <1>2, <3>1, <3>2
  <2>2. G[i - 1] = W(i - 1) /\ G[i] = W(i)
    BY <1>1
  <2>3. M[i] = M[i - 1] \ {NextPage(M[i - 1])}
    BY <1>6
  <2>4. W(i) = [W(i - 1) EXCEPT ![v] = NextPage(M[i - 1])]
    <3>1. ASSUME NEW u \in Virtual
          PROVE  (u \in b..(b + i - 1)) <=> (u \in b..(b + (i - 1) - 1) \/ u = v)
      BY <1>1
    <3>2. v \notin b..(b + (i - 1) - 1)
      BY <1>1
    <3> HIDE DEF v
    <3> QED
      BY <2>1, <3>1, <3>2
  <2> HIDE DEF v, W, G
  <2>5. Sound(y, W(i - 1)) /\ y.main = M[i - 1]
    BY <1>8, <2>2 DEF Kept
  <2>6. ~y.short => ~Look(y, v).big
    BY <2>1, <2>5 DEF Sound, Good, Right
  <2>7. /\ Sound(MapFresh(y, v), [W(i - 1) EXCEPT ![v] = NextPage(y.main)])
        /\ MapFresh(y, v).main = y.main \ {NextPage(y.main)}
    BY <2>1, <2>5, <2>6, SoundFresh
  <2>8. Kept(Mapping(y, v, "fresh"), G[i], M[i])
    BY <2>2, <2>3, <2>4, <2>5, <2>7 DEF Kept, Mapping
  <2> QED
    BY <2>8 DEF v
<1> HIDE DEF G, W
<1>9. Sound(MapEach(s, r, 1, "fresh"), G[n])
  BY <1>1, <1>3, <1>7, <1>8, EachSound DEF b
<1> QED
  BY <1>5, <1>9

\* What mem_map_range_2m maps begins and ends between 2M pages.
LEMMA Aligned ==
  ASSUME NEW r \in Mapped2m
  PROVE  r[1] % PT = 0 /\ r[2] % PT = 0
<1>1. PICK q \in Ranges2m : r = Whole2m(q)
  BY DEF Mapped2m
<1> DEFINE n == q[2]
           k == (n + PT - 1) \div PT
<1>2. q[1] % PT = 0 /\ n \in Nat \ {0} /\ PT \in Nat \ {0}
  BY PagingAssumption, Numbers
<1>3. r[1] = q[1] /\ r[2] = PT * k
  BY <1>1 DEF Whole2m
<1>4. k \in Nat
  <2> HIDE DEF n
  <2>1. n + PT - 1 \in Nat
    BY <1>2
  <2> QED
    BY <1>2, <2>1, Division
<1> HIDE DEF k
<1>5. (PT * k) % PT = 0
  BY <1>2, <1>4, Multiple
<1> QED
  BY <1>2, <1>3, <1>5

\* mem_map_range_2m maps all pages of the range.
LEMMA Range2mSound ==
  ASSUME NEW r \in Mapped2m, NEW s, NEW w, Sound(s, w)
  PROVE  Sound(MapEach(s, r, PT, "2m"),
               [u \in Virtual |-> IF u \in RangePages(r) THEN u ELSE w[u]])
<1> DEFINE N == r[2] \div PT
           b == r[1]
           a == b \div PT
           W(i) == [u \in Virtual |-> IF u \in b..(b + i * PT - 1) THEN u ELSE w[u]]
           G == [i \in 0..N |-> W(i)]
           M == [i \in 0..N |-> s.main]
<1>1. /\ b \in Nat /\ r[2] \in Nat /\ RangePages(r) \subseteq Virtual
      /\ RangePages(r) \subseteq BigPages /\ PT \in Nat \ {0} /\ Virtual \subseteq Nat
  BY RangeFacts, Numbers DEF BigPages
<1>2. RangePages(r) \cap MainPages = {} /\ b % PT = 0 /\ r[2] % PT = 0
  <2>1. RangePages(r) \cap MainPages = {}
    BY PagingAssumption
  <2> QED
    BY <2>1, Aligned
<1>3. N \in Nat /\ a \in Nat /\ b = PT * a + 0 /\ r[2] = PT * N + 0
  BY <1>1, <1>2, Division
<1>4. RangePages(r) = b..(b + r[2] - 1)
  BY DEF RangePages
<1> HIDE DEF a, N, b
<1>5. b = PT * a /\ r[2] = PT * N /\ N * PT = PT * N
  <2>1. PT * a \in Nat /\ PT * N \in Nat
    BY <1>1, <1>3
  <2> QED
    BY <1>1, <1>3, <2>1
<1>6. Kept(s, G[0], M[0])
  <2>1. W(0) = w
    <3>1. w \in Wants
      BY DEF Sound
    <3>2. ASSUME NEW u \in Virtual PROVE W(0)[u] = w[u]
      BY <1>1
    <3> QED
      BY <3>1, <3>2 DEF Wants
  <2>2. G[0] = W(0) /\ M[0] = s.main
    BY <1>3
  <2> QED
    BY <2>1, <2>2 DEF Kept
<1>7. ASSUME NEW y, NEW i \in 1..N, Kept(y, G[i - 1], M[i - 1])
      PROVE  Kept(Mapping(y, b + (i - 1) * PT, "2m"), G[i], M[i])
  <2> DEFINE v == b + (i - 1) * PT
  <2>1. a + (i - 1) \in Nat
    BY <1>3
  <2>2. v = PT * (a + (i - 1))
    BY <1>1, <1>3, <1>5
  <2>3. v % PT = 0
    BY <1>1, <2>1, <2>2, Multiple
  <2>4. (i - 1) * PT \in Nat /\ i * PT = (i - 1) * PT + PT
    BY <1>1
  <2>5. v..(v + PT - 1) \subseteq RangePages(r) /\ v \in RangePages(r)
    <3>1. PICK d \in Nat : N = (i - 1) + 1 + d
      BY <1>3
    <3>2. PT * N = (i - 1) * PT + PT + PT * d /\ PT * d \in Nat
      BY <1>1, <3>1
    <3>3. v \in Nat /\ v >= b /\ v + PT - 1 <= b + r[2] - 1
      BY <1>1, <1>5, <2>4, <3>2
    <3> HIDE DEF v
    <3> QED
      BY <1>1, <1>4, <3>3
  <2>6. G[i - 1] = W(i - 1) /\ G[i] = W(i) /\ M[i] = s.main /\ M[i - 1] = s.main
    BY <1>3
  <2>7. W(i) = [u \in Virtual |-> IF u \in v..(v + PT - 1) THEN u ELSE W(i - 1)[u]]
    <3>1. ASSUME NEW u \in Virtual
          PROVE  (u \in b..(b + i * PT - 1)) <=>
                   (u \in b..(b + (i - 1) * PT - 1) \/ u \in v..(v + PT - 1))
      <4> DEFINE k == (i - 1) * PT
      <4>1. k \in Nat /\ i * PT = k + PT /\ v = b + k /\ u \in Nat
        BY <1>1, <2>4
      <4> HIDE DEF k, v
      <4>2. (u \in b..(b + (k + PT) - 1)) <=> (u \in b..(b + k - 1) \/ u \in v..(v + PT - 1))
        BY <1>1, <4>1
      <4> QED
        BY <4>1, <4>2 DEF k
    <3> HIDE DEF v
    <3> QED
      BY <3>1
  <2> HIDE DEF v, W, G, M
  <2>8. v \in Virtual /\ v \notin MainPages /\ v..(v + PT - 1) \subseteq BigPages
    BY <1>1, <1>2, <2>5
  <2>9. /\ Sound(mem_map_page(y, v, v, TRUE),
                 [u \in Virtual |-> IF u \in v..(v + PT - 1) THEN u ELSE W(i - 1)[u]])
        /\ mem_map_page(y, v, v, TRUE).main = y.main
    <3> DEFINE z == W(i - 1)
    <3>1. Sound(y, z)
      BY <1>7, <2>6 DEF Kept
    <3> HIDE DEF z
    <3>2. /\ Sound(mem_map_page(y, v, v, TRUE),
                   [u \in Virtual |-> IF u \in v..(v + PT - 1) THEN u ELSE z[u]])
          /\ mem_map_page(y, v, v, TRUE).main = y.main
      BY <2>3, <2>8, <3>1, Sound2m
    <3> QED
      BY <3>2 DEF z
  <2>10. Kept(Mapping(y, v, "2m"), G[i], M[i])
    BY <1>7, <2>6, <2>7, <2>9 DEF Kept, Mapping
  <2> QED
    BY <2>10 DEF v
<1>8. G[N] = [u \in Virtual |-> IF u \in RangePages(r) THEN u ELSE w[u]]
  BY <1>3, <1>4, <1>5
<1> HIDE DEF G, M, W
<1>9. Sound(MapEach(s, r, PT, "2m"), G[N])
  BY <1>3, <1>6, <1>7, EachSound DEF N, b
<1> QED
  BY <1>8, <1>9

-----------------------------------------------------------------------------
(***************************************************************************)
(* The theorems                                                            *)
(***************************************************************************)
PagingInv == Sound(pt, wanted)

\* The entries of boot.asm's tables in the beginning.
LEMMA InitEntries ==
  ASSUME Init
  PROVE  /\ pt \in State /\ TablesOf(pt) = {Pml4, Pdpt0, Pdt0} /\ pt.main = MainPages
         /\ ~pt.short
         /\ \A t \in TablesOf(pt), i \in Indices :
              pt.mem[<<t, i>>] = IF i # 0 THEN Zero
                                 ELSE IF t = Pml4 THEN Entry(Pdpt0)
                                 ELSE IF t = Pdpt0 THEN Entry(Pdt0) ELSE BigEntry(0)
<1> DEFINE Cell(c) == CASE c = <<Pml4, 0>> -> Entry(Pdpt0)
                        [] c = <<Pdpt0, 0>> -> Entry(Pdt0)
                        [] c = <<Pdt0, 0>> -> BigEntry(0)
                        [] c[1] \in {Pml4, Pdpt0, Pdt0} /\ c[2] # 0 -> Zero
                        [] OTHER -> Entry(0)
           mem == [c \in Frames \X Indices |-> Cell(c)]
<1>1. pt = [mem |-> mem, low |-> LowPages, main |-> MainPages, short |-> FALSE]
  BY DEF Init
<1>2. /\ Entry(Pdpt0) \in Entries /\ Entry(Pdt0) \in Entries /\ BigEntry(0) \in Entries
      /\ Zero \in Entries /\ Entry(0) \in Entries
  BY EntryFacts DEF Pdpt0, Pdt0
<1>3. ASSUME NEW c \in Frames \X Indices PROVE Cell(c) \in Entries
  <2>1. CASE c = <<Pml4, 0>>
    BY <1>2, <2>1 DEF Pml4, Pdpt0, Pdt0
  <2>2. CASE c = <<Pdpt0, 0>>
    BY <1>2, <2>2 DEF Pml4, Pdpt0, Pdt0
  <2>3. CASE c = <<Pdt0, 0>>
    BY <1>2, <2>3 DEF Pml4, Pdpt0, Pdt0
  <2>4. CASE c # <<Pml4, 0>> /\ c # <<Pdpt0, 0>> /\ c # <<Pdt0, 0>>
    BY <1>2, <2>4
  <2> QED
    BY <2>1, <2>2, <2>3, <2>4
<1>4. mem \in [Frames \X Indices -> Entries]
  BY <1>3
<1>5. ASSUME NEW t \in {Pml4, Pdpt0, Pdt0}, NEW i \in Indices
      PROVE  mem[<<t, i>>] = IF i # 0 THEN Zero
                             ELSE IF t = Pml4 THEN Entry(Pdpt0)
                             ELSE IF t = Pdpt0 THEN Entry(Pdt0) ELSE BigEntry(0)
  <2>1. t \in Frames
    BY Numbers DEF Frames, BootPages, Pml4, Pdpt0, Pdt0
  <2>2. mem[<<t, i>>] = Cell(<<t, i>>)
    BY <2>1
  <2>3. CASE i # 0
    BY <2>2, <2>3
  <2>4. CASE i = 0
    BY <2>2, <2>4 DEF Pml4, Pdpt0, Pdt0
  <2> QED
    BY <2>3, <2>4
<1> HIDE DEF mem
<1>6. pt \in State /\ pt.mem = mem /\ pt.main = MainPages /\ ~pt.short /\ pt.low = LowPages
  BY <1>1, <1>4 DEF State
<1>7. TablesOf(pt) = {Pml4, Pdpt0, Pdt0}
  BY <1>6 DEF TablesOf
<1> QED
  BY <1>5, <1>6, <1>7

\* The tables of boot.asm are sound.
LEMMA InitSound ==
  ASSUME Init
  PROVE  PagingInv
<1> DEFINE lev == [t \in TablesOf(pt) |-> IF t = Pml4 THEN 4 ELSE IF t = Pdpt0 THEN 3 ELSE 2]
<1>1. /\ pt \in State /\ TablesOf(pt) = {Pml4, Pdpt0, Pdt0} /\ pt.main = MainPages
      /\ ~pt.short
      /\ \A t \in TablesOf(pt), i \in Indices :
           pt.mem[<<t, i>>] = IF i # 0 THEN Zero
                              ELSE IF t = Pml4 THEN Entry(Pdpt0)
                              ELSE IF t = Pdpt0 THEN Entry(Pdt0) ELSE BigEntry(0)
  BY InitEntries
<1>2. /\ Entry(Pdpt0).addr = Pdpt0 /\ ~Entry(Pdpt0).big /\ Entry(Pdpt0) # Zero
      /\ Entry(Pdt0).addr = Pdt0 /\ ~Entry(Pdt0).big /\ Entry(Pdt0) # Zero
      /\ BigEntry(0).addr = 0 /\ BigEntry(0).big /\ BigEntry(0) # Zero /\ Zero.addr = -1
  BY EntryFacts DEF Pdpt0, Pdt0
<1>3. /\ 0 \in Virtual /\ 0 \notin MainPages /\ 0 \in BootPages /\ 0 \in Indices /\ 0 % PT = 0
      /\ MainPages \subseteq Nat
  <2>1. 0 \in BootPages
    BY Numbers DEF BootPages
  <2> QED
    BY <2>1, Numbers, ZeroIndices DEF pt_index
<1>4. /\ lev \in [TablesOf(pt) -> 1..4] /\ lev[Pml4] = 4 /\ lev[Pdpt0] = 3 /\ lev[Pdt0] = 2
  BY <1>1 DEF Pml4, Pdpt0, Pdt0
<1> HIDE DEF lev
<1>5. ASSUME NEW t \in TablesOf(pt), NEW i \in Indices PROVE Allowed(pt, lev, t, pt.mem[<<t, i>>])
  <2>1. CASE i # 0
    BY <1>1, <2>1 DEF Allowed
  <2>2. CASE i = 0 /\ t = Pml4
    BY <1>1, <1>2, <1>4, <2>2 DEF Allowed
  <2>3. CASE i = 0 /\ t = Pdpt0
    <3>1. pt.mem[<<t, i>>] = Entry(Pdt0)
      BY <1>1, <2>3 DEF Pml4, Pdpt0
    <3> QED
      BY <1>1, <1>2, <1>4, <2>3, <3>1 DEF Allowed
  <2>4. CASE i = 0 /\ t = Pdt0
    <3>1. pt.mem[<<t, i>>] = BigEntry(0)
      BY <1>1, <2>4 DEF Pml4, Pdpt0, Pdt0
    <3> QED
      BY <1>2, <1>3, <1>4, <2>4, <3>1 DEF Allowed
  <2> QED
    BY <1>1, <2>1, <2>2, <2>3, <2>4
<1>6. Levels(pt, lev)
  BY <1>4, <1>5 DEF Levels
<1>7. Single(pt)
  <2> SUFFICES ASSUME NEW t \in TablesOf(pt), NEW u \in TablesOf(pt), NEW i \in Indices,
                      NEW j \in Indices, pt.mem[<<t, i>>].addr = pt.mem[<<u, j>>].addr,
                      pt.mem[<<t, i>>].addr \in TablesOf(pt) \cup MainPages
               PROVE  t = u /\ i = j
    BY DEF Single
  <2>1. i = 0 /\ j = 0
    <3>1. -1 \notin TablesOf(pt) \cup MainPages
      BY <1>1, <1>3 DEF Pml4, Pdpt0, Pdt0
    <3> QED
      BY <1>1, <1>2, <3>1
  <2>2. ASSUME NEW z \in TablesOf(pt)
        PROVE  pt.mem[<<z, 0>>].addr = IF z = Pml4 THEN 4 ELSE IF z = Pdpt0 THEN 5 ELSE 0
    BY <1>1, <1>2, <1>3 DEF Pml4, Pdpt0, Pdt0
  <2>3. t = u
    BY <1>1, <2>1, <2>2 DEF Pml4, Pdpt0, Pdt0
  <2> QED
    BY <2>1, <2>3
<1>8. Boot(pt)
  BY <1>1, <1>3 DEF Boot, Pml4, Pdpt0, Pdt0
<1>9. Tree(pt, lev)
  BY <1>1, <1>6, <1>7, <1>8 DEF Tree
<1>10. wanted \in Wants /\ \A v \in Virtual : wanted[v] = IF v \in BootPages THEN v ELSE NoPage
  BY DEF Init, Wants
<1>11. ASSUME NEW v \in Virtual, v \in BootPages
       PROVE  Look(pt, v).page = wanted[v] /\ wanted[v] = v /\ v \in BigPages
  <2>1. /\ E4(pt, v) # Zero /\ E3(pt, v) # Zero /\ E2(pt, v) # Zero /\ E2(pt, v).big
        /\ E2(pt, v).addr = 0
    BY <1>9, <1>11, BootLevels
  <2>2. pt_index(v) = v /\ v \in Nat
    BY <1>11, ZeroIndices, IndexRange
  <2>3. Look(pt, v).page = v
    BY <2>1, <2>2 DEF Look
  <2> QED
    BY <1>10, <1>11, <2>3 DEF BigPages
<1>12. ASSUME NEW v \in Virtual, v \notin BootPages
       PROVE  Look(pt, v) = [page |-> NoPage, big |-> FALSE]
  <2>1. /\ pml4t_index(v) \in Indices /\ pdpt_index(v) \in Indices /\ pdt_index(v) \in Indices
        /\ Pml4 \in TablesOf(pt) /\ Pdpt0 \in TablesOf(pt) /\ Pdt0 \in TablesOf(pt)
    BY <1>1, IndexRange
  <2>2. ~(pml4t_index(v) = 0 /\ pdpt_index(v) = 0 /\ pdt_index(v) = 0)
    <3> SUFFICES ASSUME pml4t_index(v) = 0, pdpt_index(v) = 0, pdt_index(v) = 0 PROVE FALSE
      OBVIOUS
    <3>1. v \div PT = 0 \div PT
      BY <1>3, ZeroIndices, SameIndices
    <3>2. 0 \div PT = 0
      BY Numbers
    <3>3. v = PT * (v \div PT) + pt_index(v) /\ pt_index(v) \in 0..(PT - 1)
      BY IndexRange
    <3>4. v = pt_index(v)
      BY <3>1, <3>2, <3>3, Numbers
    <3> QED
      BY <1>12, <3>3, <3>4 DEF BootPages
  <2>3. CASE pml4t_index(v) # 0
    BY <1>1, <2>1, <2>3 DEF Look, E4
  <2>4. CASE pml4t_index(v) = 0 /\ pdpt_index(v) # 0
    <3>1. E4(pt, v) = Entry(Pdpt0)
      BY <1>1, <2>1, <2>4 DEF E4
    <3>2. E3(pt, v) = Zero
      BY <1>1, <1>2, <2>1, <2>4, <3>1 DEF E3
    <3> QED
      BY <3>2 DEF Look
  <2>5. CASE pml4t_index(v) = 0 /\ pdpt_index(v) = 0 /\ pdt_index(v) # 0
    <3>1. E4(pt, v) = Entry(Pdpt0)
      BY <1>1, <2>1, <2>5 DEF E4
    <3>2. E3(pt, v) = Entry(Pdt0)
      BY <1>1, <1>2, <2>1, <2>5, <3>1 DEF E3, Pml4, Pdpt0
    <3>3. E2(pt, v) = Zero
      BY <1>1, <1>2, <2>1, <2>5, <3>2 DEF E2
    <3> QED
      BY <3>3 DEF Look
  <2> QED
    BY <2>2, <2>3, <2>4, <2>5
<1>13. Right(pt, wanted)
  BY <1>10, <1>11, <1>12 DEF Right
<1> QED
  BY <1>1, <1>9, <1>10, <1>13 DEF PagingInv, Sound, Good

\* Every operation keeps the tables sound.
LEMMA NextSound ==
  ASSUME PagingInv, [Next]_vars
  PROVE  PagingInv'
<1>1. Sound(pt, wanted)
  BY DEF PagingInv
<1>2. ASSUME NEW r \in Ranges4k, mem_map_range_4k(r) PROVE PagingInv'
  BY <1>1, <1>2, Range4kSound DEF mem_map_range_4k, PagingInv
<1>3. ASSUME NEW r \in Ranges2m, mem_map_range_2m(r) PROVE PagingInv'
  <2>1. Whole2m(r) \in Mapped2m
    BY DEF Mapped2m
  <2> DEFINE q == Whole2m(r)
  <2>2. /\ pt' = MapEach(pt, q, PT, "2m")
        /\ wanted' = [v \in Virtual |-> IF v \in RangePages(q) THEN v ELSE wanted[v]]
    BY <1>3 DEF mem_map_range_2m
  <2> HIDE DEF q
  <2> QED
    BY <1>1, <2>1, <2>2, Range2mSound DEF PagingInv, q
<1>4. ASSUME NEW r \in Allocated, mem_allocate_range(r) PROVE PagingInv'
  BY <1>1, <1>4, AllocateSound DEF mem_allocate_range, PagingInv
<1>5. ASSUME ~pt.short, NEW v \in Faulting, mem_page_fault_handler(v) PROVE PagingInv'
  <2>1. v \in Virtual /\ v \in Nat
    BY PagingAssumption, IndexRange
  <2>2. ~Look(pt, v).big
    <3>1. PICK lev : Good(pt, wanted, lev)
      BY <1>1, <1>5 DEF Sound
    <3>2. Look(pt, v).page = NoPage
      BY <1>5, TranslateLooks DEF mem_page_fault_handler
    <3>3. Look(pt, v).big => NoPage = v
      BY <2>1, <3>1, <3>2 DEF Good, Right
    <3> QED
      BY <2>1, <3>3 DEF NoPage
  <2>3. Sound(MapFresh(pt, v), [wanted EXCEPT ![v] = NextPage(pt.main)])
    BY <1>1, <2>1, <2>2, SoundFresh
  <2> QED
    BY <1>5, <2>3 DEF mem_page_fault_handler, PagingInv
<1>6. CASE UNCHANGED vars
  BY <1>6 DEF PagingInv, vars
<1> QED
  BY <1>2, <1>3, <1>4, <1>5, <1>6 DEF Next

\* The invariant is inductive.
LEMMA PagingInductive ==
  Spec => []PagingInv
<1>1. Init => PagingInv
  BY InitSound
<1>2. PagingInv /\ [Next]_vars => PagingInv'
  BY NextSound
<1> QED
  BY <1>1, <1>2, PTL DEF Spec

\* What the invariant says of the types.
LEMMA SoundTypes ==
  ASSUME PagingInv
  PROVE  TypeOK
<1>1. pt \in State /\ wanted \in Wants /\ (~pt.short => \E lev : Good(pt, wanted, lev))
  BY DEF PagingInv, Sound
<1>2. pt.low \subseteq LowPages /\ pt.main \subseteq MainPages /\ pt.short \in BOOLEAN
  BY <1>1 DEF State
<1>3. ASSUME ~pt.short, NEW t \in Tables, NEW i \in Indices
      PROVE  LET e == pt.mem[<<t, i>>]
             IN  \/ e = Zero
                 \/ e.addr \in (Virtual \cup MainPages) \ {0} /\ ~e.big
                 \/ e.addr \in Virtual /\ e.addr % PT = 0 /\ e.big
  <2> DEFINE e == pt.mem[<<t, i>>]
  <2>1. PICK lev : Good(pt, wanted, lev)
    BY <1>1, <1>3
  <2>2. t \in TablesOf(pt)
    BY DEF Tables, TablesOf
  <2>3. Allowed(pt, lev, t, e)
    BY <2>1, <2>2 DEF Good, Tree, Levels
  <2>4. TablesOf(pt) \subseteq Virtual \ {0} /\ 0 \in BootPages /\ 0 \notin MainPages
    <3>1. 0 \in BootPages
      BY Numbers DEF BootPages
    <3> QED
      BY <1>1, <3>1, TableFacts, Numbers
  <2> HIDE DEF e
  <2>5. \/ e = Zero
        \/ e.addr \in (Virtual \cup MainPages) \ {0} /\ ~e.big
        \/ e.addr \in Virtual /\ e.addr % PT = 0 /\ e.big
    BY <2>3, <2>4 DEF Allowed
  <2> QED
    BY <2>5 DEF e
<1> QED
  BY <1>1, <1>2, <1>3 DEF TypeOK, Wants

(***************************************************************************)
(* After every sequence of mappings and page faults, every address leads   *)
(* to the page it was last mapped to, for tables of any size and any       *)
(* ranges: mem_map_page changes no other address on its way.               *)
(***************************************************************************)
THEOREM PagingLatestMapping ==
  Spec => []LatestMapping
<1>1. PagingInv => LatestMapping
  <2> SUFFICES ASSUME PagingInv PROVE LatestMapping
    OBVIOUS
  <2>1. TypeOK
    BY SoundTypes
  <2>2. ASSUME ~pt.short, NEW v \in Virtual PROVE Translate(pt, v) = wanted[v]
    <3>1. PICK lev : Good(pt, wanted, lev)
      BY <2>2 DEF PagingInv, Sound
    <3> QED
      BY <3>1, TranslateLooks DEF Good, Right
  <2> QED
    BY <2>1, <2>2 DEF LatestMapping
<1> QED
  BY <1>1, PagingInductive, PTL

(***************************************************************************)
(* No page that allocate_page or the main page manager lent is used twice, *)
(* by tables or by memory, and no free one is used at all.                 *)
(***************************************************************************)
THEOREM PagingPagesNotShared ==
  Spec => []PagesNotShared
<1>1. PagingInv => PagesNotShared
  <2> SUFFICES ASSUME PagingInv, ~pt.short, NEW p \in LowPages \cup MainPages
               PROVE  Cardinality({c \in Tables \X Indices : pt.mem[c].addr = p})
                        <= IF p \in pt.low \cup pt.main THEN 0 ELSE 1
    BY DEF PagesNotShared
  <2> DEFINE S == {c \in Tables \X Indices : pt.mem[c].addr = p}
  <2>1. PICK lev : Good(pt, wanted, lev)
    BY DEF PagingInv, Sound
  <2>2. Tree(pt, lev) /\ Tables = TablesOf(pt)
    BY <2>1 DEF Good, Tables, TablesOf
  <2>3. CASE p \in pt.low \cup pt.main
    <3>1. S = {}
      <4> SUFFICES ASSUME NEW t \in TablesOf(pt), NEW i \in Indices PROVE pt.mem[<<t, i>>].addr # p
        BY <2>2
      <4> QED
        BY <2>2, <2>3, FreeUnused
    <3> HIDE DEF S
    <3>2. Cardinality(S) = 0
      BY <3>1, FS_EmptySet
    <3> QED
      BY <2>3, <3>2 DEF S
  <2>4. CASE p \notin pt.low \cup pt.main
    <3>1. p \in TablesOf(pt) \cup MainPages
      BY <2>4 DEF TablesOf
    <3>2. ASSUME NEW c \in S, NEW d \in S PROVE c = d
      <4>1. PICK t \in TablesOf(pt), i \in Indices : c = <<t, i>>
        BY <2>2
      <4>2. PICK u \in TablesOf(pt), j \in Indices : d = <<u, j>>
        BY <2>2
      <4>3. pt.mem[<<t, i>>].addr = p /\ pt.mem[<<u, j>>].addr = p
        BY <4>1, <4>2
      <4>4. t = u /\ i = j
        BY <2>2, <3>1, <4>3 DEF Tree, Single
      <4> QED
        BY <4>1, <4>2, <4>4
    <3> HIDE DEF S
    <3>3. S = {} \/ \E c : S = {c}
      <4>1. ASSUME NEW c \in S PROVE S = {c}
        BY <3>2
      <4> QED
        BY <4>1
    <3>4. Cardinality(S) = 0 \/ Cardinality(S) = 1
      BY <3>3, FS_EmptySet, FS_Singleton
    <3> QED
      BY <2>4, <3>4 DEF S
  <2> QED
    BY <2>3, <2>4
<1> QED
  BY <1>1, PagingInductive, PTL
=============================================================================
