------------------------------- MODULE Paging -------------------------------
(***************************************************************************)
(* The page tables of kernel/mem/mem.c: four levels of tables whose pages  *)
(* come from the low page manager, 4K pages and 2M pages, and the pages of *)
(* the heap and the stacks, which come from the main page manager.         *)
(*                                                                         *)
(* Addresses are page numbers.  A page manager is the set of its free      *)
(* pages and lends the lowest one, as module Pgm is shown to do.           *)
(***************************************************************************)
EXTENDS Integers, FiniteSetsExt

CONSTANTS PT, PDT, PDPT, PML4T,   \* entries used of a table of each level
          LowPages,     \* free pages of the low page manager
          MainPages,    \* free pages of the main page manager
          Ranges4k,     \* ranges mapped by mem_map_range_4k, <<first, count>>
          Ranges2m,     \* ... by mem_map_range_2m, count in 4K pages
          Allocated,    \* ... by mem_allocate_range
          Faulting      \* pages of the heap, first touched by a page fault

\* Where boot.asm puts its three tables: PML4T_START and the next two pages.
Pml4 == 3
Pdpt0 == 4
Pdt0 == 5

Virtual == 0..(PT * (PDT * (PDPT * PML4T)) - 1)

\* The 2M page that boot.asm maps one to one.
BootPages == 0..(PT - 1)

RangePages(r) == r[1]..(r[1] + r[2] - 1)

(***************************************************************************)
(* What mem_map_range_2m maps for a range: the assert on the size, which   *)
(* divides by 2*1024*1024 without parentheses, tests only that it is even, *)
(* and the loop goes on to the end of the last 2M page that is begun.      *)
(***************************************************************************)
Whole2m(r) == <<r[1], PT * ((r[2] + PT - 1) \div PT)>>
Mapped2m == {Whole2m(r) : r \in Ranges2m}

\* The pages that a 2M page may map.
BigPages == BootPages \cup UNION {RangePages(r) : r \in Mapped2m}

(***************************************************************************)
(* The boot page holds the tables of boot.asm and the low pages.  What is  *)
(* mapped one to one are devices, ACPI tables and directories of the page  *)
(* managers, no pages that are lent, not in the rest of their last 2M page *)
(* either; the stacks lie in no 2M page.                                   *)
(***************************************************************************)
ASSUME PagingAssumption ==
  /\ {PT, PDT, PDPT, PML4T} \subseteq Nat \ {0} /\ Pdt0 < PT
  /\ LowPages \subseteq BootPages \ {0, Pml4, Pdpt0, Pdt0}
  /\ MainPages \subseteq Nat \ {0, Pml4, Pdpt0, Pdt0} /\ MainPages \cap LowPages = {}
  /\ \A r \in Ranges2m : r[1] % PT = 0 /\ r[2] \in Nat \ {0}
  /\ \A r \in Ranges4k \cup Mapped2m \cup Allocated :
       r[2] \in Nat \ {0} /\ r[1] \in Virtual /\ r[1] + r[2] - 1 \in Virtual
  /\ \A r \in Ranges4k \cup Mapped2m : RangePages(r) \cap MainPages = {}
  /\ \A r \in Allocated : RangePages(r) \cap BigPages = {}
  /\ Faulting \subseteq Virtual

VARIABLES pt,       \* the tables' memory and the two page managers
          wanted    \* ghost: the page each address was last mapped to

vars == <<pt, wanted>>

NoPage == -1

-----------------------------------------------------------------------------
\* An address is split into the indices of the four tables.
pt_index(v) == v % PT
pdt_index(v) == (v \div PT) % PDT
pdpt_index(v) == ((v \div PT) \div PDT) % PDPT
pml4t_index(v) == ((v \div PT) \div PDT) \div PDPT

Indices == UNION {0..(n - 1) : n \in {PT, PDT, PDPT, PML4T}}

(***************************************************************************)
(* The pages whose words may be read as entries: low memory, and the first *)
(* page of a 2M page, which a 4K mapping inside it takes for its table.    *)
(* With page 0 as a table of every level, lent pages are read as well.     *)
(***************************************************************************)
Frames == BootPages \cup {v \in Virtual : v % PT = 0} \cup MainPages

\* Entries: zero, or an address with the size bit; present and write are set.
Zero == [addr |-> NoPage, big |-> FALSE]
Entry(page) == [addr |-> page, big |-> FALSE]
BigEntry(page) == [addr |-> page, big |-> TRUE]

\* memset(page_ptr, 0, PAGE_SIZE_4K)
Cleared(mem, page) == [c \in DOMAIN mem |-> IF c[1] = page THEN Zero ELSE mem[c]]

\* The page that a page manager lends, 0 when it has none left.
NextPage(free) == IF free = {} THEN 0 ELSE Min(free)

(***************************************************************************)
(* allocate_page: page 0 when the low page manager has none left; nobody   *)
(* looks, and page 0 becomes the table.                                    *)
(***************************************************************************)
allocate_page(s) ==
  LET page == NextPage(s.low)
  IN  [page |-> page,
       s |-> [s EXCEPT !.low = @ \ {page}, !.mem = Cleared(@, page),
                       !.short = @ \/ s.low = {}]]

\* pgm_allocate_page(_mem_main_pgm_handle).
AllocateMain(s) ==
  LET page == NextPage(s.main)
  IN  [page |-> page,
       s |-> [s EXCEPT !.main = @ \ {page}, !.short = @ \/ s.main = {}]]

\* Mutant: an entry that is there is replaced.
Descend_Always(s, table, i) ==
  LET a == allocate_page(s)
  IN  [s |-> [a.s EXCEPT !.mem[<<table, i>>] = Entry(a.page)], table |-> a.page]

(***************************************************************************)
(* An entry that is zero gets a new table.  The table that the entry then  *)
(* points to, or is taken to point to: nobody looks at the size bit.       *)
(***************************************************************************)
Descend(s, table, i) ==
  LET cell == <<table, i>>
      a == allocate_page(s)
  IN  IF s.mem[cell] # Zero THEN [s |-> s, table |-> s.mem[cell].addr]
      ELSE [s |-> [a.s EXCEPT !.mem[cell] = Entry(a.page)], table |-> a.page]

mem_map_page(s, v, page, use_2m_page) ==
  LET pdpt == Descend(s, Pml4, pml4t_index(v))
      pdt == Descend(pdpt.s, pdpt.table, pdpt_index(v))
      table == Descend(pdt.s, pdt.table, pdt_index(v))
  IN  IF use_2m_page
        THEN [pdt.s EXCEPT !.mem[<<pdt.table, pdt_index(v)>>] =
                             BigEntry(page - (page % PT))]
        ELSE [table.s EXCEPT !.mem[<<table.table, pt_index(v)>>] = Entry(page)]

\* One page of mem_allocate_range, and mem_page_fault_handler.
MapFresh(s, v) ==
  LET a == AllocateMain(s)
  IN  mem_map_page(a.s, v, a.page, FALSE)

\* One page of a range.
Mapping(s, v, how) == CASE how = "4k" -> mem_map_page(s, v, v, FALSE)
                        [] how = "2m" -> mem_map_page(s, v, v, TRUE)
                        [] how = "fresh" -> MapFresh(s, v)

\* The loops over a range, page by page.
MapEach(s, r, step, how) ==
  LET after[i \in 0..(r[2] \div step)] ==
        IF i = 0 THEN s ELSE Mapping(after[i - 1], r[1] + (i - 1) * step, how)
  IN  after[r[2] \div step]

-----------------------------------------------------------------------------
(***************************************************************************)
(* boot.asm: one 2M page at address 0; the low page manager has lent the   *)
(* pages of the three tables.  Other memory holds anything; Entry(0)       *)
(* stands for a word that is not zero.                                     *)
(***************************************************************************)
Init ==
  /\ pt = [mem |-> [c \in Frames \X Indices |->
                      CASE c = <<Pml4, 0>> -> Entry(Pdpt0)
                        [] c = <<Pdpt0, 0>> -> Entry(Pdt0)
                        [] c = <<Pdt0, 0>> -> BigEntry(0)
                        [] c[1] \in {Pml4, Pdpt0, Pdt0} /\ c[2] # 0 -> Zero
                        [] OTHER -> Entry(0)],
           low |-> LowPages, main |-> MainPages, short |-> FALSE]
  /\ wanted = [v \in Virtual |-> IF v \in BootPages THEN v ELSE NoPage]

(***************************************************************************)
(* mem_map_range_4k and mem_map_range_2m map one to one: their asserts     *)
(* compare the virtual address with the physical one, and all callers pass *)
(* the same for both.                                                      *)
(***************************************************************************)
mem_map_range_4k(r) ==
  /\ pt' = MapEach(pt, r, 1, "4k")
  /\ wanted' = [v \in Virtual |-> IF v \in RangePages(r) THEN v ELSE wanted[v]]

mem_map_range_2m(r) ==
  /\ pt' = MapEach(pt, Whole2m(r), PT, "2m")
  /\ wanted' = [v \in Virtual |-> IF v \in RangePages(Whole2m(r)) THEN v ELSE wanted[v]]

\* Mutant: one page for all addresses of the range.
mem_allocate_range_OnePage(r) ==
  LET a == AllocateMain(pt)
      after[i \in 0..r[2]] ==
        IF i = 0 THEN a.s
        ELSE mem_map_page(after[i - 1], r[1] + i - 1, a.page, FALSE)
  IN  /\ pt' = after[r[2]]
      /\ wanted' = [v \in Virtual |-> IF v \in RangePages(r) THEN a.page ELSE wanted[v]]

\* Ghost: what is free after each of n pages was lent, whatever is mapped.
LeftAfter(free, n) ==
  LET left[k \in 0..n] == IF k = 0 THEN free ELSE left[k - 1] \ {NextPage(left[k - 1])}
  IN  left

\* The addresses of the range get the next pages, in their order.
mem_allocate_range(r) ==
  /\ pt' = MapEach(pt, r, 1, "fresh")
  /\ wanted' = [v \in Virtual |->
                  IF v \in RangePages(r) THEN NextPage(LeftAfter(pt.main, r[2])[v - r[1]])
                  ELSE wanted[v]]

-----------------------------------------------------------------------------
(***************************************************************************)
(* The processor's walk of the tables: the page an address is mapped to.   *)
(***************************************************************************)
Translate(s, v) ==
  LET e4 == s.mem[<<Pml4, pml4t_index(v)>>]
      e3 == s.mem[<<e4.addr, pdpt_index(v)>>]
      e2 == s.mem[<<e3.addr, pdt_index(v)>>]
      e1 == s.mem[<<e2.addr, pt_index(v)>>]
  IN  IF e4 = Zero \/ e3 = Zero \/ e2 = Zero THEN NoPage
      ELSE IF e2.big THEN e2.addr + pt_index(v)
      ELSE e1.addr

mem_page_fault_handler(v) ==
  /\ Translate(pt, v) = NoPage
  /\ pt' = MapFresh(pt, v)
  /\ wanted' = [wanted EXCEPT ![v] = NextPage(pt.main)]

(***************************************************************************)
(* A page manager that runs out gives page 0, in the midst of a mapping;   *)
(* what the kernel does after that is not followed.                        *)
(***************************************************************************)
Next ==
  /\ ~pt.short
  /\ \/ \E r \in Ranges4k : mem_map_range_4k(r)
     \/ \E r \in Ranges2m : mem_map_range_2m(r)
     \/ \E r \in Allocated : mem_allocate_range(r)
     \/ \E v \in Faulting : mem_page_fault_handler(v)

Spec == Init /\ [][Next]_vars

-----------------------------------------------------------------------------
\* The pages lent for tables.
Tables == {Pml4, Pdpt0, Pdt0} \cup (LowPages \ pt.low)

(***************************************************************************)
(* Type invariant.  Every word of a table is zero, an entry for a page     *)
(* other than page 0, or an aligned 2M entry: nothing is left in it of     *)
(* what was in the memory before.                                          *)
(***************************************************************************)
TypeOK ==
  /\ pt.low \subseteq LowPages /\ pt.main \subseteq MainPages
  /\ wanted \in [Virtual -> Virtual \cup MainPages \cup {NoPage}]
  /\ pt.short \in BOOLEAN
  /\ ~pt.short => \A t \in Tables, i \in Indices :
       LET e == pt.mem[<<t, i>>]
       IN  \/ e = Zero
           \/ e.addr \in (Virtual \cup MainPages) \ {0} /\ ~e.big
           \/ e.addr \in Virtual /\ e.addr % PT = 0 /\ e.big

(***************************************************************************)
(* Every address translates to the page it was last mapped to and to none  *)
(* before that: mapping a range, a new table on the way, a 4K page inside  *)
(* a 2M page or a 2M page over 4K pages change no other address.  Low      *)
(* memory, where the tables themselves are accessed, stays one to one.     *)
(***************************************************************************)
LatestMapping ==
  TypeOK /\ (~pt.short => \A v \in Virtual : Translate(pt, v) = wanted[v])

(***************************************************************************)
(* A page of either page manager has one use: at most one entry leads to a *)
(* page that was lent, as a table or as memory, and none to a free one.    *)
(***************************************************************************)
PagesNotShared ==
  ~pt.short =>
    \A p \in LowPages \cup MainPages :
      Cardinality({c \in Tables \X Indices : pt.mem[c].addr = p})
        <= IF p \in pt.low \cup pt.main THEN 0 ELSE 1
=============================================================================
