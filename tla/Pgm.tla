-------------------------------- MODULE Pgm --------------------------------
(***************************************************************************)
(* The physical page manager of kernel/mem/pgm.c.  A region of TotalPages  *)
(* pages starts with a directory of dir_pages pages; the first HeaderBits  *)
(* bits of the directory hold the pgm_header, the rest is a bitmap with a  *)
(* one for every free page of the managed memory that follows.             *)
(*                                                                         *)
(* Pages and directory bits are numbered from 0: bit b stands for the page *)
(* at mem_ptr + b * PAGE_SIZE_4K.                                          *)
(***************************************************************************)
EXTENDS BitScan, FiniteSets

CONSTANTS TotalPages,   \* size / PAGE_SIZE_4K
          PageBits,     \* bits of a page: 8 * PAGE_SIZE_4K in the code
          HeaderBits,   \* 8 * sizeof(pgm_header): 384 in the code
          WordBits      \* bits of the uint64_t the directory is read by: 64

ASSUME SizesAssumption ==
  /\ TotalPages \in Nat \ {0}
  /\ WordBits \in 1..64
  /\ PageBits \in Nat \ {0}
  /\ HeaderBits \in 0..(PageBits - 1)
  /\ PageBits % WordBits = 0
  /\ HeaderBits % WordBits = 0

VARIABLES ones,         \* the one bits of the initialised bitmap
          ptr,          \* word index of _pgm_info->ptr, the search hint
          free_pages,   \* _pgm_info->free_pages
          held,         \* ghost: pages returned and not yet freed
          ret           \* the last return value of pgm_allocate_page

vars == <<ones, ptr, free_pages, held, ret>>

-----------------------------------------------------------------------------
\* pgm_init: dir_bytes rounded up to whole pages.
dir_pages == (TotalPages + PageBits - 1) \div PageBits

\* header.mem_pages
mem_pages == TotalPages - dir_pages

Managed == 0..(mem_pages - 1)

(***************************************************************************)
(* The bits memset to one: the directory's pages minus the header.         *)
(***************************************************************************)
DirBits == dir_pages * PageBits - HeaderBits

DirWords == DirBits \div WordBits

(***************************************************************************)
(* dir_pages is computed from TotalPages without the header, so the bitmap *)
(* may be shorter than mem_pages.  Where it is not, DirFits holds.         *)
(***************************************************************************)
DirFits == mem_pages <= DirBits

\* The return value 0 of pgm_allocate_page: no page.
NoPage == -1

Word(w) == {b - w * WordBits :
              b \in {c \in ones : w * WordBits <= c /\ c < (w + 1) * WordBits}}

(***************************************************************************)
(* What reading word w may return: past the directory it is managed memory *)
(* that nobody initialised and that a page's holder may write.             *)
(***************************************************************************)
WordValues(w) == IF w < DirWords THEN {Word(w)} ELSE SUBSET (0..(WordBits - 1))

(***************************************************************************)
(* The bound of the scan past the directory.  A scan that starts inside    *)
(* a directory that fits stops before it (theorem ScanStaysInDirectory).   *)
(***************************************************************************)
ScanLimit == DirWords + mem_pages

\* Mutant: the bit is set, never flipped back to zero.
FlipBit_Set(b) == (ones \cup {b}) \cap 0..(DirBits - 1)

\* *ptr ^= (1L << bit), for a bit of the initialised part of the bitmap.
FlipBit(b) ==
  ((ones \ {b}) \cup ({b} \ ones)) \cap 0..(DirBits - 1)

\* The guard of pgm_allocate_page: try(_pgm_info->free_pages, ...).
SomePageFree == free_pages # 0

\* Mutant: the hint is left where it is.
HintAfterFree_Kept(w) == ptr

\* pgm_free_page: if (ptr < _pgm_info->ptr) _pgm_info->ptr = ptr.
HintAfterFree(w) == IF w < ptr THEN w ELSE ptr

\* Mutant: a free does not count the page back.
CountAfter_OnlyDown(delta) == IF delta < 0 THEN free_pages + delta ELSE free_pages

\* _pgm_info->free_pages-- and ++.
CountAfter(delta) == free_pages + delta

-----------------------------------------------------------------------------
\* pgm_init(base, size)
Init ==
  /\ ones = 0..(DirBits - 1)
  /\ ptr = 0
  /\ free_pages = mem_pages
  /\ held = {}
  /\ ret = NoPage

(***************************************************************************)
(* pgm_allocate_page with free_pages = 0: "Out of memory pages".           *)
(***************************************************************************)
AllocateFails ==
  /\ ~SomePageFree
  /\ ret' = NoPage
  /\ UNCHANGED <<ones, ptr, free_pages, held>>

(***************************************************************************)
(* The words from ptr up to w read as zero and w reads as x.               *)
(***************************************************************************)
ScanStopsAt(w, x) ==
  /\ \A v \in ptr..(w - 1) : {} \in WordValues(v)
  /\ x \in WordValues(w)
  /\ x # {}

(***************************************************************************)
(* pgm_allocate_page: skip the zero words, take the lowest one bit of the  *)
(* word found, flip it and return its page.                                *)
(***************************************************************************)
AllocatePage ==
  /\ SomePageFree
  /\ \E w \in ptr..ScanLimit : \E x \in WordValues(w) :
       /\ ScanStopsAt(w, x)
       /\ LET page == w * WordBits + pgm_first_one(x)
          IN  /\ ones' = FlipBit(page)
              /\ held' = held \cup {page}
              /\ ret' = page
       /\ ptr' = w
       /\ free_pages' = CountAfter(-1)

(***************************************************************************)
(* pgm_free_page of a page its holder got from pgm_allocate_page: the bit  *)
(* is flipped, whatever it is, and the hint moves back to its word.        *)
(***************************************************************************)
FreePage ==
  \E p \in held :
    LET w == p \div WordBits
    IN  /\ ones' = FlipBit(p)
        /\ ptr' = HintAfterFree(w)
        /\ free_pages' = CountAfter(1)
        /\ held' = held \ {p}
        /\ UNCHANGED ret

Next == AllocateFails \/ AllocatePage \/ FreePage

Spec == Init /\ [][Next]_vars

-----------------------------------------------------------------------------
(***************************************************************************)
(* Type invariant: the header's fields stay in the range their 64-bit      *)
(* fields are used in; in particular free_pages never wraps below zero or  *)
(* rises above mem_pages, and the hint never leaves the directory.         *)
(***************************************************************************)
TypeOK ==
  /\ ones \subseteq 0..(DirBits - 1)
  /\ ptr \in 0..DirWords
  /\ free_pages \in 0..mem_pages
  /\ held \subseteq Managed
  /\ ret \in Managed \cup {NoPage}

(***************************************************************************)
(* Every page is in one of two places: a managed page is held by a client  *)
(* or its bit is one, never both.  The bits of the last word that stand    *)
(* for no page stay one and are never handed out, although memset sets     *)
(* them like the others.                                                   *)
(***************************************************************************)
PagesPartitioned == ones = (0..(DirBits - 1)) \ held

(***************************************************************************)
(* pgm_free_pages and pgm_used_pages tell the truth: the counter that      *)
(* guards the unbounded scan is the number of managed pages not held.      *)
(***************************************************************************)
CountExact == free_pages + Cardinality(held) = mem_pages

(***************************************************************************)
(* The hint is sound: no page below the hint's word is free, so a search   *)
(* that starts there misses none (what pgm_free_page's "if (ptr <          *)
(* _pgm_info->ptr)" is for).                                               *)
(***************************************************************************)
HintSound == \A b \in ones : b >= ptr * WordBits

(***************************************************************************)
(* The pool of pages the clients see.                                      *)
(***************************************************************************)
Pool == INSTANCE PageAlloc WITH
          Pages <- Managed, NoPage <- NoPage,
          avail <- ones \cap Managed, answer <- ret

(***************************************************************************)
(* The bitmap, the hint and the counter together implement the abstract    *)
(* pool: every page lent is the lowest free one, as pgm_test.c expects of  *)
(* consecutive and of re-used pages, and a refusal means an empty pool.    *)
(***************************************************************************)
ImplementsPool == Pool!Spec
=============================================================================
