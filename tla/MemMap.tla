------------------------------- MODULE MemMap -------------------------------
(***************************************************************************)
(* The map of physical memory kept by kernel/mem/mem.c: _mem_map, a list   *)
(* of typed ranges in address order, taken from the boot loader and then   *)
(* refined by every subsystem that claims a range.  The list is a sequence *)
(* here; module Dll shows that the linked list behaves as one.             *)
(***************************************************************************)
EXTENDS Integers, Sequences, SequencesExt

CONSTANTS MaxAddr,     \* addresses are 0..MaxAddr - 1
          Types,       \* memory types; the boot loader uses Boot
          Boot,
          BootMaps,    \* memory maps the boot loader may pass
          Engulfing,   \* TRUE: claims may engulf a smaller range
          Abutting     \* TRUE: claims in a gap may end where a range starts

Ranges == [addr : 0..(MaxAddr - 1), size : 1..MaxAddr, type : Types]

End(r) == r.addr + r.size

ASSUME BootMapsAssumption ==
  /\ MaxAddr \in Nat \ {0}
  /\ Boot \in Types
  /\ Engulfing \in BOOLEAN /\ Abutting \in BOOLEAN
  /\ \A m \in BootMaps :
       /\ m \in Seq(Ranges)
       /\ \A i \in DOMAIN m : m[i].type = Boot /\ End(m[i]) <= MaxAddr
       /\ \A i, j \in DOMAIN m : i < j => End(m[i]) <= m[j].addr

VARIABLES mem_map,    \* _mem_map
          claimed,    \* ghost: the type last given to each address
          panicked    \* panic() stopped the kernel

vars == <<mem_map, claimed, panicked>>

Unmapped == "unmapped"

-----------------------------------------------------------------------------
mem_contains(r1, r2) == r2.addr >= r1.addr /\ End(r2) <= End(r1)

\* Mutant: a claim that starts below a range is not seen to meet it.
mem_intersect_StartOnly(r1, r2) == r2.addr >= r1.addr /\ r2.addr < End(r1)

mem_intersect(r1, r2) ==
  \/ r2.addr >= r1.addr /\ r2.addr < End(r1)
  \/ End(r2) >= r1.addr /\ End(r2) < End(r1)

\* mem_find_range: the index of the first range that holds the address, or 0.
mem_find_range(addr) ==
  SelectInSeq(mem_map, LAMBDA r : addr >= r.addr /\ addr < End(r))

\* Mutant: what follows the claim is forgotten.
Cut_NoSuffix(r, claim) ==
  (IF claim.addr > r.addr
     THEN <<[r EXCEPT !.size = claim.addr - r.addr]>> ELSE <<>>) \o <<claim>>

(***************************************************************************)
(* The ranges that replace r when claim is cut out of it: prefix, claim    *)
(* and suffix, each only if it is not empty.                               *)
(***************************************************************************)
Cut(r, claim) ==
  (IF claim.addr > r.addr
     THEN <<[r EXCEPT !.size = claim.addr - r.addr]>> ELSE <<>>)
  \o <<claim>> \o
  (IF End(r) > End(claim)
     THEN <<[r EXCEPT !.addr = End(claim), !.size = End(r) - End(claim)]>>
     ELSE <<>>)

\* Mutant: always at the end.
GapPosition_Tail(claim) == Len(mem_map) + 1

\* Where a claim that meets no range goes: before the first range after it.
GapPosition(claim) ==
  LET i == SelectInSeq(mem_map, LAMBDA r : End(claim) <= r.addr)
  IN  IF i = 0 THEN Len(mem_map) + 1 ELSE i

-----------------------------------------------------------------------------
\* mem_init saves the boot loader's map.
Init ==
  /\ mem_map \in BootMaps
  /\ claimed = [a \in 0..(MaxAddr - 1) |->
                  IF \E i \in DOMAIN mem_map :
                       a >= mem_map[i].addr /\ a < End(mem_map[i])
                    THEN Boot ELSE Unmapped]
  /\ panicked = FALSE

Claim(r) == claimed' = [a \in DOMAIN claimed |->
                          IF a >= r.addr /\ a < End(r) THEN r.type ELSE claimed[a]]

(***************************************************************************)
(* mem_update_range: the first range that meets the claim must contain it  *)
(* and is cut; with none, the claim goes into the gap.                     *)
(***************************************************************************)
mem_update_range(claim) ==
  LET i == SelectInSeq(mem_map, LAMBDA r : mem_intersect(r, claim))
  IN  \/ /\ i # 0 /\ ~mem_contains(mem_map[i], claim)
         /\ panicked' = TRUE
         /\ UNCHANGED <<mem_map, claimed>>
      \/ /\ i # 0 /\ mem_contains(mem_map[i], claim)
         /\ mem_map' = SubSeq(mem_map, 1, i - 1) \o Cut(mem_map[i], claim)
                         \o SubSeq(mem_map, i + 1, Len(mem_map))
         /\ Claim(claim)
         /\ UNCHANGED panicked
      \/ /\ i = 0
         /\ mem_map' = InsertAt(mem_map, GapPosition(claim), claim)
         /\ Claim(claim)
         /\ UNCHANGED panicked

\* mem_mark_range: the type of the whole range around addr changes.
mem_mark_range(addr, type) ==
  LET i == mem_find_range(addr)
  IN  /\ IF i = 0 THEN UNCHANGED <<mem_map, claimed>>
         ELSE /\ mem_map' = [mem_map EXCEPT ![i].type = type]
              /\ Claim([mem_map[i] EXCEPT !.type = type])
      /\ UNCHANGED panicked

-----------------------------------------------------------------------------
\* Some address is in both ranges.
Overlap(r1, r2) == r1.addr < End(r2) /\ r2.addr < End(r1)

InsideOne(claim) == \E i \in DOMAIN mem_map : mem_contains(mem_map[i], claim)

\* The claim covers a range and starts below it: mem_intersect misses it.
Engulfs(claim) == \E i \in DOMAIN mem_map :
                    claim.addr < mem_map[i].addr /\ End(claim) >= End(mem_map[i])

\* The claim lies in a gap and ends where a range starts.
AbutsFromBelow(claim) ==
  /\ \A i \in DOMAIN mem_map : ~Overlap(mem_map[i], claim)
  /\ \E i \in DOMAIN mem_map : End(claim) = mem_map[i].addr

\* The claims the subsystems make.
Claims == {c \in Ranges : /\ c.type # Boot
                          /\ End(c) <= MaxAddr
                          /\ Engulfs(c) => Engulfing
                          /\ AbutsFromBelow(c) => Abutting}

Next ==
  /\ ~panicked
  /\ \/ \E c \in Claims : mem_update_range(c)
     \/ \E a \in 0..(MaxAddr - 1), t \in Types \ {Boot} : mem_mark_range(a, t)

Spec == Init /\ [][Next]_vars

-----------------------------------------------------------------------------
\* Type invariant: every entry is a range with room in the address space.
TypeOK ==
  /\ mem_map \in Seq(Ranges)
  /\ \A i \in DOMAIN mem_map : End(mem_map[i]) <= MaxAddr
  /\ claimed \in [0..(MaxAddr - 1) -> Types \cup {Unmapped}]
  /\ panicked \in BOOLEAN

(***************************************************************************)
(* The map stays in address order and its ranges disjoint, through any     *)
(* sequence of claims: what the search for a gap relies on.                *)
(***************************************************************************)
SortedDisjoint ==
  /\ TypeOK
  /\ \A i, j \in DOMAIN mem_map : i < j => End(mem_map[i]) <= mem_map[j].addr

(***************************************************************************)
(* A look-up tells the latest claim: mem_find_range finds, for every       *)
(* address, a range of the type last given to it, and no range for an      *)
(* address nobody claimed.  Cutting a range loses no byte on either side.  *)
(***************************************************************************)
LookupTellsLatest ==
  \A a \in 0..(MaxAddr - 1) :
    LET i == mem_find_range(a)
    IN  IF i = 0 THEN claimed[a] = Unmapped ELSE claimed[a] = mem_map[i].type

(***************************************************************************)
(* The panic of mem_update_range, "Memory range not fully contained in     *)
(* existing range.", is raised for the claims that share an address with a *)
(* range without being inside one, and for no others.                      *)
(***************************************************************************)
PanicIffOverlap ==
  [][\A c \in Claims :
       mem_update_range(c) =>
         (panicked' <=> /\ ~InsideOne(c)
                        /\ \E i \in DOMAIN mem_map : Overlap(mem_map[i], c))]_vars
=============================================================================
