-------------------------------- MODULE Heap --------------------------------
(***************************************************************************)
(* The kernel heap of kernel/mem/heap.c: chunks threaded on one circular   *)
(* list in address order (all) and, when free, on the circular list of     *)
(* their size class (free_chunk[n]).  The lists are modelled by their      *)
(* pointers, with the assignments of the dlist_ functions.                 *)
(*                                                                         *)
(* An address is a multiple-of-one offset into the heap; the payload of    *)
(* the chunk at c starts at c + HEADER_SIZE and ends where the chunk at    *)
(* all.next starts.                                                        *)
(***************************************************************************)
EXTENDS Integers, FiniteSetsExt

CONSTANTS ALIGN,        \* 4 in the code
          HEADER_SIZE,  \* 24
          MIN_SIZE,     \* sizeof(dlist): 16
          NUM_SIZES,    \* 32
          HeapSize,     \* size given to heap_init
          CounterMod,   \* 2^64: the counters are size_t
          Requests,     \* sizes the clients ask for
          NULL

ASSUME HeapSizes ==
  /\ ALIGN \in Nat \ {0}
  /\ \A n \in {HEADER_SIZE, MIN_SIZE, HeapSize} : n \in Nat \ {0} /\ n % ALIGN = 0
  /\ HeapSize > 3 * HEADER_SIZE + 3 * MIN_SIZE
  /\ NUM_SIZES \in Nat
  /\ CounterMod \in Nat /\ CounterMod > HeapSize
  /\ Requests \subseteq 0..HeapSize
  /\ NULL \notin Nat

\* sizeof(heap_chunk)
ChunkStruct == HEADER_SIZE + MIN_SIZE

Addr == 0..(HeapSize - 1)
Sizes == 0..(NUM_SIZES - 1)

head == 0
tail == HeapSize - ChunkStruct
first == ChunkStruct

VARIABLES heap,   \* the lists, the used flags and the counters
          live,   \* ghost: what the clients hold, [ptr, req]
          ret     \* the last return value of an allocation

vars == <<heap, live, ret>>

-----------------------------------------------------------------------------
(***************************************************************************)
(* dlist: a list is a pair of functions next and prev.                     *)
(***************************************************************************)

dlist_init(l, d) == [next |-> [l.next EXCEPT ![d] = d],
                     prev |-> [l.prev EXCEPT ![d] = d]]

dlist_insert_after(l, d1, d2) ==
  LET n1 == l.next[d1]
      e2 == l.prev[d2]
  IN  [next |-> [l.next EXCEPT ![d1] = d2, ![e2] = n1],
       prev |-> [l.prev EXCEPT ![d2] = d1, ![n1] = e2]]

dlist_insert_before(l, d1, d2) ==
  LET e1 == l.prev[d1]
      e2 == l.prev[d2]
  IN  [next |-> [l.next EXCEPT ![e1] = d2, ![e2] = d1],
       prev |-> [l.prev EXCEPT ![d2] = e1, ![d1] = e2]]

\* Mutant: the removed node's successor keeps its back pointer.
dlist_remove_OneWay(l, d) ==
  [next |-> [l.next EXCEPT ![l.prev[d]] = l.next[d], ![d] = d],
   prev |-> [l.prev EXCEPT ![d] = d]]

dlist_remove(l, d) ==
  [next |-> [l.next EXCEPT ![l.prev[d]] = l.next[d], ![d] = d],
   prev |-> [l.prev EXCEPT ![l.next[d]] = l.prev[d], ![d] = d]]

-----------------------------------------------------------------------------
(***************************************************************************)
(* Chunks and size classes                                                 *)
(***************************************************************************)

heap_chunk_size(h, c) == h.all.next[c] - c - HEADER_SIZE

\* The number of halvings until zero, minus one.
heap_chunk_slot[size \in 0..HeapSize] ==
  IF size = 0 THEN -1 ELSE 1 + heap_chunk_slot[size \div 2]

\* There is a class for every size: HeapSize is less than 2^NUM_SIZES.
ASSUME ClassForEverySize == heap_chunk_slot[HeapSize] < NUM_SIZES

(***************************************************************************)
(* The payload of a chunk that leaves the free lists belongs to a client,  *)
(* who writes over the free links in it; a chunk that is merged away is    *)
(* payload as a whole.  NULL stands for such bytes: nothing may follow     *)
(* them as links.                                                          *)
(***************************************************************************)
Scribbled(l, c) == [next |-> [l.next EXCEPT ![c] = NULL],
                    prev |-> [l.prev EXCEPT ![c] = NULL]]

\* DLIST_PUSH(&free_chunk[n], c, free): c becomes the head of its class.
PushFree(h, c) ==
  LET n == heap_chunk_slot[heap_chunk_size(h, c)]
      old == h.free_chunk[n]
  IN  [h EXCEPT !.free = IF old = NULL THEN @ ELSE dlist_insert_before(@, old, c),
                !.free_chunk[n] = c]

(***************************************************************************)
(* DLIST_REMOVE_FROM(&free_chunk[n], c, free), and DLIST_POP when c is the *)
(* head of class n: dlist_pop moves the head to the next chunk.            *)
(***************************************************************************)
RemoveFree(h, n, c) ==
  LET d2 == h.free.next[c]
  IN  [h EXCEPT !.free = dlist_remove(@, c),
                !.free_chunk[n] = IF @ # c THEN @ ELSE IF d2 = c THEN NULL ELSE d2]

\* size_t arithmetic of the counters.
Add(x, delta) == (x + delta) % CounterMod

heap_push_free(h, c) ==
  [PushFree(h, c) EXCEPT
     !.mem_free = Add(@, heap_chunk_size(h, c) - HEADER_SIZE)]

heap_remove_free(h, c) ==
  LET len == heap_chunk_size(h, c)
  IN  [RemoveFree(h, heap_chunk_slot[len], c) EXCEPT
         !.mem_free = Add(@, HEADER_SIZE - len)]

heap_chunk_init(h, c) ==
  [h EXCEPT !.all = dlist_init(@, c), !.used[c] = FALSE,
            !.free = dlist_init(@, c)]

-----------------------------------------------------------------------------
\* Nothing in memory yet.
Blank ==
  LET none == [a \in Addr |-> NULL]
  IN  [all |-> [next |-> none, prev |-> none],
       free |-> [next |-> none, prev |-> none],
       used |-> [a \in Addr |-> FALSE],
       free_chunk |-> [n \in Sizes |-> NULL],
       mem_free |-> 0, mem_used |-> 0, mem_meta |-> 0]

(***************************************************************************)
(* mrvn_heap_init: head and tail are marked used, so they never get merged;*)
(* the chunk between them is free.                                         *)
(***************************************************************************)
mrvn_heap_init ==
  LET h1 == heap_chunk_init(heap_chunk_init(heap_chunk_init(Blank,
              head), first), tail)
      h2 == [h1 EXCEPT !.all = dlist_insert_after(@, head, first)]
      h3 == [h2 EXCEPT !.all = dlist_insert_after(@, first, tail),
                       !.used[head] = TRUE, !.used[tail] = TRUE]
  IN  [PushFree(h3, first) EXCEPT
         !.mem_free = Add(0, heap_chunk_size(h3, first) - HEADER_SIZE),
         !.mem_meta = 2 * ChunkStruct + HEADER_SIZE]

\* Mutant: the request is not aligned.
Rounded_Unaligned(size) == IF size < MIN_SIZE THEN MIN_SIZE ELSE size

\* The size a request is rounded to.
Rounded(size) ==
  LET up == ((size + ALIGN - 1) \div ALIGN) * ALIGN
  IN  IF up < MIN_SIZE THEN MIN_SIZE ELSE up

\* Mutant: one class is skipped.
FirstClass_Skip(size) == heap_chunk_slot[size - 1] + 2

\* Mutant: the search starts in the class of the size itself.
FirstClass_Floor(size) == heap_chunk_slot[size]

\* The first size class all of whose chunks are large enough.
FirstClass(size) == heap_chunk_slot[size - 1] + 1

\* The chunk is cut when the rest can be a chunk of its own.
Splits(size, size2) == size + ChunkStruct <= size2

(***************************************************************************)
(* The chunk c, of payload size2, is cut after size bytes and the rest is  *)
(* put on its free list.                                                   *)
(***************************************************************************)
SplitChunk(h, c, size) ==
  LET c2 == c + HEADER_SIZE + size
      h1 == heap_chunk_init(h, c2)
      h2 == [h1 EXCEPT !.all = dlist_insert_after(@, c, c2)]
  IN  [PushFree(h2, c2) EXCEPT
         !.mem_meta = Add(@, HEADER_SIZE),
         !.mem_free = Add(@, heap_chunk_size(h2, c2) - HEADER_SIZE)]

\* kmalloc: the new heap and the returned pointer.
Kmalloc(h, request) ==
  LET size == Rounded(request)
      classes == {n \in FirstClass(size)..(NUM_SIZES - 1) :
                    h.free_chunk[n] # NULL}
  IN  IF classes = {} THEN [h |-> h, ptr |-> NULL]
      ELSE LET n == Min(classes)
               c == h.free_chunk[n]
               size2 == heap_chunk_size(h, c)
               h1 == RemoveFree(h, n, c)
               cut == Splits(size, size2)
               h2 == IF cut THEN SplitChunk(h1, c, size) ELSE h1
               len == IF cut THEN size2 - size - HEADER_SIZE ELSE 0
           IN  [h |-> [h2 EXCEPT !.used[c] = TRUE,
                                 !.free = Scribbled(@, c),
                                 !.mem_free = Add(@, 0 - size2),
                                 !.mem_used = Add(@, size2 - len - HEADER_SIZE)],
                ptr |-> c + HEADER_SIZE]

\* Mutant: the header that disappears is still counted.
MergeAway_KeepsMeta(h, d) ==
  [h EXCEPT !.all = Scribbled(dlist_remove(@, d), d),
            !.free = Scribbled(@, d),
            !.used[d] = FALSE,
            !.mem_free = Add(@, HEADER_SIZE)]

(***************************************************************************)
(* The chunk d disappears into the chunk before it.  Its header is payload *)
(* now and its flag means nothing; FALSE stands for it.                    *)
(***************************************************************************)
MergeAway(h, d) ==
  [h EXCEPT !.all = Scribbled(dlist_remove(@, d), d),
            !.free = Scribbled(@, d),
            !.used[d] = FALSE,
            !.mem_meta = Add(@, 0 - HEADER_SIZE),
            !.mem_free = Add(@, HEADER_SIZE)]

\* Mutant: a free chunk after the freed one is left alone.
MergeNext_Never(h, next) == h

\* kfree: "merge in next".
MergeNext(h, next) ==
  IF h.used[next] THEN h ELSE MergeAway(heap_remove_free(h, next), next)

\* Mutant: prev is merged with its old size class still recorded.
MergePrev_StaysInClass(h, prev, c) == MergeAway(h, c)

(***************************************************************************)
(* kfree: "merge to prev": prev changes its size and so its class.  The    *)
(* mem_free of MergeAway is added after the push, as in the code: the sum  *)
(* is the same.                                                            *)
(***************************************************************************)
MergePrev(h, prev, c) ==
  heap_push_free(MergeAway(heap_remove_free(h, prev), c), prev)

\* kfree
Kfree(h, ptr) ==
  LET c == ptr - HEADER_SIZE
      next == h.all.next[c]
      prev == h.all.prev[c]
      h1 == [h EXCEPT !.mem_used = Add(@, 0 - heap_chunk_size(h, c))]
      h2 == MergeNext(h1, next)
  IN  IF ~h.used[prev]
        THEN MergePrev(h2, prev, c)
        ELSE heap_push_free([h2 EXCEPT !.used[c] = FALSE,
                                       !.free = dlist_init(@, c)], c)

-----------------------------------------------------------------------------
\* heap_init, from mem_init.
Init == /\ heap = mrvn_heap_init
        /\ live = {}
        /\ ret = NULL

\* What the client remembers of a successful call.
Given(ptr, req) == IF ptr = NULL THEN {} ELSE {[ptr |-> ptr, req |-> req]}

kmalloc(size) ==
  LET r == Kmalloc(heap, size)
  IN  /\ heap' = r.h
      /\ ret' = r.ptr
      /\ live' = live \cup Given(r.ptr, size)

\* The product is below the width of size_t; memset stays inside it.
kcalloc(nmemb, size) == kmalloc(nmemb * size)

kfree(a) == /\ heap' = Kfree(heap, a.ptr)
            /\ live' = live \ {a}
            /\ UNCHANGED ret

(***************************************************************************)
(* krealloc of a live pointer: free it, leave it, or move it.  With the    *)
(* pointer NULL it is kmalloc.                                             *)
(***************************************************************************)
krealloc(a, size) ==
  LET old_size == heap_chunk_size(heap, a.ptr - HEADER_SIZE)
      r == Kmalloc(heap, size)
  IN  \/ /\ size = 0
         /\ heap' = Kfree(heap, a.ptr)
         /\ ret' = NULL
         /\ live' = live \ {a}
      \/ /\ size # 0 /\ size <= old_size
         /\ ret' = a.ptr
         /\ live' = (live \ {a}) \cup {[a EXCEPT !.req = size]}
         /\ UNCHANGED heap
      \/ /\ size > old_size
         /\ ret' = r.ptr
         /\ heap' = IF r.ptr = NULL THEN r.h ELSE Kfree(r.h, a.ptr)
         /\ live' = IF r.ptr = NULL THEN live
                                    ELSE (live \ {a}) \cup Given(r.ptr, size)

Next == \/ \E size \in Requests : kmalloc(size)
        \/ \E size \in Requests : 2 * size <= HeapSize /\ kcalloc(2, size)
        \/ \E a \in live : kfree(a)
        \/ \E a \in live, size \in Requests : krealloc(a, size)

Spec == Init /\ [][Next]_vars

-----------------------------------------------------------------------------
\* The chunks of the address-ordered list, and the ones between the ends.
Chunks == {c \in Addr : heap.all.next[c] # NULL}
Inner == Chunks \ {head, tail}
FreeChunks == {c \in Inner : ~heap.used[c]}
SizeOf(c) == heap_chunk_size(heap, c)

\* Type invariant.
TypeOK ==
  LET Link == [Addr -> Addr \cup {NULL}]
  IN  /\ heap.all \in [next : Link, prev : Link]
      /\ heap.free \in [next : Link, prev : Link]
      /\ heap.used \in [Addr -> BOOLEAN]
      /\ heap.free_chunk \in [Sizes -> Addr \cup {NULL}]
      /\ \A n \in {heap.mem_free, heap.mem_used, heap.mem_meta} :
           n \in 0..(CounterMod - 1)
      /\ live \subseteq [ptr : Addr, req : 0..HeapSize]
      /\ ret \in Addr \cup {NULL}

(***************************************************************************)
(* The chunks tile the heap: after any sequence of splits and merges the   *)
(* list all is circular, doubly linked and in address order, it leaves out *)
(* no chunk, and every chunk has room for the links of a free one.         *)
(***************************************************************************)
ChunksTileHeap ==
  /\ TypeOK
  /\ head \in Chunks /\ tail \in Chunks /\ heap.all.next[tail] = head
  /\ \A c \in Chunks : /\ heap.all.next[c] \in Chunks
                       /\ heap.all.prev[heap.all.next[c]] = c
  /\ \A c \in Chunks \ {tail} :
       /\ heap.all.next[c] >= c + ChunkStruct
       /\ \A d \in Chunks : ~(c < d /\ d < heap.all.next[c])

(***************************************************************************)
(* The free lists are exact: class n is one cycle through the free chunks  *)
(* whose size has slot n, and through nothing else.  A chunk whose size    *)
(* changes by a merge must have changed its class.                         *)
(***************************************************************************)
FreeListsExact ==
  \A n \in Sizes :
    LET members == {c \in FreeChunks : heap_chunk_slot[SizeOf(c)] = n}
        next == heap.free.next
    IN  IF members = {} THEN heap.free_chunk[n] = NULL
        ELSE /\ heap.free_chunk[n] \in members
             /\ \A c \in members : next[c] \in members /\ heap.free.prev[next[c]] = c
             /\ \A S \in (SUBSET members) \ {{}} :
                  (\A c \in S : next[c] \in S) => S = members

(***************************************************************************)
(* Coalescing is complete: kfree leaves no two neighbours free, and the    *)
(* ends are never merged (the comment at mrvn_heap_init).                  *)
(***************************************************************************)
NoAdjacentFree ==
  /\ heap.used[head] /\ heap.used[tail]
  /\ \A c \in Chunks : heap.used[c] \/ heap.used[heap.all.next[c]]

(***************************************************************************)
(* The clients and the heap agree: the used chunks are the live blocks,    *)
(* each of which still has the room that was asked for.                    *)
(***************************************************************************)
LiveBlocksKept ==
  /\ {a.ptr - HEADER_SIZE : a \in live} = Inner \ FreeChunks
  /\ \A a, b \in live : a.ptr = b.ptr => a = b
  /\ \A a \in live : SizeOf(a.ptr - HEADER_SIZE) >= a.req

\* mem_meta is the memory the headers take, through every split and merge.
MetaExact ==
  heap.mem_meta = 2 * ChunkStruct + HEADER_SIZE * Cardinality(Inner)

(***************************************************************************)
(* kmalloc gives up only when no free chunk has twice the size: the search *)
(* by size class may pass over a chunk that fits, but never over one twice *)
(* as large.                                                               *)
(***************************************************************************)
FailsOnlyWhenShort ==
  [][\A size \in Requests :
       (kmalloc(size) /\ ret' = NULL)
          => \A c \in FreeChunks : SizeOf(c) < 2 * Rounded(size)]_vars

\* The blocks the clients see.
ClientBlocks == {[at |-> a.ptr, len |-> SizeOf(a.ptr - HEADER_SIZE)] : a \in live}

Blocks == INSTANCE Arena WITH
            First <- 0, Last <- HeapSize - 1, Unit <- ALIGN, blocks <- ClientBlocks

(***************************************************************************)
(* The chunk lists implement the arena: kmalloc, kfree and krealloc hand   *)
(* out disjoint aligned blocks and never change another client's block.    *)
(***************************************************************************)
ImplementsArena == Blocks!Spec
=============================================================================
