# A TLA+ verification project for the alpine kernel

The alpine kernel (`src/`) is a small x86-64 kernel: it boots through multiboot2, sets up
physical pages, page tables and a heap, scans the PCI buses, starts the other cores, and runs a
shell and an idle process on a text terminal. This directory models the parts that keep state
and the library functions they rest on, checks them with TLC on small instances, and proves the
main results about eight of them with TLAPS.

Paths below are relative to the repository.

## 1. Inventory

| part | state | operations | interacts with | what makes it correct |
|---|---|---|---|---|
| page manager `kernel/mem/pgm.c` | header (counts, hint), bitmap | init, allocate, free | page tables, stacks | a page has one holder; count exact; hint hides no page |
| heap `kernel/mem/heap.c` | address-ordered chunk list, size-class lists, three counters | kmalloc, kcalloc, kfree, krealloc | everything in C | blocks disjoint and long enough; free lists exact; complete merging |
| memory map `kernel/mem/mem.c` | sorted list of typed ranges | mark, claim, look-up | boot, devices, stacks | sorted, disjoint, latest claim wins |
| page tables `kernel/mem/mem.c` | four-level tables | map page, map range, allocate range, page fault | two page managers | a mapping never loses another one |
| linked list `libc/sys/dll.c` | head, tail, size; prev, next, owner | add, remove at either end or beside a node | memory map, PCI | pointers mirror each other |
| circular buffer and pointer `libc/sys/circ_buf*.c` | bytes, head, tail, size | enqueue, dequeue, peek at both ends | keyboard, terminal, shell | a bounded deque |
| keyboard `kernel/device/kb.c` | event queue, pressed keys, locks | interrupt handler, `kb_getchar` | PIC, shell | order kept; modifiers follow the keys |
| processes `kernel/cpu/process.c`, `isr.c` | process table, saved frames, current process | create, switch on the timer | stacks, PIC | frames on their own stacks; both run |
| cores `kernel/cpu/smp.c`, `trampoline.asm` | the id counter | start message, `enter_smp` | processes, PIC | ids unique; every core gets a created process |
| terminal `kernel/tty/tty.c` | character ring, ring of line starts, cursor, scroll position, screen | put, delete, scroll, clear | circular buffer, drivers | the screen shows what the buffers hold; old lines unchanged |
| shell `kernel/shell/sh.c` | command line, history ring, prompt limit | one per key, execute | keyboard, terminal, idle process | the screen shows the command; the history holds what was entered |
| strings, vector, strsplit `libc/string`, `libc/sys` | none (strtok: one pointer) | search, compare, copy, split | shell, ACPI | agree with the C definitions |
| numbers, printf `libc/stdlib`, `libc/stdio` | none | read, write, format | all | agree with the C definitions, at the limits of the widths too |
| PCI, USB, ACPI `kernel/device` | list of devices | scan, look up, name | memory map, list, strings | every function listed once |
| boot code, GDT, MSR, multiboot, ELF, font, test framework | tables found at boot, registers | set up, print | | see section 7 |

The hard behaviours are: the keyboard interrupt in the middle of a dequeue; the timer
interrupt that changes the stack; cores that race for an id and share the interrupt mask;
long sequences of splits and merges in the heap; half-open ranges that touch or engulf each
other; a search hint and an unchecked scan that rely on a counter; two rings that fill up at
different paces behind one screen; a prompt limit that goes stale when something scrolls; an
idle process that prints into the middle of a command. PROJECT.json lists each at its line,
with the properties aimed at it.

## 2. Plan

Done, in this order: page manager with its abstract pool and proofs; heap and its arena; linked
list; memory map; page tables; circular buffer; keyboard; end of the boot, cores and processes
with proofs; string functions, vector and strsplit; numbers and printf; ACPI look-up and PCI
scan; terminal; shell and idle process; proofs for the keyboard's queue, the memory map and the
rest of `Smp`'s safety properties; proofs of all safety properties of the heap and of the linked
list, both refinements included, of the keyboard's modifiers and of the page tables; proofs of
the circular buffer's operations and of the shell's history, down to the string functions and
the bytes of the slots.

Left, in order of importance:

1. A switch of processes inside the handling of a key (section 5): `tty_putchar` of both
   processes split at its loads and stores.
2. The virtual addresses that the ranges of the memory map carry.
3. A bound on the lengths of lines under which the recursion of the terminal ends; with it, proofs
   about the screen.

## 3. Modules and the code

`PROJECT.json` maps every definition to its lines.

**BitScan, Pgm, PageAlloc, PgmProofs.** `BitScan` is `pgm_first_one`: a 64-bit word is the set
of its one bits and each of the six `if`s is one `Halve`. `Pgm` keeps the bitmap (`ones`), the
hint (`ptr`, as a word index) and the counter; `held` is a ghost for the pages the clients hold.
The sizes (`dir_pages`, `mem_pages`, `DirBits`) are `pgm_init`'s sums. Words past the directory
are managed memory that nobody initialised, so reading one returns any value. `PageAlloc` is
the pool the clients see: it lends its lowest page and refuses only when it is empty.

**Heap, Arena, HeapProofs.** Addresses are offsets; `heap.all` and `heap.free` are the two pairs of links
with exactly the assignments of `dlist_*`; `free_chunk` the class heads; the counters wrap at
`CounterMod`. The free links of a chunk in use are overwritten (`NULL`), so following one is
seen. `live` is a ghost for what the clients hold. `Arena` is what malloc promises: disjoint,
aligned blocks that stay where they are until freed or moved.

**Dll, ListOps, DllProofs.** All pointers of two lists and their nodes, removed nodes with stale ones
included. `panicked` is a failed assert. `ListOps` has the lists as sequences.

**MemMap, MemMapProofs.** `_mem_map` as a sequence (justified by `Dll`), with a ghost `claimed`
for the type last given to each address. The two constants `Engulfing` and `Abutting` admit the
two kinds of claims on which `mem_intersect` errs, so that the main run can say what holds
without them.

**Paging, PagingProofs.** The memory of the tables as words of pages, the two page managers as the sets of
their free pages, lent from the lowest on (justified by `PgmImplementsPool`). `mem_map_page`
descends through the four levels; a zero entry gets a cleared page of low memory, any other
entry is taken for the address of a table, a 2M entry included: a 4K mapping inside a 2M page
therefore writes a word into that page's memory and not into a table. `Whole2m` is what a range
of 2M pages becomes: the loop maps its last page whole (section 5). `wanted` is a ghost for
the page each address was last given, computed from the range and not from the loop (`MapEach`)
that maps it, and `Translate` the processor's walk. `short` is set when
a manager has no page; the code goes on with page 0 and the model stops there.

**CircBuf.** The operations as operators on a record of slots and indices, instantiated by
`Keyboard` (scan codes), `Tty` (line starts), `Shell` (history slots) and `Library` (all
sequences of operations); its theorem is in `KeyboardProofs`. `circ_buf_ptr` is a position modulo the capacity in `Tty`.

**Keyboard, KeyboardProofs.** The interrupt handler is one step, since nothing interrupts it;
`kb_getchar` is split at every load and store of the shared queue, and its two stores come in
either order because the compiler may swap them. The device sends press, repeat and release
codes as a real keyboard does. A letter has a character in each half of the layout, modifiers
the same in both.

**Smp, SmpProofs.** From `pci_init` on: `pcs_init`, the warnings, the startup message, the
trampoline (which masks the shared interrupt controller), `enter_smp` with load and `cmpxchg`
as separate steps, the shell's `pit_init` as a read and a write of the mask, and then calls,
returns and timer interrupts of the two processes. A stack is its depth in units; a page of
the stack area is mapped or not. A push onto an unmapped page of the own stack is the state
`fault`: the processor cannot push the fault's frame either.

**Strings.** The loops of `libc/string`, of `vector.c` and of `strsplit.c` on a memory of bytes,
a function from addresses. A loop is the number of its rounds (`Rounds`: the least number at which
the loop's test fails), a loop that stores is a fold over its rounds or the memory it leaves. A
function that stores returns the new memory. `strtok` returns the pointer it saves.

**Numbers, Printf.** `strtoimax`, `strtoumax` and `lltoa` with integers of `MaxBits` and
`IntBits` bits and C's division; the formatter with its flags, its two passes over width and
precision, its bounded output and the buffer for the digits, whose end nothing tests: a number
that is too long for it gives `OVERRUN`, and what the call does then is not followed.

**Pci.** The search of the ACPI table, the scan over bridges, buses, devices and functions, and
the class tables of `pci.c`. The description of a class is the path of codes leading to it, so
that an entry hung into the wrong table is seen. The address of the USB controller comes out of
the base address registers, with the masks of the code.

**Library.** One call of a function of these four modules, or one sequence of operations on a
circular buffer: the input is chosen, the function computes, and the result is compared with a
reference written as a set, an extremum or a sum.

**Tty.** The terminal as a record: the character ring, the ring of line starts (through
`CircBuf`), the write pointer, the first row's line, the cursor and the cells of the screen. The
functions are operators because the shell calls several of them in one key; `tty_flush` and
`tty_putchar_raw` call each other as in the code: `Draw` is one recursive function for both.

**Shell, ShellProofs.** One action per key of `sh_handle_input` on top of `Tty`; `mem` is the storage of the
history, in slots of `SH_MAX_COMMAND` bytes, with the command line in the newest. Execution
splits the line with `Strings!strsplit`; `Meaning` says which kind of command a word is: one
that clears, prints the history, ends the shell, prints a line, or is not found. `idle_main` is
a line of the idle process between two keys. Ghosts: `entered` for the commands, `moved` once an
arrow has moved the cursor or the view, `disturbed` from a line of the idle process, or from the
replacement of a command that began above the screen, to the next prompt, `filled` once a command has filled its slot, `t.missed` once a deletion has kept a line
it should have dropped.

## 4. Runs

| run | shows |
|---|---|
| `page_manager` | bitmap, hint and counter stay in step; refinement of the pool |
| `heap` | both kinds of lists exact, complete merging, blocks kept, failure only when short, refinement of the arena |
| `linked_list` | pointers mirror each other, refinement of sequences |
| `memory_map` | sorted, disjoint, latest claim found; panics exactly on overlaps |
| `memory_map_claims` (violation) | the claims `mem_intersect` misjudges |
| `page_tables` | each address translates to its latest mapping and no page has two uses, until a page manager runs out |
| `keyboard` | order, count, modifiers, progress, under interrupts at every instruction |
| `one_core` | frames on their own stacks; both processes run until a stack outgrows its page |
| `two_cores` | unique ids, created processes, mapped stacks |
| `one_core_stack` (violation) | one stack mapped for two processes |
| `functions` | every library function, the circular buffer and the PCI scan agree with their references, apart from the inputs that the properties name |
| `terminal` | the screen shows the command and the lines that the buffers hold, the history holds what was entered, the cursor stays within the command, lines above the prompt do not change |

### Bounds

* Pages: 10 pages, words of 4 bits, so that the directory has three words and a partial last
  one. The proofs remove the bound.
* Heap: 28 bytes, a header of 2, sizes that round and do not, room for up to four chunks: a
  chunk has free and used neighbours on both sides, classes hold several chunks, splits leave
  rests that are and are not large enough.
* List: two lists and four nodes, so that inner nodes, ends and stale pointers into the other
  list all occur. Memory map: five addresses and four boot maps (empty, one range, touching,
  apart); the proofs remove the bound.
* Page tables: two entries at the upper three levels and 13 at the lowest, so that the boot's
  2M page holds the three tables, six free pages and one of the five main pages. Tables are made at every
  level below the top, 4K and 2M mappings lie beside, inside and over each other, and both page
  managers can run out. One 2M range is no multiple of a 2M page.
* Keyboard: five scan codes (`MaxTyped`), a queue of three, and a typist at most three codes
  ahead (`MaxAhead`), so that the queue fills, wraps and never overruns. An overrun drops the
  oldest codes, which is outside the promise checked. The proofs keep only `MaxAhead <= Capacity`.
* Cores: the depth of calls (`MaxDepth`) ends inside the stack; two cores are as many as there
  are processes.
* Functions: strings of up to three characters (five when they are split) over two letters and
  the blank, integers of 6 and 4 bits with magnitudes on both sides of every limit, widths and
  precisions none, 0, 2 and 5, output buffers of 4 and 30, six bytes for the digits (all but the
  six binary ones of a negative number fit, as in the code's 38 all but its 64), all class codes that a table has and
  some that none has, two buses of two devices with three functions below one bridge and one
  device below another, all registers of 6 bits. The circular buffer has three slots, which is no power of two, and
  seven operations (`MaxOps`), enough to fill it, go around and empty it from either end.
* Terminal: two rows of three cells, five lines and twelve characters kept, commands of five
  characters and two of them in the history. The relations of the code are kept: a command (4096
  characters) can be longer than the screen (2000 cells of VGA text), so that its prompt scrolls
  off the top and `sh_prompt_limit` wraps; both rings go around and the history drops its oldest.
  A letter, the blank and NUL are typed. Eight keys (`MaxKeys`): a command that is longer than
  the screen, entered, recalled and replaced again. Six keys once an arrow
  was among them (`MaxMovedKeys`): typing at a moved cursor makes overlong lines, and with five lines
  the seventh key reaches an endless recursion of `tty_flush` (section 5). One line of the idle process (`MaxIdle`),
  which counts as two keys (`KeyLimit`). `SlotsFresh`: once a command has filled its slot, the
  model follows the shell only until the slots are used again, since the missing terminator then
  makes `strcpy` run on into other memory.

### Fairness

`Keyboard` has weak fairness of the reader: the shell's process gets the processor at every
second tick and its instructions are always enabled. Typing is not fair. `Smp` has weak
fairness of the boot's instructions and of the timer, a periodic device. `BothRun` excepts a
stack fault, which ends everything (`one_core_stack`).
Deadlock is not checked where the system stops for good (a panic, a fault), where a behaviour is one call
(`functions`) or where a bound on typing is reached.

## 5. Findings

Two runs show the code doing other than a panic's message or a comment of the repository says;
PROJECT.json quotes them:

* `mem_intersect` misses a claim that engulfs a range and sees one that only touches it
  (`mem.c:252`);
* one stack per core, two processes (`process.c:45`).

More was met while modelling. Unless it says otherwise, each is in the model, and the properties
say where they stop.

Memory
* The page directory is sized without its header (`pgm.c:21`): at some region sizes the last
  words of the bitmap lie behind the directory. Runs and theorems assume `DirFits`.
* The heap's `mem_free` drifts by `HEADER_SIZE` whenever a chunk is used whole or freed without
  a merge (`heap.c:220`), which the test framework would report as a leak (`test.h:41`).
* The owner test of `dll_remove` does not see a node that was removed before (`dll.c:106`),
  since no removal clears the owner.
* `PAGE_SIZE_2M` has no parentheses (`mem.h:12`), so the assert on the size of a 2M range
  (`mem.c:198`) tests only that it is even; `pci.c:547` passes the size of any range, and the rest
  of its last 2M page is mapped as well. `PagingAssumption` asks that no lent page is in it.
* `warn()` returns from `kernel_init` before `pcs_init` (`kernel.c:35`), so `enter_smp` calls NULL.

Library
* `strncmp` steps both pointers before it takes their difference (`strcmp.c:14`): a table whose
  name differs from "MCFG" in one letter and goes on alike passes for it. Nor does it stop at a NUL.
* `strncat` can return without a terminator (`strcat.c:21`); `strtrim` of a blank string walks
  below it.
* `printf` writes `%X` and `%p` in decimal and `%x` in capitals (`printf.c:231-246`), although
  a comment above speaks of compatibility with ANSI C; `%X` and `%p` are in the model and in no run. It
  has 38 bytes for the up to 64 digits of `%b` (`printf.c:37`, `97`): `PrintfExact` says for which
  numbers the bytes behind them are written.
* `circ_buf_peek_tail` and `circ_buf_peekn_tail` do not wrap in front of slot 0
  (`circ_buf.c:103`).

PCI
* The high half of a 64-bit register passes through the masks of a low half (`pci.c:621`).
* `header_type & PCI_HEADER_TYPE_DEVICE` is always 0 (`pci.c:574`), so that only two registers
  of a device are read.

Terminal and shell
* With the tail at slot 0, `tty_delete` keeps a line that the cursor has left (`t.missed`).
* A full command's terminator is the first byte of the newest history entry (`sh.c:291`).
* After a left arrow, typing replaces on the screen and appends in the command; with a full last
  row the right arrow puts the cursor off the screen; while scrolled up, typing overwrites old
  lines; lines that have become longer than a row make `tty_flush` scroll while it draws,
  without an end if enough rows are overlong (`tty.c:239`).
* A command that scrolls its own prompt off the screen takes the unsigned `sh_prompt_limit` below 0
  (`sh.c:92`): backspace then deletes nothing, and recalling another command moves the cursor past
  the top of the screen, far below its end (`tty.c:115`).
* A key without a character sends NUL (`kb.c:12`): the screen shows a blank, and Enter runs only
  what is before it.
* A line of the idle process leaves the prompt limit behind: backspace then deletes at the wrong
  place and, at an empty command, writes at the wrapped index, 2^32 - 1 bytes behind its buffer
  (`sh.c:246`); the model ends at that write. Nothing locks the terminal, so a switch inside a key can also leave its
  variables half changed; this is not modelled.

## 6. Proofs

`PgmProofs` assumes only `SizesAssumption` (positive sizes, words of at most 64 bits that divide
page and header) and, for the theorems about the manager, `DirFits`: the directory covers the
managed pages, which the code does not ensure (section 5).

* `FirstOneIsLowest`: each halving keeps the lowest bit (`HalveNarrows`), six of them leave a
  word of one bit.
* `PgmSafety`, `PgmPagesPartitioned`, `PgmCountExact`: the inductive invariant `IInv` is the
  type invariant, the partition of the bits into free and held, the exact count, the sound hint
  and the fact that only managed pages are held. None is inductive alone. The count says that a
  free managed page exists (`FreePageExists`, by cardinality); with the hint and the partition
  the scan meets its word before the directory's end, so no uninitialised word is read
  (`ScanStaysInDirectory`), and the lowest bit of that word is a managed page; that keeps the
  type invariant and the partition.
* `PgmImplementsPool`: under `IInv`, the page found is the lowest free one, so an allocation
  is a `Lend`; a refusal happens with an empty pool.

`SmpProofs` assumes `SmpAssumption`.

* `SmpUniqueIds`, for any number of cores: `IdInv` says that ids taken are below the counter
  and different; a value loaded is at most the counter, so a successful exchange takes an id
  that nobody has.
* `SmpFramesOnOwnStack`, for one core and stacks of any size: `FrameInv` relates the core's
  stack to `p` from the boot on, and the other process's frame to its stack.
* `SmpNoFaultOnStack`, for two cores and more: `StackInv` says that once processes exist every
  page of both stacks is mapped and every depth lies inside a stack (`DepthOnPage`).
* `SmpCallsCreated`, for at most two cores: `CallInv` counts. The counter is the number of cores
  that have taken an id (`OneMoreTaken`), so a core that takes one takes an id below the number
  of cores, and both entries below two were created before any core was started (`Ready`).

`KeyboardProofs` assumes `KeyboardAssumption`, the capacity of `CircBuf` and `MaxAhead <=
Capacity`.

* `KeyboardReadInOrder` and `KeyboardCountNeverAhead`, for queues and inputs of any length:
  `QueueInv` says where in the ring each scan code lies that was typed and not yet read
  (`Queued`: code i in slot i modulo the capacity), with the head moved or not yet moved by a reader that is
  between its two stores, and that the size is at most their number, a value loaded by the
  reader included (`Counted`). The lost increment makes the size too small, never too large.
* `RingIsDeque`, for every capacity and values of any kind: a buffer whose tail is `size` steps
  behind its head (`Formed`) stands for the sequence of its `size` values from the head on
  (`Items`). Each operation keeps `Formed` and does to `Items` what a bounded deque does. The
  arithmetic is in `WrapOn` and `WrapBack`: a step of the head changes by one the offset at
  which every slot is found. The peeks at the tail, which do not wrap, are not part of it.
* `KeyboardModifiersTrackKeys`: `ModInv` adds to it a history that gives the state of the
  modifiers after each scan code (`Follows`); the keys held down are its state after the codes
  typed, the driver's variables its state after the codes handled. It uses that letters are no
  modifiers.

`HeapProofs` assumes `HeapSizes` (aligned sizes, room for the three chunks of the
initialisation, counters wider than the heap) and `ClassForEverySize`: the class of the whole heap
is one of the `NUM_SIZES` heads, as the 32 heads of the code are for its heap.

* `HeapInvariant`: `HeapInv` says that the address-ordered list visits its chunks by increasing
  address with room for a header and links between them (`Tiling`), that each class head leads
  one cycle through the free chunks of its class (`Lists`), that no two free chunks are
  neighbours (`Separated`), that `mem_meta` counts the chunks, and that the used chunks
  are the clients' blocks (`Owned`). All of it is needed at once: taking a chunk off its class
  list needs the cycle, the class of what a split leaves needs the tiling, and a complete merge
  needs that at most the two neighbours of a freed chunk are free. A cycle is a
  set of chunks whose links are inverse and none of whose proper subsets the links close, which
  linking and unlinking one chunk keep; `KmallocGood` and
  `KfreeGood` follow the code's steps, and krealloc is both.
* `HeapChunksTile`, `HeapFreeLists`, `HeapNoAdjacentFree`, `HeapLiveBlocks` and `HeapMeta` follow
  from it. `HeapFailsOnlyWhenShort` needs that classes grow with sizes (`SlotMonotone`) and that
  twice a size is one class higher (`SlotEquation`).
* `HeapImplementsArena`: a step adds, drops or moves one block, and chunks that tile the heap
  have disjoint payloads.

`DllProofs` assumes `DllAssumption` (the nodes are finitely many and NULL is none of them).

* `DllBackPointers` and `DllImplementsSequences`: `DllInv` says that the pointers represent the
  sequences that following `next` gives (`Rep`): for each list, `next` and `prev` of the node at
  position i are its neighbours at i + 1 and i - 1, the ends are NULL, the owner is the list and
  no node is there twice (`Chain`). `BackPointersMirror` alone is not inductive: it does not say
  that no node is in two lists or that the last node is reached. Each operation is shown to be
  an `Enters` or a `Leaves`, the pointers that differ when one position appears or disappears;
  `EnterChain` and `LeaveChain` say that the list is then the longer or shorter sequence and
  `ChainFrame` that the other lists are as before. A stale pointer of a node outside the lists does not
  matter, because a node that enters gets all three of its pointers.

`PagingProofs` assumes `PagingAssumption`: the boot page holds the three tables of `boot.asm` and
the pages of the low page manager, page 0 apart; main pages are other pages, perhaps also in the
boot page; what is mapped one to one (devices, ACPI tables, directories) are no pages that are
lent, also not in the rest of the last 2M page of a range; 2M ranges begin at a 2M page
(the code asserts it), whatever their size; and the stacks, at addresses of their own, lie in no 2M page.

* `PagingLatestMapping` and `PagingPagesNotShared`: `PagingInv` says, as long as no page manager
  has run out, that the pages lent for tables have levels (`Levels`: an entry of level l leads to
  a table of level l - 1, at level 2 perhaps to an aligned 2M page, at level 1 to a page), that
  no two entries lead to the same table or lent page (`Single`), that boot.asm's entries are
  there (`Boot`), and that every address leads to its page, a 2M page one to one (`Right`). The
  levels are existentially quantified: no variable of the code holds them. `LatestMapping` alone
  is not inductive, because tables that a 2M page has cut off are still lent, and because a
  table in two places would be changed for two addresses. `SamePath` says that addresses with a
  common table have the indices above it in common; with it one new entry changes the walk of one
  address (`Written4k`) or of one block (`Written2m`). A new table is cleared, so it changes no
  walk (`GrownLook`), and a 4K page inside a 2M page writes outside all tables
  (`WrittenOutside`). The steps down (`TwoSteps`, `ThreeSteps`) may make tables at every level.
  The loops keep all this round by round (`EachSound`), also after a page manager has run out,
  when only the types are left.

Facts about recursive functions are needed: the size classes of `heap_chunk_slot`, the walk of
`Forward`, the rounds of `MapEach` and the pages of `LeftAfter`. They are proved with the least number for which they would fail.

`MemMapProofs` assumes `BootMapsAssumption`; `~Engulfing` for all three theorems and `~Abutting` for the third.

* `MemMapSortedDisjoint`, `MemMapLookupTellsLatest`: `MapInv` says that the map is sorted and
  disjoint and that each range has the type last given to each of its addresses, an address
  outside all ranges none (`Tells`). Neither half is inductive alone: a cut keeps the types of the other
  addresses because no other range holds them. Cutting and inserting are both a `Splice`, a
  sequence with some elements replaced; `SpliceIsMap` and `SpliceTells` say when it keeps the
  two halves, `CutParts` that prefix, claim and suffix cover what was cut, and `InTheGap` that a
  claim which meets no range lies on one side of each.
* `MemMapPanicIffOverlap`: a range that contains the claim is met by it, and a range met before
  that one would have to end in front of it (`PanicDecided`).

`ShellProofs` assumes `ShellAssumption`: at least one slot for a command and one for the history,
and characters that are numbers. NUL may be typed: the layout gives it for keys without a
character. The terminal is opaque: nothing about the screen is used, only that a key which does
not name `mem` or `history` leaves them alone.

* `ShellHistoryKept` and `ShellHistoryEnds`, for slots of any number and size and any keys: `Inv`
  says that the slots are taken from the last to the first until all are used, that each entry of
  the history has a NUL in its slot, or in the first byte behind it when a command has filled it
  and that slot is not the command's (`Sound`), that the two positions are in range, and, until a
  command has filled its slot, that the entries are the last of the commands entered without
  repetitions (`Recorded`), of which the newest is the last entered (`LastKept`). `HistoryKept`
  alone is not inductive: without a terminator in each slot, reading an entry could run into the
  command that is being edited, and a recall could copy more than the slot holds. One key is shown
  to write only in the command's slot or the NUL behind it (`EditedOnly`, `Edited`), which leaves
  the other texts alone; enter either finds the command equal to the newest entry, as `strequ`
  does (`EqualTexts`), or shifts the history by one (`Kept`, `RecordedPush`).
* The lemmas about `Strings` under it hold for any memory in which the texts end: what `strlen` returns
  (`LengthOfText`), that `strequ` holds of the same texts only (`EqualTexts`), what `strcpy`
  leaves of the slots (`Copied`), and that an empty line has no words (`NoWords`).
* `SlotsFresh` limits both: after a command has filled its slot the model ends before a slot is
  used again.

Only model-checked:

* liveness (`QueueDrains`, `BothRun`), which is outside what the prover does;
* what the screen shows: `CommandShown`, `ScreenShowsLines`, `ScrollbackKept` and the cursor in
  `CommandFits` (its bound on the position in the command is in `ShellHistoryEnds`). The recursion
  of `tty_putchar_raw` through `tty_flush` (`Draw`) does not end for every terminal (section 5), so the function is
  not known to have a value and a proof about it has nothing to start from;
* the library functions (`SearchesExact`, `CopiesExact`, `TokensExact`, `NumbersExact`, `PrintfExact`,
  `ClassNamesExact`, `DevicesFound`): what folds and recursions over an arbitrary input compute needs
  induction over data. `RingExact` is checked for sequences of operations, of which `RingIsDeque`
  proves each single one.

## 7. Not modelled

* Boot code, GDT, MSRs and the descriptor table: straight-line register set-up with no state
  that a later step tests. The dispatch of the timer and the keyboard is in `Smp` and `Keyboard`.
* Multiboot information and ELF: walks over tables in memory that record pointers to them;
  their result is the boot map of `MemMap`.
* Fonts, pixels, colours and the cursor's registers: pure output. A cell of the screen holds
  its character.
* Device registers of APIC and PIC beyond the startup message and the mask.
* Commands that only print (`pci_print`, `heap_print_info`, ...): one line of output in `Shell`.
* The test framework: counting and printing of failures.

Of the modelled parts: running out of heap in the memory map, sizes near 2^64, overrun of the keyboard
queue, page managers that run out and more than two cores. Upper-case letters and control
characters in the string functions are left out, and so is a failing `malloc` in `strdup` and `vector`.
Which codes a class table lists is taken from the table itself: nothing in the repository lists them
a second time, so `ClassNamesExact` is about the look-up and about where each table hangs.
