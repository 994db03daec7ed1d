-------------------------------- MODULE Smp --------------------------------
(***************************************************************************)
(* The end of the boot and the life after it: kernel_init creates the two  *)
(* processes and starts the other cores, every core takes an id in         *)
(* enter_smp and runs the process of that id on its stack, and the timer   *)
(* interrupt switches between the two.                                     *)
(*                                                                         *)
(* A stack is a number of units that fill from its first page on; what     *)
(* matters of a process is how deep its stack is.                          *)
(***************************************************************************)
EXTENDS Integers, FiniteSets

CONSTANTS Cores, Bsp,        \* the cores; the one that boots
          StackPages,        \* PCS_STACK_SIZE / PAGE_SIZE_4K: 4
          PageUnits,         \* stack units in a page
          MaxDepth,          \* how deep the processes' calls go
          DevicesMayFail     \* TRUE: pci_init or usb_init may return false

ASSUME SmpAssumption ==
  /\ Bsp \in Cores /\ IsFiniteSet(Cores)
  /\ StackPages \in Nat \ {0} /\ PageUnits \in Nat \ {0}
  /\ MaxDepth \in 0..(StackPages * PageUnits - 1)
  /\ DevicesMayFail \in BOOLEAN

\* cpu_init: as many cores as cpuid reports.
cpu_core_count == Cardinality(Cores)

\* sh_start and idle_main; the rest of _processes is never filled.
Processes == {0, 1}

VARIABLES pc,                \* where each core is
          rax, mask,         \* its registers in enter_smp and pic_enable_irq
          stack, sp,         \* the stack it runs on and how deep it is
          process_counter,   \* of trampoline.asm
          created,           \* the filled entries of _processes
          frame,             \* _processes[i].frame
          p,                 \* of isr.c: the process the timer interrupts
          irqs,              \* the interrupts not masked in the PIC
          mapped,            \* the mapped pages of the stack area
          sent,              \* smp_init has sent the startup message
          warned             \* ghost: a warn() was taken

pcs == <<created, frame, p>>
vars == <<pc, rax, mask, stack, sp, process_counter, created, frame, p, irqs,
          mapped, sent, warned>>

Pages == (0..(cpu_core_count + 1)) \X (0..(StackPages - 1))

-----------------------------------------------------------------------------
\* kernel_init has come to pci_init: the keyboard's interrupt is enabled.
Init ==
  /\ pc = [c \in Cores |-> IF c = Bsp THEN "boot" ELSE "wait"]
  /\ rax = [c \in Cores |-> 0] /\ mask = [c \in Cores |-> {}]
  /\ stack = [c \in Cores |-> 0] /\ sp = [c \in Cores |-> 0]
  /\ process_counter = 0
  /\ created = {}
  /\ frame = [i \in Processes |-> [stack |-> 0, sp |-> 0]]
  /\ p = 0
  /\ irqs = {"keyboard"}
  /\ mapped = {}
  /\ sent = FALSE /\ warned = FALSE

\* Mutant: one stack short.
StacksAllocated_OneShort == (0..(cpu_core_count - 2)) \X (0..(StackPages - 1))

\* pcs_init: mem_allocate_range(_pcs_stack_addr, cpu_core_count() * PCS_STACK_SIZE)
StacksAllocated == (0..(cpu_core_count - 1)) \X (0..(StackPages - 1))

\* Mutant: the second process is not filled in.
pcs_init_NoIdle ==
  /\ pc[Bsp] = "boot"
  /\ mapped' = StacksAllocated \cup {<<i, 0>> : i \in Processes}
  /\ created' = {0}
  /\ frame' = [i \in Processes |-> [stack |-> i, sp |-> 0]]
  /\ pc' = [pc EXCEPT ![Bsp] = "smp"]
  /\ UNCHANGED <<rax, mask, stack, sp, process_counter, p, irqs, sent, warned>>

(***************************************************************************)
(* pcs_init: create_process writes the first frame at the top of the       *)
(* process's stack; where that is not mapped, the page fault handler, on   *)
(* the boot stack, maps its page.                                          *)
(***************************************************************************)
pcs_init ==
  /\ pc[Bsp] = "boot"
  /\ mapped' = StacksAllocated \cup {<<i, 0>> : i \in Processes}
  /\ created' = Processes
  /\ frame' = [i \in Processes |-> [stack |-> i, sp |-> 0]]
  /\ pc' = [pc EXCEPT ![Bsp] = "smp"]
  /\ UNCHANGED <<rax, mask, stack, sp, process_counter, p, irqs, sent, warned>>

\* warn(): kernel_init returns, and kernel_main goes on with enter_smp.
warn ==
  /\ DevicesMayFail
  /\ pc[Bsp] = "boot"
  /\ pc' = [pc EXCEPT ![Bsp] = "enter"]
  /\ warned' = TRUE
  /\ UNCHANGED <<rax, mask, stack, sp, process_counter, pcs, irqs, mapped, sent>>

\* INIT, then twice the startup message; its delays wait for nobody.
smp_init ==
  /\ pc[Bsp] = "smp"
  /\ sent' = TRUE
  /\ pc' = [pc EXCEPT ![Bsp] = "enter"]
  /\ UNCHANGED <<rax, mask, stack, sp, process_counter, pcs, irqs, mapped, warned>>

\* trampoline_start: a core that was started masks all interrupts.
Trampoline(c) ==
  /\ pc[c] = "wait" /\ sent
  /\ irqs' = {}
  /\ pc' = [pc EXCEPT ![c] = "enter"]
  /\ UNCHANGED <<rax, mask, stack, sp, process_counter, pcs, mapped, sent, warned>>

-----------------------------------------------------------------------------
\* enter_smp: mov rax, [process_counter]
LoadCounter(c) ==
  /\ pc[c] = "enter"
  /\ pc' = [pc EXCEPT ![c] = "try"]
  /\ rax' = [rax EXCEPT ![c] = process_counter]
  /\ UNCHANGED <<mask, stack, sp, process_counter, pcs, irqs, mapped, sent, warned>>

\* Mutant: mov in place of lock cmpxchg.
CmpXchg_Blind(c) ==
  /\ pc[c] = "try"
  /\ process_counter' = rax[c] + 1
  /\ pc' = [pc EXCEPT ![c] = "take"]
  /\ UNCHANGED <<rax, mask, stack, sp, pcs, irqs, mapped, sent, warned>>

\* try: lock cmpxchg [process_counter], rbx; jnz try
CmpXchg(c) ==
  /\ pc[c] = "try"
  /\ \/ /\ process_counter = rax[c]
        /\ process_counter' = rax[c] + 1
        /\ pc' = [pc EXCEPT ![c] = "take"]
        /\ UNCHANGED rax
     \/ /\ process_counter # rax[c]
        /\ rax' = [rax EXCEPT ![c] = process_counter]
        /\ UNCHANGED <<pc, process_counter>>
  /\ UNCHANGED <<mask, stack, sp, pcs, irqs, mapped, sent, warned>>

(***************************************************************************)
(* The stack and the main function are read from _processes[id] and main   *)
(* is called.  An entry that was never filled has the main function NULL.  *)
(***************************************************************************)
CallMain(c) ==
  /\ pc[c] = "take"
  /\ pc' = [pc EXCEPT ![c] = IF rax[c] \notin created THEN "null"
                             ELSE IF rax[c] = 0 THEN "pit" ELSE "run"]
  /\ stack' = [stack EXCEPT ![c] = rax[c]]
  /\ UNCHANGED <<rax, mask, sp, process_counter, pcs, irqs, mapped, sent, warned>>

\* sh_start: pit_init reads the mask ...
ReadMask(c) ==
  /\ pc[c] = "pit"
  /\ pc' = [pc EXCEPT ![c] = "unmask"]
  /\ mask' = [mask EXCEPT ![c] = irqs]
  /\ UNCHANGED <<rax, stack, sp, process_counter, pcs, irqs, mapped, sent, warned>>

\* ... and writes it back with the timer enabled.
WriteMask(c) ==
  /\ pc[c] = "unmask"
  /\ irqs' = mask[c] \cup {"pit"}
  /\ pc' = [pc EXCEPT ![c] = "run"]
  /\ UNCHANGED <<rax, mask, stack, sp, process_counter, pcs, mapped, sent, warned>>

-----------------------------------------------------------------------------
\* A write at the top of core c's stack hits a mapped page.
Room(c) == <<stack[c], sp[c] \div PageUnits>> \in mapped

(***************************************************************************)
(* A page fault on the stack itself: the processor cannot push the fault's *)
(* frame either.                                                           *)
(***************************************************************************)
StackFault(c) == pc' = [pc EXCEPT ![c] = "fault"] /\ UNCHANGED <<stack, sp>>

\* The process that runs on core c calls a function ...
Call(c) ==
  /\ pc[c] = "run" /\ sp[c] < MaxDepth
  /\ \/ Room(c) /\ sp' = [sp EXCEPT ![c] = @ + 1] /\ UNCHANGED <<pc, stack>>
     \/ ~Room(c) /\ StackFault(c)
  /\ UNCHANGED <<rax, mask, process_counter, pcs, irqs, mapped, sent, warned>>

\* ... or returns from one.
Return(c) ==
  /\ pc[c] = "run" /\ sp[c] > 0
  /\ sp' = [sp EXCEPT ![c] = @ - 1]
  /\ UNCHANGED <<pc, rax, mask, stack, process_counter, pcs, irqs, mapped, sent,
                 warned>>

\* Mutant: the process is not changed.
Other_Same(i) == i

\* p == 0 ? 1 : 0
Other(i) == IF i = 0 THEN 1 ELSE 0

\* Mutant: the frame is saved for the process that comes next.
FrameSaved_ForNext(c) ==
  [frame EXCEPT ![Other(p)] = [stack |-> stack[c], sp |-> sp[c]]]

\* pit_isr: _processes[p].frame = frame
FrameSaved(c) ==
  [frame EXCEPT ![p] = [stack |-> stack[c], sp |-> sp[c]]]

\* The end of the wrapper: the frame that main_isr returned is popped.
start_isr(c, f) == /\ stack' = [stack EXCEPT ![c] = f.stack]
                   /\ sp' = [sp EXCEPT ![c] = f.sp]

(***************************************************************************)
(* The timer interrupt, which the PIC delivers to the booting core (the    *)
(* others never set their interrupt flag): the wrapper pushes the frame,   *)
(* pit_isr saves it for p, and the other process's frame is popped.        *)
(***************************************************************************)
pit_isr ==
  /\ pc[Bsp] = "run" /\ "pit" \in irqs
  /\ \/ /\ ~Room(Bsp)
        /\ StackFault(Bsp)
        /\ UNCHANGED <<frame, p>>
     \/ /\ Room(Bsp)
        /\ frame' = FrameSaved(Bsp)
        /\ p' = Other(p)
        /\ start_isr(Bsp, frame'[p'])
        /\ UNCHANGED pc
  /\ UNCHANGED <<rax, mask, process_counter, created, irqs, mapped, sent, warned>>

Boot == \/ pcs_init \/ warn \/ smp_init
        \/ \E c \in Cores : \/ Trampoline(c) \/ LoadCounter(c) \/ CmpXchg(c)
                            \/ CallMain(c) \/ ReadMask(c) \/ WriteMask(c)

Next == Boot \/ pit_isr \/ \E c \in Cores : Call(c) \/ Return(c)

\* Instructions are executed and the timer keeps ticking.
Spec == Init /\ [][Next]_vars /\ WF_vars(Boot) /\ WF_vars(pit_isr)

-----------------------------------------------------------------------------
\* Type invariant: in particular, the counter counts cores.
TypeOK ==
  /\ pc \in [Cores -> {"boot", "wait", "smp", "enter", "try", "take", "pit",
                       "unmask", "run", "null", "fault"}]
  /\ rax \in [Cores -> 0..cpu_core_count]
  /\ mask \in [Cores -> SUBSET {"keyboard", "pit"}]
  /\ stack \in [Cores -> 0..cpu_core_count] /\ sp \in [Cores -> 0..MaxDepth]
  /\ process_counter \in 0..cpu_core_count
  /\ created \subseteq Processes
  /\ frame \in [Processes -> [stack : 0..cpu_core_count, sp : 0..MaxDepth]]
  /\ p \in Processes
  /\ irqs \subseteq {"keyboard", "pit"}
  /\ mapped \subseteq Pages
  /\ sent \in BOOLEAN /\ warned \in BOOLEAN

\* The cores that have taken their id.
HasId(c) == pc[c] \in {"take", "pit", "unmask", "run", "null", "fault"}

(***************************************************************************)
(* "Get an unique id": no two cores take the same id in enter_smp, however *)
(* their loads and exchanges interleave, so no two call the same entry of  *)
(* _processes.                                                             *)
(***************************************************************************)
UniqueIds ==
  \A c, d \in Cores : (HasId(c) /\ HasId(d) /\ rax[c] = rax[d]) => c = d

(***************************************************************************)
(* Every core that got its id in a boot without warnings calls a process   *)
(* that pcs_init created.  After a warning it calls NULL: warn() returns   *)
(* from kernel_init before pcs_init.                                       *)
(***************************************************************************)
CallsCreated == TypeOK /\ \A c \in Cores : pc[c] = "null" => warned

(***************************************************************************)
(* The comment in pcs_init: "the stacks need to be fully allocated since   *)
(* we cannot rely on page faults (they use the stack!)".  No process ever  *)
(* touches a page of its stack that is not there.                          *)
(***************************************************************************)
NoFaultOnStack == \A c \in Cores : pc[c] # "fault"

(***************************************************************************)
(* With one core, the process switched to is the one whose frame is taken: *)
(* the core is on the stack of process p, and the frame kept for the other *)
(* process is on the other's stack.  Without this, pit_isr resumes a       *)
(* process on a stack that another one writes.                             *)
(***************************************************************************)
FramesOnOwnStack ==
  pc[Bsp] = "run" => /\ stack[Bsp] = p
                     /\ frame[Other(p)].stack = Other(p)

(***************************************************************************)
(* Neither process starves: pit_isr brings each of them back again and     *)
(* again, unless one has left the mapped part of its stack.                *)
(***************************************************************************)
BothRun ==
  \A i \in Processes :
    []<>((pc[Bsp] = "run" /\ stack[Bsp] = i) \/ pc[Bsp] = "fault")
=============================================================================
