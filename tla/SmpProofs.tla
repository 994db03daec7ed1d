----------------------------- MODULE SmpProofs -----------------------------
(***************************************************************************)
(* Proofs about Smp: ids are unique for any number of cores, and on one    *)
(* core the switched processes stay on their own stacks, whatever the      *)
(* sizes of the stacks and however deep the processes go; with at least    *)
(* two cores no stack faults, and with at most two every core calls a      *)
(* process that was created.                                               *)
(***************************************************************************)
EXTENDS Smp, FiniteSetTheorems, TLAPS

\* The types of what enter_smp uses.
IdsTyped ==
  /\ pc \in [Cores -> {"boot", "wait", "smp", "enter", "try", "take", "pit",
                       "unmask", "run", "null", "fault"}]
  /\ rax \in [Cores -> Nat] /\ process_counter \in Nat

(***************************************************************************)
(* The ids in use are below the counter: an id equal to the counter, which *)
(* is what a successful exchange takes, is new.                            *)
(***************************************************************************)
IdsBelowCounter == \A c \in Cores : HasId(c) => rax[c] < process_counter

IdInv ==
  /\ IdsTyped
  /\ IdsBelowCounter
  /\ UniqueIds

\* kernel_init leaves every core without an id.
LEMMA InitIdInv == Init => IdInv
  BY DEF Init, IdInv, IdsTyped, IdsBelowCounter, UniqueIds, HasId

\* Every step keeps the ids distinct and below the counter.
LEMMA NextIdInv == IdInv /\ [Next]_vars => IdInv'
<1> SUFFICES ASSUME IdInv, [Next]_vars PROVE IdInv'
  OBVIOUS
<1> USE DEF IdInv, IdsTyped, IdsBelowCounter, UniqueIds, HasId
<1>0. Bsp \in Cores
  BY SmpAssumption
<1>1. CASE pcs_init
  BY <1>0, <1>1 DEF pcs_init
<1>2. CASE warn
  BY <1>0, <1>2 DEF warn
<1>3. CASE smp_init
  BY <1>0, <1>3 DEF smp_init
<1>4. ASSUME NEW c \in Cores, Trampoline(c) PROVE IdInv'
  BY <1>4 DEF Trampoline
<1>5. ASSUME NEW c \in Cores, LoadCounter(c) PROVE IdInv'
  BY <1>5 DEF LoadCounter
<1>6. ASSUME NEW c \in Cores, CmpXchg(c) PROVE IdInv'
  <2>1. CASE process_counter = rax[c]
    BY <1>6, <2>1 DEF CmpXchg
  <2>2. CASE process_counter # rax[c]
    BY <1>6, <2>2 DEF CmpXchg
  <2> QED
    BY <2>1, <2>2
<1>7. ASSUME NEW c \in Cores, CallMain(c) PROVE IdInv'
  BY <1>7 DEF CallMain
<1>8. ASSUME NEW c \in Cores, ReadMask(c) PROVE IdInv'
  BY <1>8 DEF ReadMask
<1>9. ASSUME NEW c \in Cores, WriteMask(c) PROVE IdInv'
  BY <1>9 DEF WriteMask
<1>10. CASE pit_isr
  BY <1>0, <1>10 DEF pit_isr, start_isr, StackFault
<1>11. ASSUME NEW c \in Cores, Call(c) PROVE IdInv'
  BY <1>11 DEF Call, StackFault
<1>12. ASSUME NEW c \in Cores, Return(c) PROVE IdInv'
  BY <1>12 DEF Return
<1>13. CASE UNCHANGED vars
  BY <1>13 DEF vars
<1> QED
  BY <1>1, <1>2, <1>3, <1>4, <1>5, <1>6, <1>7, <1>8, <1>9, <1>10, <1>11, <1>12,
     <1>13 DEF Next, Boot

(***************************************************************************)
(* The ids that enter_smp hands out by lock cmpxchg are unique, for any    *)
(* number of cores.                                                        *)
(***************************************************************************)
THEOREM SmpUniqueIds == Spec => []UniqueIds
<1>1. IdInv => UniqueIds
  BY DEF IdInv
<1> QED
  BY InitIdInv, NextIdInv, <1>1, PTL DEF Spec

-----------------------------------------------------------------------------
(***************************************************************************)
(* One core: it takes id 0, so it starts on the stack of process p = 0;    *)
(* from then on each frame lies on its process's stack, because the one    *)
(* saved for p is on the stack the core runs on.                           *)
(***************************************************************************)
FrameInv ==
  /\ IdsTyped
  /\ stack \in [Cores -> Nat] /\ p \in Processes /\ DOMAIN frame = Processes
  /\ pc[Bsp] # "wait"
  /\ pc[Bsp] \in {"boot", "smp", "enter", "try"} => process_counter = 0 /\ p = 0
  /\ pc[Bsp] \in {"try", "take", "pit", "unmask"} => rax[Bsp] = 0 /\ p = 0
  /\ pc[Bsp] \in {"pit", "unmask"} => stack[Bsp] = 0 /\ created # {}
  /\ pc[Bsp] = "run" => stack[Bsp] = p /\ created # {}
  /\ created # {} => \A i \in Processes : frame[i].stack = i

\* The boot starts with no process and the counter at zero.
LEMMA InitFrameInv == Cores = {Bsp} /\ Init => FrameInv
  BY DEF Init, FrameInv, IdsTyped, Processes

\* Every step of the only core keeps each frame on its process's stack.
LEMMA NextFrameInv == Cores = {Bsp} /\ FrameInv /\ [Next]_vars => FrameInv'
<1> SUFFICES ASSUME Cores = {Bsp}, FrameInv, [Next]_vars PROVE FrameInv'
  OBVIOUS
<1> USE DEF FrameInv, IdsTyped, Processes
<1>1. CASE pcs_init
  BY <1>1 DEF pcs_init
<1>2. CASE warn
  BY <1>2 DEF warn, pcs
<1>3. CASE smp_init
  BY <1>3 DEF smp_init, pcs
<1>4. CASE Trampoline(Bsp)
  BY <1>4 DEF Trampoline, pcs
<1>5. CASE LoadCounter(Bsp)
  BY <1>5 DEF LoadCounter, pcs
<1>6. CASE CmpXchg(Bsp)
  BY <1>6 DEF CmpXchg, pcs
<1>7. CASE CallMain(Bsp)
  BY <1>7 DEF CallMain, pcs
<1>8. CASE ReadMask(Bsp)
  BY <1>8 DEF ReadMask, pcs
<1>9. CASE WriteMask(Bsp)
  BY <1>9 DEF WriteMask, pcs
<1>10. CASE pit_isr
  <2>1. CASE Room(Bsp)
    BY <1>10, <2>1 DEF pit_isr, start_isr, FrameSaved, Other
  <2>2. CASE ~Room(Bsp)
    BY <1>10, <2>2 DEF pit_isr, StackFault
  <2> QED
    BY <2>1, <2>2
<1>11. CASE Call(Bsp)
  BY <1>11 DEF Call, StackFault, pcs
<1>12. CASE Return(Bsp)
  BY <1>12 DEF Return, pcs
<1>13. CASE UNCHANGED vars
  BY <1>13 DEF vars
<1> QED
  BY <1>1, <1>2, <1>3, <1>4, <1>5, <1>6, <1>7, <1>8, <1>9, <1>10, <1>11, <1>12,
     <1>13 DEF Next, Boot

(***************************************************************************)
(* On one core, pit_isr always resumes a process on its own stack, and     *)
(* keeps the frame of the other on the other's.                            *)
(***************************************************************************)
THEOREM SmpFramesOnOwnStack == ASSUME Cores = {Bsp} PROVE Spec => []FramesOnOwnStack
<1>1. Init => FrameInv
  BY InitFrameInv
<1>2. FrameInv /\ [Next]_vars => FrameInv'
  BY NextFrameInv
<1>3. FrameInv => FramesOnOwnStack
  BY DEF FrameInv, IdsTyped, FramesOnOwnStack, Other, Processes
<1> QED
  BY <1>1, <1>2, <1>3, PTL DEF Spec
-----------------------------------------------------------------------------
(***************************************************************************)
(* Two or more cores: once the processes exist, every page of both stacks  *)
(* is mapped, and whatever runs is on one of the two, inside it.           *)
(***************************************************************************)
StackInv ==
  /\ IdsTyped
  /\ stack \in [Cores -> Nat] /\ p \in Processes
  /\ sp \in [Cores -> 0..MaxDepth]
  /\ frame \in [Processes -> [stack : Processes, sp : 0..MaxDepth]]
  /\ created \subseteq Processes
  /\ created # {} => Processes \X (0..(StackPages - 1)) \subseteq mapped
  /\ \A c \in Cores : pc[c] \in {"pit", "unmask", "run"} =>
                        stack[c] \in Processes /\ created # {}
  /\ NoFaultOnStack

\* A depth inside the stack lies on one of its pages.
LEMMA DepthOnPage ==
  ASSUME NEW d \in 0..MaxDepth
  PROVE  d \div PageUnits \in 0..(StackPages - 1)
<1> DEFINE q == d \div PageUnits
<1>1. /\ MaxDepth \in Nat /\ MaxDepth < StackPages * PageUnits
      /\ StackPages \in Nat /\ PageUnits \in Nat /\ PageUnits > 0
  BY SmpAssumption
<1>2. q \in Int /\ q >= 0 /\ PageUnits * q <= d
  BY <1>1
<1>3. PageUnits * q < PageUnits * StackPages
  BY <1>1, <1>2
<1>4. q < StackPages
  <2>1. SUFFICES ASSUME q >= StackPages PROVE FALSE
    BY <1>1, <1>2
  <2>2. PageUnits * q >= PageUnits * StackPages
    BY <1>1, <1>2, <2>1
  <2> QED
    BY <1>1, <1>2, <1>3, <2>2
<1> QED
  BY <1>1, <1>2, <1>4

\* A running process finds the page at the top of its stack mapped.
LEMMA StackRoom == ASSUME StackInv, NEW c \in Cores, pc[c] = "run" PROVE Room(c)
<1>1. stack[c] \in Processes /\ created # {} /\ sp[c] \in 0..MaxDepth
  BY DEF StackInv
<1>2. sp[c] \div PageUnits \in 0..(StackPages - 1)
  BY <1>1, DepthOnPage
<1>3. Processes \X (0..(StackPages - 1)) \subseteq mapped
  BY <1>1 DEF StackInv
<1> QED
  BY <1>1, <1>2, <1>3 DEF Room

\* Nothing is running when the boot begins.
LEMMA InitStackInv == Init => StackInv
<1>1. 0 \in 0..MaxDepth
  BY SmpAssumption
<1> QED
  BY <1>1 DEF Init, StackInv, IdsTyped, NoFaultOnStack, Processes

\* Every step keeps the processes on stacks that are mapped.
LEMMA NextStackInv == cpu_core_count >= 2 /\ StackInv /\ [Next]_vars => StackInv'
<1> SUFFICES ASSUME cpu_core_count >= 2, StackInv, [Next]_vars PROVE StackInv'
  OBVIOUS
<1> USE DEF StackInv, IdsTyped, NoFaultOnStack
<1>0. Bsp \in Cores /\ MaxDepth \in Nat /\ 0 \in 0..MaxDepth
  BY SmpAssumption
<1>1. CASE pcs_init
  <2>1. Processes \subseteq 0..(cpu_core_count - 1)
    <3>1. cpu_core_count \in Nat
      BY SmpAssumption, FS_CardinalityType DEF cpu_core_count
    <3> QED
      BY <3>1 DEF Processes
  <2>2. Processes \X (0..(StackPages - 1)) \subseteq mapped'
    BY <1>1, <2>1 DEF pcs_init, StacksAllocated
  <2>3. frame' \in [Processes -> [stack : Processes, sp : 0..MaxDepth]]
    BY <1>0, <1>1 DEF pcs_init
  <2>4. created' # {}
    BY <1>1 DEF pcs_init, Processes
  <2> QED
    BY <1>0, <1>1, <2>2, <2>3, <2>4 DEF pcs_init
<1>2. CASE warn
  BY <1>0, <1>2 DEF warn, pcs
<1>3. CASE smp_init
  BY <1>0, <1>3 DEF smp_init, pcs
<1>4. ASSUME NEW c \in Cores, Trampoline(c) PROVE StackInv'
  BY <1>4 DEF Trampoline, pcs
<1>5. ASSUME NEW c \in Cores, LoadCounter(c) PROVE StackInv'
  BY <1>5 DEF LoadCounter, pcs
<1>6. ASSUME NEW c \in Cores, CmpXchg(c) PROVE StackInv'
  BY <1>6 DEF CmpXchg, pcs
<1>7. ASSUME NEW c \in Cores, CallMain(c) PROVE StackInv'
  BY <1>7 DEF CallMain, pcs
<1>8. ASSUME NEW c \in Cores, ReadMask(c) PROVE StackInv'
  BY <1>8 DEF ReadMask, pcs
<1>9. ASSUME NEW c \in Cores, WriteMask(c) PROVE StackInv'
  BY <1>9 DEF WriteMask, pcs
<1>10. CASE pit_isr
  BY <1>0, <1>10, StackRoom DEF pit_isr, start_isr, FrameSaved, Other, Processes
<1>11. ASSUME NEW c \in Cores, Call(c) PROVE StackInv'
  BY <1>0, <1>11, StackRoom DEF Call, pcs
<1>12. ASSUME NEW c \in Cores, Return(c) PROVE StackInv'
  BY <1>0, <1>12 DEF Return, pcs
<1>13. CASE UNCHANGED vars
  BY <1>13 DEF vars
<1> QED
  BY <1>1, <1>2, <1>3, <1>4, <1>5, <1>6, <1>7, <1>8, <1>9, <1>10, <1>11, <1>12,
     <1>13 DEF Next, Boot

(***************************************************************************)
(* With at least as many cores as processes, pcs_init has mapped every     *)
(* stack, and no call and no timer interrupt touches a page that is not    *)
(* there, for stacks of any size.                                          *)
(***************************************************************************)
THEOREM SmpNoFaultOnStack ==
  ASSUME cpu_core_count >= 2 PROVE Spec => []NoFaultOnStack
<1>1. StackInv /\ [Next]_vars => StackInv'
  BY NextStackInv
<1>2. StackInv => NoFaultOnStack
  BY DEF StackInv
<1> QED
  BY InitStackInv, <1>1, <1>2, PTL DEF Spec

-----------------------------------------------------------------------------
(***************************************************************************)
(* The counter is the number of cores that have taken an id, so it stays   *)
(* within the number of cores; and a core comes to enter_smp only after    *)
(* pcs_init or after a warning.                                            *)
(***************************************************************************)
Taken == {c \in Cores : HasId(c)}

\* Where the boot stands, and that a call of NULL follows a warning.
Ready ==
  /\ pc[Bsp] = "smp" \/ sent => created = Processes
  /\ \A c \in Cores : pc[c] \notin {"boot", "wait"} => warned \/ created = Processes
  /\ \A c \in Cores : pc[c] = "null" => warned

CallInv ==
  /\ IdInv
  /\ TypeOK
  /\ process_counter = Cardinality(Taken)
  /\ Ready

\* The number of cores is a positive number.
LEMMA CoreCount == cpu_core_count \in Nat /\ cpu_core_count > 0
<1>1. Cores # {} /\ IsFiniteSet(Cores)
  BY SmpAssumption
<1> QED
  BY <1>1, FS_CardinalityType, FS_EmptySet DEF cpu_core_count

\* A core that exchanges the counter makes one more that has an id.
LEMMA OneMoreTaken ==
  ASSUME NEW c \in Cores, ~HasId(c)
  PROVE  /\ Cardinality(Taken \cup {c}) = Cardinality(Taken) + 1
         /\ Cardinality(Taken) \in Nat
         /\ Cardinality(Taken \cup {c}) <= cpu_core_count
<1>1. IsFiniteSet(Cores) /\ Taken \subseteq Cores /\ c \notin Taken
  BY SmpAssumption DEF Taken
<1>2. IsFiniteSet(Taken)
  BY <1>1, FS_Subset
<1>3. Cardinality(Taken \cup {c}) = Cardinality(Taken) + 1
  BY <1>1, <1>2, FS_AddElement
<1>4. Cardinality(Taken \cup {c}) <= Cardinality(Cores)
  BY <1>1, FS_Subset
<1> QED
  BY <1>2, <1>3, <1>4, FS_CardinalityType DEF cpu_core_count

\* Nobody has an id when the boot begins.
LEMMA InitCallInv == Init => CallInv
<1> SUFFICES ASSUME Init PROVE CallInv
  OBVIOUS
<1>0. Bsp \in Cores /\ 0 \in 0..MaxDepth /\ 0 \in 0..cpu_core_count
  BY SmpAssumption, CoreCount
<1>1. TypeOK
  <2>1. frame \in [Processes -> [stack : 0..cpu_core_count, sp : 0..MaxDepth]]
    BY <1>0 DEF Init
  <2>2. mask \in [Cores -> SUBSET {"keyboard", "pit"}]
    BY DEF Init
  <2>3. p \in Processes
    BY DEF Init, Processes
  <2> QED
    BY <1>0, <2>1, <2>2, <2>3 DEF Init, TypeOK
<1>2. Taken = {} /\ process_counter = Cardinality(Taken)
  BY FS_EmptySet DEF Init, Taken, HasId
<1>3. /\ pc[Bsp] = "boot" /\ sent = FALSE
      /\ \A c \in Cores : pc[c] \in {"boot", "wait"}
  BY <1>0 DEF Init
<1>4. IdInv
  BY InitIdInv
<1> QED
  BY <1>1, <1>2, <1>3, <1>4 DEF CallInv, Ready

\* Every step keeps the types; the exchange, because the counter counts.
LEMMA NextTypeOK == CallInv /\ [Next]_vars => TypeOK'
<1> SUFFICES ASSUME CallInv, [Next]_vars PROVE TypeOK'
  OBVIOUS
<1> USE DEF TypeOK
<1>0. TypeOK /\ Bsp \in Cores /\ cpu_core_count \in Nat /\ cpu_core_count > 0
  BY CoreCount, SmpAssumption DEF CallInv
<1>1. CASE pcs_init
  <2>1. MaxDepth \in Nat /\ StackPages \in Nat /\ StackPages > 0
    BY SmpAssumption
  <2>2. mapped' \subseteq Pages
    BY <1>0, <1>1, <2>1 DEF pcs_init, StacksAllocated, Processes, Pages
  <2>3. frame' \in [Processes -> [stack : 0..cpu_core_count, sp : 0..MaxDepth]]
    BY <1>0, <1>1, <2>1 DEF pcs_init, Processes
  <2> QED
    BY <1>0, <1>1, <2>2, <2>3 DEF pcs_init
<1>2. CASE warn
  BY <1>0, <1>2 DEF warn, pcs
<1>3. CASE smp_init
  BY <1>0, <1>3 DEF smp_init, pcs
<1>4. ASSUME NEW c \in Cores, Trampoline(c) PROVE TypeOK'
  BY <1>0, <1>4 DEF Trampoline, pcs
<1>5. ASSUME NEW c \in Cores, LoadCounter(c) PROVE TypeOK'
  BY <1>0, <1>5 DEF LoadCounter, pcs
<1>6. ASSUME NEW c \in Cores, CmpXchg(c) PROVE TypeOK'
  <2>1. ~HasId(c) /\ process_counter = Cardinality(Taken)
    BY <1>6 DEF CmpXchg, HasId, CallInv
  <2>2. /\ Cardinality(Taken \cup {c}) = process_counter + 1
        /\ process_counter \in Nat
        /\ Cardinality(Taken \cup {c}) <= cpu_core_count
    BY <2>1, OneMoreTaken
  <2>3. process_counter + 1 \in 0..cpu_core_count
    BY <1>0, <2>2
  <2> QED
    BY <1>0, <1>6, <2>3 DEF CmpXchg, pcs
<1>7. ASSUME NEW c \in Cores, CallMain(c) PROVE TypeOK'
  BY <1>0, <1>7 DEF CallMain, pcs
<1>8. ASSUME NEW c \in Cores, ReadMask(c) PROVE TypeOK'
  BY <1>0, <1>8 DEF ReadMask, pcs
<1>9. ASSUME NEW c \in Cores, WriteMask(c) PROVE TypeOK'
  BY <1>0, <1>9 DEF WriteMask, pcs
<1>10. CASE pit_isr
  BY <1>0, <1>10 DEF pit_isr, start_isr, StackFault, FrameSaved, Other, Processes
<1>11. ASSUME NEW c \in Cores, Call(c) PROVE TypeOK'
  <2>1. MaxDepth \in Nat
    BY SmpAssumption
  <2> QED
    BY <1>0, <1>11, <2>1 DEF Call, StackFault, pcs
<1>12. ASSUME NEW c \in Cores, Return(c) PROVE TypeOK'
  <2>1. MaxDepth \in Nat
    BY SmpAssumption
  <2> QED
    BY <1>0, <1>12, <2>1 DEF Return, pcs
<1>13. CASE UNCHANGED vars
  BY <1>0, <1>13 DEF vars
<1> QED
  BY <1>1, <1>2, <1>3, <1>4, <1>5, <1>6, <1>7, <1>8, <1>9, <1>10, <1>11, <1>12,
     <1>13 DEF Next, Boot

\* What a step without a new id or a new call needs to keep the rest.
LEMMA SameTaken ==
  ASSUME CallInv, \A c \in Cores : HasId(c)' <=> HasId(c),
         process_counter' = process_counter
  PROVE  process_counter' = Cardinality(Taken)'
<1>1. Taken' = Taken
  BY DEF Taken
<1> QED
  BY <1>1 DEF CallInv

\* Every step keeps the counter exact.
LEMMA NextCounter == CallInv /\ [Next]_vars => process_counter' = Cardinality(Taken)'
<1> SUFFICES ASSUME CallInv, [Next]_vars PROVE process_counter' = Cardinality(Taken)'
  OBVIOUS
<1>0. Bsp \in Cores /\ DOMAIN pc = Cores
  BY SmpAssumption DEF CallInv, TypeOK
<1>1. CASE pcs_init
  BY <1>0, <1>1, SameTaken DEF pcs_init, HasId
<1>2. CASE warn
  BY <1>0, <1>2, SameTaken DEF warn, HasId
<1>3. CASE smp_init
  BY <1>0, <1>3, SameTaken DEF smp_init, HasId
<1>4. ASSUME NEW c \in Cores, Trampoline(c) PROVE process_counter' = Cardinality(Taken)'
  BY <1>0, <1>4, SameTaken DEF Trampoline, HasId
<1>5. ASSUME NEW c \in Cores, LoadCounter(c) PROVE process_counter' = Cardinality(Taken)'
  BY <1>0, <1>5, SameTaken DEF LoadCounter, HasId
<1>6. ASSUME NEW c \in Cores, CmpXchg(c) PROVE process_counter' = Cardinality(Taken)'
  <2>1. CASE process_counter = rax[c]
    <3>1. ~HasId(c) /\ Taken' = Taken \cup {c}
      BY <1>0, <1>6, <2>1 DEF CmpXchg, HasId, Taken
    <3>2. Cardinality(Taken \cup {c}) = Cardinality(Taken) + 1
      BY <3>1, OneMoreTaken
    <3> QED
      BY <1>6, <2>1, <3>1, <3>2 DEF CmpXchg, CallInv
  <2>2. CASE process_counter # rax[c]
    BY <1>6, <2>2, SameTaken DEF CmpXchg, HasId
  <2> QED
    BY <2>1, <2>2
<1>7. ASSUME NEW c \in Cores, CallMain(c) PROVE process_counter' = Cardinality(Taken)'
  BY <1>0, <1>7, SameTaken DEF CallMain, HasId
<1>8. ASSUME NEW c \in Cores, ReadMask(c) PROVE process_counter' = Cardinality(Taken)'
  BY <1>0, <1>8, SameTaken DEF ReadMask, HasId
<1>9. ASSUME NEW c \in Cores, WriteMask(c) PROVE process_counter' = Cardinality(Taken)'
  BY <1>0, <1>9, SameTaken DEF WriteMask, HasId
<1>10. CASE pit_isr
  BY <1>0, <1>10, SameTaken DEF pit_isr, StackFault, HasId
<1>11. ASSUME NEW c \in Cores, Call(c) PROVE process_counter' = Cardinality(Taken)'
  BY <1>0, <1>11, SameTaken DEF Call, StackFault, HasId
<1>12. ASSUME NEW c \in Cores, Return(c) PROVE process_counter' = Cardinality(Taken)'
  BY <1>0, <1>12, SameTaken DEF Return, HasId
<1>13. CASE UNCHANGED vars
  BY <1>0, <1>13, SameTaken DEF vars, HasId
<1> QED
  BY <1>1, <1>2, <1>3, <1>4, <1>5, <1>6, <1>7, <1>8, <1>9, <1>10, <1>11, <1>12,
     <1>13 DEF Next, Boot

\* With two cores or fewer, every id that is called was created.
LEMMA NextReady == cpu_core_count <= 2 /\ CallInv /\ [Next]_vars => Ready'
<1> SUFFICES ASSUME cpu_core_count <= 2, CallInv, [Next]_vars PROVE Ready'
  OBVIOUS
<1>0. Ready /\ IdsTyped /\ Bsp \in Cores
  BY SmpAssumption DEF CallInv, IdInv
<1> USE DEF Ready, IdsTyped
<1>1. CASE pcs_init
  BY <1>0, <1>1 DEF pcs_init
<1>2. CASE warn
  BY <1>0, <1>2 DEF warn, pcs
<1>3. CASE smp_init
  BY <1>0, <1>3 DEF smp_init, pcs
<1>4. ASSUME NEW c \in Cores, Trampoline(c) PROVE Ready'
  BY <1>0, <1>4 DEF Trampoline, pcs
<1>5. ASSUME NEW c \in Cores, LoadCounter(c) PROVE Ready'
  BY <1>0, <1>5 DEF LoadCounter, pcs
<1>6. ASSUME NEW c \in Cores, CmpXchg(c) PROVE Ready'
  BY <1>0, <1>6 DEF CmpXchg, pcs
<1>7. ASSUME NEW c \in Cores, CallMain(c) PROVE Ready'
  <2>1. rax[c] \in Nat /\ rax[c] < process_counter /\ process_counter <= cpu_core_count
        /\ process_counter \in Nat /\ cpu_core_count \in Nat
    BY <1>7, CoreCount DEF CallMain, CallInv, IdInv, IdsTyped, IdsBelowCounter, HasId, TypeOK
  <2>2. rax[c] \in Processes
    BY <2>1 DEF Processes
  <2> QED
    BY <1>0, <1>7, <2>2 DEF CallMain, pcs
<1>8. ASSUME NEW c \in Cores, ReadMask(c) PROVE Ready'
  BY <1>0, <1>8 DEF ReadMask, pcs
<1>9. ASSUME NEW c \in Cores, WriteMask(c) PROVE Ready'
  BY <1>0, <1>9 DEF WriteMask, pcs
<1>10. CASE pit_isr
  BY <1>0, <1>10 DEF pit_isr, StackFault
<1>11. ASSUME NEW c \in Cores, Call(c) PROVE Ready'
  BY <1>0, <1>11 DEF Call, StackFault, pcs
<1>12. ASSUME NEW c \in Cores, Return(c) PROVE Ready'
  BY <1>0, <1>12 DEF Return, pcs
<1>13. CASE UNCHANGED vars
  BY <1>0, <1>13 DEF vars
<1> QED
  BY <1>1, <1>2, <1>3, <1>4, <1>5, <1>6, <1>7, <1>8, <1>9, <1>10, <1>11, <1>12,
     <1>13 DEF Next, Boot

(***************************************************************************)
(* With at most as many cores as processes, every core that leaves         *)
(* enter_smp calls a process that pcs_init created, unless a warning kept  *)
(* kernel_init from it; all values keep their types.                       *)
(***************************************************************************)
THEOREM SmpCallsCreated ==
  ASSUME cpu_core_count <= 2 PROVE Spec => []CallsCreated
<1>1. CallInv /\ [Next]_vars => CallInv'
  BY NextIdInv, NextTypeOK, NextCounter, NextReady DEF CallInv
<1>2. CallInv => CallsCreated
  BY DEF CallInv, Ready, CallsCreated
<1> QED
  BY InitCallInv, <1>1, <1>2, PTL DEF Spec
=============================================================================
