-------------------------------- MODULE Pci --------------------------------
(***************************************************************************)
(* The ACPI table search, the scan of the PCI functions, the names of      *)
(* their classes and the address of the USB controller.  The description   *)
(* of a class is the path of codes that leads to it, so that an entry that *)
(* points to the wrong table shows.                                        *)
(***************************************************************************)
EXTENDS Strings

CONSTANTS PCI_MAX_DEVICE,   \* the last device of a bus
          PCI_MAX_FUNCTION, \* the last function of a device
          BarBits           \* the bits of a base address register

ASSUME PciAssumption == /\ PCI_MAX_DEVICE \in Nat /\ PCI_MAX_FUNCTION \in Nat
                        /\ BarBits \in Nat /\ BarBits > 4

\* An entry: its code, its description, the table of its next level.
E(code, desc, lower) == [code |-> code, desc |-> desc, lower |-> lower]

\* PCIBlankEntry is its own next level; no search goes further than this.
NoName == <<>>
PCIBlankEntry == <<E(0, NoName, <<E(0, NoName, <<>>)>>)>>

\* The table of the codes under path, with lower tables for some of them.
Entries(path, codes, lower) ==
  [i \in DOMAIN codes |->
     E(codes[i], path \o <<codes[i]>>,
       IF codes[i] \in DOMAIN lower THEN lower[codes[i]] ELSE PCIBlankEntry)]
Leaves(path, codes) == Entries(path, codes, <<>>)

PCIPIFClass_0100 == Leaves(<<1, 0>>, <<0, 17, 18, 19, 33>>)
PCIPIFClass_0101 == Leaves(<<1, 1>>, [i \in 1..16 |-> i - 1] \o [i \in 1..16 |-> i + 127])
PCIPIFClass_0105 == Leaves(<<1, 5>>, <<32, 48>>)
PCIPIFClass_0106 == Leaves(<<1, 6>>, <<0, 1, 2>>)
PCIPIFClass_0107 == Leaves(<<1, 7>>, <<0, 1>>)
PCIPIFClass_0108 == Leaves(<<1, 8>>, <<0, 1, 2>>)
PCIPIFClass_0109 == Leaves(<<1, 9>>, <<0, 1>>)
PCIPIFClass_0300 == Leaves(<<3, 0>>, <<0, 1>>)
PCIPIFClass_0604 == Leaves(<<6, 4>>, <<0, 1>>)
PCIPIFClass_0609 == Leaves(<<6, 9>>, <<64, 128>>)
PCIPIFClass_060b == Leaves(<<6, 11>>, <<0, 1>>)
PCIPIFClass_0700 == Leaves(<<7, 0>>, <<0, 1, 2, 3, 4, 5, 6>>)
PCIPIFClass_0701 == Leaves(<<7, 1>>, <<0, 1, 2, 3, 254>>)
PCIPIFClass_0703 == Leaves(<<7, 3>>, <<0, 1, 2, 3, 4>>)
PCIPIFClass_0800 == Leaves(<<8, 0>>, <<0, 1, 2, 16, 32>>)
PCIPIFClass_0801 == Leaves(<<8, 1>>, <<0, 1, 2>>)
PCIPIFClass_0802 == Leaves(<<8, 2>>, <<0, 1, 2>>)
PCIPIFClass_0803 == Leaves(<<8, 3>>, <<0, 1, 2>>)
PCIPIFClass_0904 == Leaves(<<9, 4>>, <<0, 16>>)
PCIPIFClass_0c00 == Leaves(<<12, 0>>, <<0, 16>>)
PCIPIFClass_0c03 == Leaves(<<12, 3>>, <<0, 16, 32, 48, 128, 254>>)
PCIPIFClass_0c07 == Leaves(<<12, 7>>, <<0, 1, 2>>)
PCIPIFClass_0d01 == Leaves(<<13, 1>>, <<0, 16>>)
PCIPIFClass_0e00 == Leaves(<<14, 0>>, <<0, 1>>)
PCISubClass_00 == Leaves(<<0>>, <<0, 1>>)
PCISubClass_01 ==
  Entries(<<1>>, <<0, 1, 2, 3, 4, 5, 6, 7, 8, 9, 128>>,
    0 :> PCIPIFClass_0100 @@ 1 :> PCIPIFClass_0101 @@ 5 :> PCIPIFClass_0105 @@
    6 :> PCIPIFClass_0106 @@ 7 :> PCIPIFClass_0107 @@ 8 :> PCIPIFClass_0108 @@
    9 :> PCIPIFClass_0109)
PCISubClass_02 == Leaves(<<2>>, <<0, 1, 2, 3, 4, 5, 6, 7, 128>>)
PCISubClass_03 ==
  Entries(<<3>>, <<0, 1, 2, 128>>,
    0 :> PCIPIFClass_0300)
PCISubClass_04 == Leaves(<<4>>, <<0, 1, 2, 3, 128>>)
PCISubClass_05 == Leaves(<<5>>, <<0, 1, 128>>)
PCISubClass_06 ==
  Entries(<<6>>, <<0, 1, 2, 3, 4, 5, 6, 7, 8, 9, 10, 11, 128>>,
    4 :> PCIPIFClass_0604 @@ 9 :> PCIPIFClass_0609 @@ 11 :> PCIPIFClass_060b)
PCISubClass_07 ==
  Entries(<<7>>, <<0, 1, 2, 3, 4, 5, 128>>,
    0 :> PCIPIFClass_0700 @@ 1 :> PCIPIFClass_0701 @@ 3 :> PCIPIFClass_0703)
PCISubClass_08 ==
  Entries(<<8>>, <<0, 1, 2, 3, 4, 5, 6, 7, 128>>,
    0 :> PCIPIFClass_0800 @@ 1 :> PCIPIFClass_0801 @@ 2 :> PCIPIFClass_0802 @@
    3 :> PCIPIFClass_0803)
PCISubClass_09 ==
  Entries(<<9>>, <<0, 1, 2, 3, 4, 128>>,
    4 :> PCIPIFClass_0904)
PCISubClass_0a == Leaves(<<10>>, <<0, 128>>)
PCISubClass_0b == Leaves(<<11>>, <<0, 1, 2, 16, 32, 48, 64, 128>>)
PCISubClass_0c ==
  Entries(<<12>>, <<0, 1, 2, 3, 4, 5, 6, 7, 8, 9, 128>>,
    0 :> PCIPIFClass_0c00 @@ 3 :> PCIPIFClass_0c03 @@ 7 :> PCIPIFClass_0c07)
PCISubClass_0d ==
  Entries(<<13>>, <<0, 1, 16, 17, 18, 32, 33, 128>>,
    1 :> PCIPIFClass_0d01)
PCISubClass_0e ==
  Entries(<<14>>, <<0>>,
    0 :> PCIPIFClass_0e00)
PCISubClass_0f == Leaves(<<15>>, <<1, 2, 3, 4, 128>>)
PCISubClass_10 == Leaves(<<16>>, <<0, 1, 128>>)
PCISubClass_11 == Leaves(<<17>>, <<0, 1, 16, 32, 128>>)
PCISubClass_12 == Leaves(<<18>>, <<0>>)
PCISubClass_13 == Leaves(<<19>>, <<0>>)
gClassStringList ==
  Entries(<<>>, [i \in 1..20 |-> i - 1] \o <<255>>,
    0 :> PCISubClass_00 @@ 1 :> PCISubClass_01 @@ 2 :> PCISubClass_02 @@
    3 :> PCISubClass_03 @@ 4 :> PCISubClass_04 @@ 5 :> PCISubClass_05 @@
    6 :> PCISubClass_06 @@ 7 :> PCISubClass_07 @@ 8 :> PCISubClass_08 @@
    9 :> PCISubClass_09 @@ 10 :> PCISubClass_0a @@ 11 :> PCISubClass_0b @@
    12 :> PCISubClass_0c @@ 13 :> PCISubClass_0d @@ 14 :> PCISubClass_0e @@
    15 :> PCISubClass_0f @@ 16 :> PCISubClass_10 @@ 17 :> PCISubClass_11 @@
    18 :> PCISubClass_12 @@ 19 :> PCISubClass_13)

-----------------------------------------------------------------------------
\* Mutant: a table ends at its first entry with code 0.
FindClassEntry_Zero(class, entries) ==
  LET found == {i \in DOMAIN entries : /\ entries[i].code = class
                                       /\ \A j \in 1..i : entries[j].code # 0}
  IN  IF found = {} THEN <<>> ELSE <<entries[Min(found)]>>

\* The first entry with the code, in a sequence of one; none if there is none.
FindClassEntry(class, entries) ==
  LET found == {i \in DOMAIN entries : entries[i].code = class}
  IN  IF found = {} THEN <<>> ELSE <<entries[Min(found)]>>

Unknown == <<-1>>

\* The lookup goes on in the table that the entry of the level above names.
pci_get_class_names(device) ==
  LET Lower(entry) == IF entry = <<>> THEN <<>> ELSE entry[1].lower
      Name(entry) == IF entry = <<>> THEN Unknown ELSE entry[1].desc
      base == FindClassEntry(device.base_class_code, gClassStringList)
      sub == FindClassEntry(device.sub_class_code, Lower(base))
      pif == FindClassEntry(device.pi_class_code, Lower(sub))
  IN  [base_class |-> Name(base), sub_class |-> Name(sub), pif_class |-> Name(pif)]

-----------------------------------------------------------------------------
\* rsdt lists the addresses of the tables in m; name is the address of a name.
RECURSIVE acpi_find_table(_, _, _)
acpi_find_table(m, rsdt, name) ==
  IF rsdt = <<>> THEN NULL
  ELSE IF strnequ(m, name, Head(rsdt), 4) THEN Head(rsdt)
  ELSE acpi_find_table(m, Tail(rsdt), name)

\* The string constant "MCFG" lies at address 0.
find_mcfg_table(m, rsdt) == acpi_find_table(m, rsdt, 0)

(***************************************************************************)
(* An ECAM address: base counts windows of 2^28 bytes and the address is   *)
(* kept in 32 bits.                                                        *)
(***************************************************************************)
EcamAddress(bridge, bus, dev, fun) ==
  <<bridge.base_address % 16, bus - bridge.start_bus_number, dev, fun>>

\* header_type & PCI_HEADER_TYPE_DEVICE is 0 for every type: two registers.
ReadBars(header) == [i \in 0..5 |-> IF i < 2 THEN header.bar[i] ELSE 0]

\* The functions 0..last of a device that answer; others read vendor 0xffff.
Answering(config, bridge, bus, dev, last) ==
  LET Addr(fun) == EcamAddress(bridge, bus, dev, fun)
      present == SelectSeq([i \in 1..(last + 1) |-> i - 1],
                           LAMBDA fun : Addr(fun) \in DOMAIN config)
      Device(fun) == [bus |-> bus, dev |-> dev, fun |-> fun, addr |-> Addr(fun),
                      header |-> config[Addr(fun)],
                      bar |-> ReadBars(config[Addr(fun)])]
  IN  [i \in DOMAIN present |-> Device(present[i])]

\* Mutant: the other functions of a device are read whatever function 0 is.
ReadDevice_All(config, bridge, bus, dev) ==
  Answering(config, bridge, bus, dev, PCI_MAX_FUNCTION)

\* Only function 0 when it answers as a device of one function.
ReadDevice(config, bridge, bus, dev) ==
  LET first == EcamAddress(bridge, bus, dev, 0)
      single == first \in DOMAIN config /\ ~config[first].multi
  IN  Answering(config, bridge, bus, dev, IF single THEN 0 ELSE PCI_MAX_FUNCTION)

ReadBus(config, bridge, bus) ==
  FlattenSeq([i \in 1..(PCI_MAX_DEVICE + 1) |-> ReadDevice(config, bridge, bus, i - 1)])

ReadBridge(config, bridge) ==
  FlattenSeq([i \in 1..(bridge.end_bus_number - bridge.start_bus_number + 1) |->
                ReadBus(config, bridge, bridge.start_bus_number + i - 1)])

(***************************************************************************)
(* The scan: what it returns, the list of devices, and the ranges mapped   *)
(* and claimed.  known holds the bases that the memory map knows and maps; *)
(* a bridge outside it ends the scan, and what was found before stays.     *)
(***************************************************************************)
pci_init(m, rsdt, bridges, known, config) ==
  LET mcfg == find_mcfg_table(m, rsdt)
      all == bridges[mcfg]
      fails == {i \in DOMAIN all : all[i].base_address \notin known}
      count == IF fails = {} THEN Len(all)
               ELSE Min(fails) - 1
  IN  IF mcfg = NULL THEN [ret |-> FALSE, devices |-> <<>>, claimed |-> {}]
      ELSE [ret |-> count = Len(all),
            devices |-> FlattenSeq([i \in 1..count |-> ReadBridge(config, all[i])]),
            claimed |-> {all[i].base_address : i \in 1..count}]

\* The first device of a class, in a sequence of one.  A scan that failed has
\* not set pci_inited, and nothing is found.
pci_get_device(scan, class) ==
  LET found == SelectSeq(scan.devices, LAMBDA d : d.header.class = class)
  IN  IF ~scan.ret \/ found = <<>> THEN <<>> ELSE <<Head(found)>>

-----------------------------------------------------------------------------
BAR_TYPE_MEMORY == 0
BarType(value) == value % 2
Locatable(value) == (value \div 2) % 4

pci_bar_addr_32(bar, index) ==
  LET value == bar[index]
  IN  IF BarType(value) = BAR_TYPE_MEMORY THEN value - (value % 16)
      ELSE value - 4 * ((value \div 4) % 4)

\* The upper half goes through the masks of the lower one.
pci_bar_addr_64(bar, index) ==
  pci_bar_addr_32(bar, index + 1) * 2^BarBits + pci_bar_addr_32(bar, index)

PANIC == -1

\* PANIC for an I/O register and for a kind of address that does not exist.
pci_bar_addr(bar, index) ==
  CASE BarType(bar[index]) # BAR_TYPE_MEMORY -> PANIC
    [] Locatable(bar[index]) \in {0, 1} -> pci_bar_addr_32(bar, index)
    [] Locatable(bar[index]) = 2 -> pci_bar_addr_64(bar, index)
    [] OTHER -> PANIC

\* What usb_init returns, and the address that it maps, claims and reads.
usb_init(scan) ==
  LET device == pci_get_device(scan, <<12, 3, 48>>)
  IN  IF device = <<>> THEN [ret |-> FALSE, addr |-> NULL]
      ELSE LET addr == pci_bar_addr(device[1].bar, 0)
           IN  [ret |-> addr # PANIC, addr |-> addr]
=============================================================================
