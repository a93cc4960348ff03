-------------------------- MODULE MCGcdServicesInit --------------------------
(***************************************************************************)
(* The Bootstrap Sequencer on the HOB lists of MCGcdBootstrap, extended    *)
(* with an I/O port window and a reserved I/O range ahead of the memory    *)
(* resource HOBs, and three allocation HOBs after them: the DXE stack in   *)
(* the PEI memory, a reserved range inside the large tested region, and a  *)
(* firmware volume in the MMIO window.  The small tested region is moved  *)
(* off the page grid, to [17, 19), so that the sweep rounds it inwards.   *)
(* An 8-port I/O space, two drivers.                                       *)
(***************************************************************************)
EXTENDS GcdServicesInit, MCGcdBootstrap

CONSTANTS D1, D2

MCIoHobs ==
  << Res("Io", {"PRESENT"}, 0, 4), Res("IoReserved", {"PRESENT"}, 6, 2) >>

MCAllocationHobs ==
  << [kind |-> "MemoryAllocation", MemoryType |-> "EfiBootServicesData",
      MemoryBaseAddress |-> 14, MemoryLength |-> 2],
     [kind |-> "MemoryAllocation", MemoryType |-> "EfiReservedMemoryType",
      MemoryBaseAddress |-> 24, MemoryLength |-> 2],
     [kind |-> "FirmwareVolume", BaseAddress |-> 30, Length |-> 2] >>

MCUnaligned(h) ==
  IF h = Res("SystemMemory", MCTested, 16, 4)
    THEN Res("SystemMemory", MCTested, 17, 2) ELSE h

MCServicesHobLists ==
  { [phit |-> l.phit,
     list |-> MCIoHobs \o [i \in DOMAIN l.list |-> MCUnaligned(l.list[i])] \o MCAllocationHobs]
    : l \in MCHobLists }

MCIoImages == {D1, D2}
MCIoTypes == {"Io", "IoNonExistent"}
MCIoBases == {0, 6}
MCIoLengths == {2}
MCIoAllocateTypes == {"AllocateAddress", "AnySearchBottomUp"}
====
