--------------------------- MODULE GcdServicesInit ---------------------------
(***************************************************************************)
(* The Bootstrap Sequencer end to end: phase 1, CoreInitializeMemoryServices *)
(* (GcdBootstrap), followed by phase 2, CoreInitializeGcdServices, which   *)
(* builds the GCD memory and I/O space maps from the same HOB list with    *)
(* the Space Manager's own operations (GcdMemorySpace), reconciles them    *)
(* with the region phase 1 gave the memory services, and sweeps the       *)
(* remaining system memory into the memory services.  After phase 2 the   *)
(* I/O space services (CoreAddIoSpace, CoreAllocateIoSpace,                *)
(* CoreFreeIoSpace, CoreRemoveIoSpace) are called by drivers; the pool   *)
(* allocation of their two spare map entries may then fail.               *)
(*                                                                         *)
(* Each iteration of the three loops of CoreInitializeGcdServices is one   *)
(* step.  The boot processor runs phase 2 alone; pool allocations made by  *)
(* it (map entries, the HOB list copy, the map snapshot) are assumed to    *)
(* succeed, as its ASSERTs require.                                        *)
(***************************************************************************)
EXTENDS GcdBootstrap

CONSTANTS
  SizeOfMemorySpace, \* address lines of the memory space (CPU HOB)
  SizeOfIoSpace,     \* address lines of the I/O space (CPU HOB)
  Core,              \* gDxeCoreImageHandle
  IoImages,          \* image handles of drivers calling the I/O services
  IoTypes,           \* GCD I/O types drivers pass
  IoBases,           \* base ports drivers pass
  IoLengths,         \* lengths drivers pass
  IoAllocateTypes,   \* GCD allocate types drivers pass
  MaxIoCalls         \* bound on the I/O service calls after phase 2

ASSUME SizeOfIoSpace \in 1..WordBits /\ MaxIoCalls \in Nat

Gcd == INSTANCE GcdMemorySpace
         WITH memMap <- <<>>, status <- "Success", memoryMap <- {},
              insertAsserts <- TRUE, Images <- {Core} \cup IoImages,
              Devices <- {NULL}, Bases <- {}, AddBases <- {}, Lengths <- {},
              Alignments <- {}, AddMemoryTypes <- {}, AllocMemoryTypes <- {},
              CapabilitySets <- {}, AttributeSets <- {}, AllocateTypes <- {},
              PoolCanFail <- FALSE, CpuCanFail <- FALSE

VARIABLES
  mGcdMemorySpaceMap,  \* the GCD memory space map, in list order
  mGcdIoSpaceMap,      \* the GCD I/O space map, in list order
  hobIndex,            \* Hob.Raw: the position of the HOB walk
  MemorySpaceMap,      \* the snapshot CoreGetMemorySpaceMap returned
  Index,               \* the position of the sweep in MemorySpaceMap
  ioCalls,             \* I/O service calls made so far
  ioOperation,         \* the I/O service the latest step called
  ioStatus             \* the status that call returned

gcdVars == <<mGcdMemorySpaceMap, mGcdIoSpaceMap, hobIndex, MemorySpaceMap,
             Index, ioCalls, ioOperation, ioStatus>>
allVars == <<vars, gcdVars>>

list == hobs.list

(***************************************************************************)
(* mGcdMemorySpaceMapEntryTemplate and mGcdIoSpaceMapEntryTemplate, each   *)
(* spanning its whole space.                                               *)
(***************************************************************************)
MapEntryTemplate(EndAddress) ==
  [BaseAddress |-> 0, EndAddress |-> EndAddress, Capabilities |-> {},
   Attributes |-> {}, GcdMemoryType |-> "NonExistent",
   GcdIoType |-> "IoNonExistent", ImageHandle |-> NULL, DeviceHandle |-> NULL]

(***************************************************************************)
(* CoreConvertResourceDescriptorHobAttributesToCapabilities: the rows of   *)
(* mAttributeConversionTable, <<attribute, capability, Memory>>; rows not  *)
(* marked Memory apply only to memory other than system memory.            *)
(***************************************************************************)
mAttributeConversionTable ==
  { <<"UNCACHEABLE", "UC", TRUE>>, <<"WRITE_COMBINEABLE", "WC", TRUE>>,
    <<"WRITE_THROUGH_CACHEABLE", "WT", TRUE>>,
    <<"WRITE_BACK_CACHEABLE", "WB", TRUE>>, <<"READ_PROTECTED", "RP", TRUE>>,
    <<"WRITE_PROTECTED", "WP", TRUE>>, <<"EXECUTION_PROTECTED", "XP", TRUE>>,
    <<"PRESENT", "PRESENT", FALSE>>, <<"INITIALIZED", "INITIALIZED", FALSE>>,
    <<"TESTED", "TESTED", FALSE>> }

CoreConvertResourceDescriptorHobAttributesToCapabilities(GcdMemoryType, Attributes) ==
  { c[2] : c \in { c \in mAttributeConversionTable :
                     /\ c[3] \/ GcdMemoryType # "SystemMemory"
                     /\ c[1] \in Attributes } }

\* The GCD memory type of a resource descriptor HOB (the switch of the
\* first walk); a later test of the system-memory case overrides an
\* earlier one.
GcdMemoryTypeOf(h) ==
  CASE h.ResourceType = "SystemMemory" ->
         IF MaskedAttributes(h) = TESTED_MEMORY_ATTRIBUTES THEN "SystemMemory"
         ELSE IF MaskedAttributes(h) \in {INITIALIZED_MEMORY_ATTRIBUTES,
                                          PRESENT_MEMORY_ATTRIBUTES}
           THEN "Reserved" ELSE "NonExistent"
    [] h.ResourceType \in {"MemoryMappedIo", "FirmwareDevice"} -> "MemoryMappedIo"
    [] h.ResourceType \in {"MemoryMappedIoPort", "MemoryReserved"} -> "Reserved"
    [] OTHER -> "NonExistent"

GcdIoTypeOf(h) ==
  CASE h.ResourceType = "Io"         -> "Io"
    [] h.ResourceType = "IoReserved" -> "IoReserved"
    [] OTHER -> "IoNonExistent"

\* CoreInternalAddMemorySpace and CoreAddIoSpace: CoreConvertSpace with
\* the Add operation of the map.
AddMemory(m, GcdMemoryType, PhysicalStart, ResourceLength, Capabilities) ==
  Gcd!CoreConvertSpace(m, "Add", GcdMemoryType, "IoNonExistent", PhysicalStart,
                       ResourceLength, Capabilities, {}, TRUE, "Success")
AddIo(m, GcdIoType, PhysicalStart, ResourceLength, poolOk) ==
  Gcd!CoreConvertSpace(m, "AddIo", "NonExistent", GcdIoType, PhysicalStart,
                       ResourceLength, {}, {}, poolOk, "Success")

\* CoreAllocateMemorySpace(EfiGcdAllocateAddress, ...) on behalf of the
\* DXE core, as every allocation of phase 2 is made.
AllocateForCore(m, GcdMemoryType, MemoryLength, MemoryBaseAddress) ==
  Gcd!CoreAllocateSpace(m, "AllocateMemory", "AllocateAddress", GcdMemoryType,
                        "IoNonExistent", 0, MemoryLength, MemoryBaseAddress,
                        Core, NULL, TRUE)

\* BuildMemoryDescriptor: an EFI_GCD_MEMORY_SPACE_DESCRIPTOR of an entry.
BuildMemoryDescriptor(e) ==
  [BaseAddress |-> e.BaseAddress, Length |-> e.EndAddress - e.BaseAddress + 1,
   Capabilities |-> e.Capabilities, Attributes |-> e.Attributes,
   GcdMemoryType |-> e.GcdMemoryType, ImageHandle |-> e.ImageHandle,
   DeviceHandle |-> e.DeviceHandle]

\* CoreGetMemorySpaceDescriptor: the descriptor of the entry holding
\* Address (the code's BaseAddress), or NotFound.
CoreGetMemorySpaceDescriptor(m, Address) ==
  LET r == CoreSearchGcdMapEntry(m, Address, 1)
  IN  IF r.found THEN [status |-> "Success", descriptor |-> BuildMemoryDescriptor(m[r.start])]
      ELSE [status |-> "NotFound"]

\* CoreAddMemoryDescriptor: a descriptor handed to the memory services.
MemoryDescriptor(Type, PhysicalStart, NumberOfPages) ==
  [Type |-> Type, PhysicalStart |-> PhysicalStart, NumberOfPages |-> NumberOfPages]

-----------------------------------------------------------------------------
(***************************************************************************)
(* Phase 2, CoreInitializeGcdServices.  It starts where phase 1 returned, *)
(* with MemoryBaseAddress and MemoryLength the region phase 1 chose       *)
(* (BaseAddress and Length of GcdBootstrap).                               *)
(***************************************************************************)
SequencerInit ==
  /\ Init
  /\ mGcdMemorySpaceMap = <<>> /\ mGcdIoSpaceMap = <<>>
  /\ hobIndex = 0 /\ MemorySpaceMap = <<>> /\ Index = 0
  /\ ioCalls = 0 /\ ioOperation = "None" /\ ioStatus = "Success"

Phase1 ==
  /\ FindPhitResource \/ SearchPass \/ ChooseRegion
  /\ UNCHANGED gcdVars

InitializeMapsIoEndOffByOne ==
  /\ pc = "done"
  /\ mGcdMemorySpaceMap' = << MapEntryTemplate(2^SizeOfMemorySpace - 1) >>
  /\ mGcdIoSpaceMap' = << MapEntryTemplate(2^SizeOfIoSpace) >>
  /\ hobIndex' = 1
  /\ pc' = "resources"
  /\ UNCHANGED <<hobs, BaseAddress, Length, PhitResourceHob, ResourceHob,
                 MaxMemoryBaseAddress, MaxMemoryLength, MaxAddress, memoryMap,
                 asserts, MemorySpaceMap, Index, ioCalls, ioOperation, ioStatus>>

\* The sentinel entry of each map, spanning [0, 2^SizeOf...Space - 1], and
\* the first walk of the HOB list begins.
InitializeMaps ==
  /\ pc = "done"
  /\ mGcdMemorySpaceMap' = << MapEntryTemplate(2^SizeOfMemorySpace - 1) >>
  /\ mGcdIoSpaceMap' = << MapEntryTemplate(2^SizeOfIoSpace - 1) >>
  /\ hobIndex' = 1
  /\ pc' = "resources"
  /\ UNCHANGED <<hobs, BaseAddress, Length, PhitResourceHob, ResourceHob,
                 MaxMemoryBaseAddress, MaxMemoryLength, MaxAddress, memoryMap,
                 asserts, MemorySpaceMap, Index, ioCalls, ioOperation, ioStatus>>

\* After the first walk: the region phase 1 gave the memory services is
\* allocated to the DXE core, and the second walk begins.
EndResourceWalk ==
  /\ mGcdMemorySpaceMap' =
       AllocateForCore(mGcdMemorySpaceMap, "SystemMemory", Length, BaseAddress).map
  /\ hobIndex' = 1
  /\ pc' = "allocations"
  /\ UNCHANGED mGcdIoSpaceMap

\* One iteration of the first walk: a resource descriptor HOB is declared
\* to the memory map, the I/O map, or neither, by its type; the status of
\* the Add is not looked at.  The walk ends with the allocation of the
\* phase-1 region to the DXE core (status not looked at either).
AddResourceHob ==
  /\ pc = "resources"
  /\ \/ /\ hobIndex <= Len(list)
        /\ LET h  == list[hobIndex]
               mt == IF IsResource(h) THEN GcdMemoryTypeOf(h) ELSE "NonExistent"
               it == IF IsResource(h) THEN GcdIoTypeOf(h) ELSE "IoNonExistent"
           IN  /\ mGcdMemorySpaceMap' =
                    IF mt # "NonExistent"
                      THEN AddMemory(mGcdMemorySpaceMap, mt, h.PhysicalStart,
                                     h.ResourceLength,
                                     CoreConvertResourceDescriptorHobAttributesToCapabilities(
                                       mt, h.ResourceAttribute)).map
                      ELSE mGcdMemorySpaceMap
               /\ mGcdIoSpaceMap' =
                    IF it # "IoNonExistent"
                      THEN AddIo(mGcdIoSpaceMap, it, h.PhysicalStart, h.ResourceLength, TRUE).map
                      ELSE mGcdIoSpaceMap
        /\ hobIndex' = hobIndex + 1
        /\ UNCHANGED pc
     \/ /\ hobIndex > Len(list)
        /\ EndResourceWalk
  /\ UNCHANGED <<hobs, BaseAddress, Length, PhitResourceHob, ResourceHob,
                 MaxMemoryBaseAddress, MaxMemoryLength, MaxAddress, memoryMap,
                 asserts, MemorySpaceMap, Index, ioCalls, ioOperation, ioStatus>>

\* One iteration of the second walk: the memory of a memory allocation HOB
\* is allocated to the DXE core as system memory and, when that succeeds
\* and its descriptor is found, declared to the memory services with the
\* HOB's memory type; a firmware volume HOB's memory is allocated as MMIO.
\* The walk ends with the relocation of the HOB list into pool (its
\* content is unchanged) and the snapshot of the memory space map
\* (CoreGetMemorySpaceMap).
AllocateHob ==
  /\ pc = "allocations"
  /\ \/ /\ hobIndex <= Len(list)
        /\ LET h == list[hobIndex]
           IN  CASE h.kind = "MemoryAllocation" ->
                      LET r == AllocateForCore(mGcdMemorySpaceMap, "SystemMemory",
                                               h.MemoryLength, h.MemoryBaseAddress)
                          d == CoreGetMemorySpaceDescriptor(r.map, h.MemoryBaseAddress)
                      IN  /\ mGcdMemorySpaceMap' = r.map
                          /\ memoryMap' =
                               IF r.status = "Success" /\ d.status = "Success"
                                 THEN Append(memoryMap,
                                        MemoryDescriptor(h.MemoryType, h.MemoryBaseAddress,
                                                         h.MemoryLength \div EFI_PAGE_SIZE))
                                 ELSE memoryMap
                 [] h.kind = "FirmwareVolume" ->
                      /\ mGcdMemorySpaceMap' =
                           AllocateForCore(mGcdMemorySpaceMap, "MemoryMappedIo",
                                           h.Length, h.BaseAddress).map
                      /\ UNCHANGED memoryMap
                 [] OTHER -> UNCHANGED <<mGcdMemorySpaceMap, memoryMap>>
        /\ hobIndex' = hobIndex + 1
        /\ UNCHANGED <<pc, MemorySpaceMap, Index>>
     \/ /\ hobIndex > Len(list)
        /\ MemorySpaceMap' = [i \in 1..Len(mGcdMemorySpaceMap) |->
                                BuildMemoryDescriptor(mGcdMemorySpaceMap[i])]
        /\ Index' = 1
        /\ pc' = "sweep"
        /\ UNCHANGED <<mGcdMemorySpaceMap, memoryMap, hobIndex>>
  /\ UNCHANGED <<hobs, BaseAddress, Length, PhitResourceHob, ResourceHob,
                 MaxMemoryBaseAddress, MaxMemoryLength, MaxAddress, asserts,
                 mGcdIoSpaceMap, ioCalls, ioOperation, ioStatus>>

\* The descriptors the sweep declares: system memory nobody owns.
SweptDescriptorOwned(d) == d.GcdMemoryType = "SystemMemory"

SweptDescriptor(d) == d.GcdMemoryType = "SystemMemory" /\ d.ImageHandle = NULL

\* The length the sweep declares: from the first page boundary at or above
\* the descriptor's base to its end, rounded down to whole pages.
SweepLengthUnadjusted(d) == PageAlignLength(d.Length)

SweepLength(d) ==
  PageAlignLength(U64(d.BaseAddress + d.Length - PageAlignAddress(d.BaseAddress)))

\* One iteration of the sweep over the snapshot: an unallocated system
\* memory descriptor is rounded inwards to pages, declared to the memory
\* services as conventional memory, then allocated to the DXE core (status
\* not looked at).  After the last one CoreInitializeGcdServices returns.
SweepDescriptor ==
  /\ pc = "sweep"
  /\ \/ /\ Index <= Len(MemorySpaceMap)
        /\ LET d == MemorySpaceMap[Index]
               b == PageAlignAddress(d.BaseAddress)
               l == SweepLength(d)
           IN  IF SweptDescriptor(d)
                 THEN /\ memoryMap' = Append(memoryMap,
                           MemoryDescriptor("EfiConventionalMemory", b, l \div EFI_PAGE_SIZE))
                      /\ mGcdMemorySpaceMap' =
                           AllocateForCore(mGcdMemorySpaceMap, "SystemMemory", l, b).map
                 ELSE UNCHANGED <<memoryMap, mGcdMemorySpaceMap>>
        /\ Index' = Index + 1
        /\ UNCHANGED pc
     \/ /\ Index > Len(MemorySpaceMap)
        /\ pc' = "ready"
        /\ UNCHANGED <<memoryMap, mGcdMemorySpaceMap, Index>>
  /\ UNCHANGED <<hobs, BaseAddress, Length, PhitResourceHob, ResourceHob,
                 MaxMemoryBaseAddress, MaxMemoryLength, MaxAddress, asserts,
                 mGcdIoSpaceMap, hobIndex, MemorySpaceMap, ioCalls, ioOperation, ioStatus>>

-----------------------------------------------------------------------------
(***************************************************************************)
(* The I/O space services drivers call once phase 2 has returned, each   *)
(* one atomic step under mGcdIoSpaceLock: CoreAddIoSpace, then            *)
(* CoreAllocateIoSpace, CoreFreeIoSpace and CoreRemoveIoSpace, which are  *)
(* CoreConvertSpace and CoreAllocateSpace on the I/O map.                  *)
(***************************************************************************)
IoCall(operation, r) ==
  /\ pc = "ready"
  /\ ioCalls < MaxIoCalls
  /\ mGcdIoSpaceMap' = r.map
  /\ ioCalls' = ioCalls + 1
  /\ ioOperation' = operation
  /\ ioStatus' = r.status
  /\ UNCHANGED <<vars, mGcdMemorySpaceMap, hobIndex, MemorySpaceMap, Index>>

CoreAddIoSpace(GcdIoType, Base, Size, poolOk) ==
  IoCall("AddIo",
         IF GcdIoType \in {"Io", "IoReserved"}
           THEN AddIo(mGcdIoSpaceMap, GcdIoType, Base, Size, poolOk)
           ELSE Gcd!Result("InvalidParameter", mGcdIoSpaceMap, TRUE, Base))

CoreAllocateIoSpace(GcdAllocateType, GcdIoType, Size, Base, ImageHandle, poolOk) ==
  IoCall("AllocateIo",
         Gcd!CoreAllocateSpace(mGcdIoSpaceMap, "AllocateIo", GcdAllocateType,
                               "NonExistent", GcdIoType, 0, Size, Base,
                               ImageHandle, NULL, poolOk))

CoreFreeIoSpace(Base, Size, poolOk) ==
  IoCall("FreeIo", Gcd!CoreConvertSpace(mGcdIoSpaceMap, "FreeIo", "NonExistent",
                                        "IoNonExistent", Base, Size, {}, {}, poolOk, "Success"))

CoreRemoveIoSpace(Base, Size, poolOk) ==
  IoCall("RemoveIo", Gcd!CoreConvertSpace(mGcdIoSpaceMap, "RemoveIo", "NonExistent",
                                          "IoNonExistent", Base, Size, {}, {}, poolOk, "Success"))

\* The base an I/O allocate call passes: ignored by the AnySearch types.
IoAllocateBases(GcdAllocateType) ==
  IF GcdAllocateType \in {"AnySearchBottomUp", "AnySearchTopDown"}
    THEN {0} ELSE IoBases

\* Whether CoreAllocateGcdMapEntry gets both spare entries from the pool.
IoPoolOutcomes == BOOLEAN

IoServices ==
  \E ok \in IoPoolOutcomes :
    \/ \E t \in IoTypes, b \in IoBases, l \in IoLengths : CoreAddIoSpace(t, b, l, ok)
    \/ \E at \in IoAllocateTypes, t \in IoTypes, l \in IoLengths, img \in IoImages :
         \E b \in IoAllocateBases(at) :
           CoreAllocateIoSpace(at, t, l, b, img, ok)
    \/ \E b \in IoBases, l \in IoLengths : CoreFreeIoSpace(b, l, ok)
    \/ \E b \in IoBases, l \in IoLengths : CoreRemoveIoSpace(b, l, ok)

\* The bound on I/O service calls is reached: the model stops there.
IoCallsExhausted ==
  /\ pc = "ready" /\ ioCalls = MaxIoCalls
  /\ UNCHANGED allVars

SequencerNext ==
  \/ Phase1
  \/ InitializeMaps
  \/ AddResourceHob
  \/ AllocateHob
  \/ SweepDescriptor
  \/ IoServices
  \/ IoCallsExhausted

\* The boot processor's two phases followed by the drivers' I/O calls.
\* The properties checked are safety properties, so no fairness is
\* assumed.
SequencerSpec == SequencerInit /\ [][SequencerNext]_allVars

-----------------------------------------------------------------------------
(***************************************************************************)
(* Properties                                                              *)
(***************************************************************************)
IoPorts == 0..(2^SizeOfIoSpace - 1)
MemoryEntries ==
  [BaseAddress : Gcd!Addresses, EndAddress : Gcd!Addresses,
   Capabilities : SUBSET ({c[2] : c \in mAttributeConversionTable} \cup {"RUNTIME", "PORT_IO"}),
   Attributes : {{}}, GcdMemoryType : Gcd!GcdMemoryTypes,
   GcdIoType : {"IoNonExistent"}, ImageHandle : {Core, NULL}, DeviceHandle : {NULL}]
IoEntries ==
  [BaseAddress : IoPorts, EndAddress : IoPorts, Capabilities : {{}},
   Attributes : {{}}, GcdMemoryType : {"NonExistent"},
   GcdIoType : {"IoNonExistent", "Io", "IoReserved"},
   ImageHandle : IoImages \cup {NULL}, DeviceHandle : {NULL}]

TypeOK ==
  /\ pc \in {"phit", "search", "choose", "done", "resources", "allocations",
             "sweep", "ready"}
  /\ mGcdMemorySpaceMap \in Seq(MemoryEntries)
  /\ mGcdIoSpaceMap \in Seq(IoEntries)
  /\ \A i \in 1..Len(memoryMap) :
       memoryMap[i].PhysicalStart \in 0..EFI_MAX_ADDRESS /\ memoryMap[i].NumberOfPages \in Nat
  /\ ioCalls \in 0..MaxIoCalls
  /\ ioStatus \in Gcd!Statuses

\* The end (exclusive) of a descriptor handed to the memory services.
DescriptorEnd(d) == d.PhysicalStart + d.NumberOfPages * EFI_PAGE_SIZE

\* No memory is handed to the memory services twice: the descriptors that
\* phase 1 (the chosen region), the memory allocation HOBs and the sweep
\* of phase 2 give to CoreAddMemoryDescriptor never overlap.  The sweep
\* relies on the allocation of the phase-1 region and of the HOBs' memory
\* to mark them owned in the GCD map before the snapshot is taken.
DeclaredRangesDisjoint ==
  \A i, j \in 1..Len(memoryMap) :
    i < j => \/ DescriptorEnd(memoryMap[i]) <= memoryMap[j].PhysicalStart
             \/ DescriptorEnd(memoryMap[j]) <= memoryMap[i].PhysicalStart

\* When CoreInitializeGcdServices has returned, the memory services and the
\* GCD memory map agree: the memory handed to the memory services is
\* exactly the system memory the GCD map records as owned by the DXE core.
DeclaredAddresses ==
  UNION { { a \in 0..EFI_MAX_ADDRESS :
              memoryMap[i].PhysicalStart <= a /\ a < DescriptorEnd(memoryMap[i]) }
          : i \in 1..Len(memoryMap) }

CoreOwnedSystemMemory ==
  { a \in 0..Gcd!MaxMemoryAddress :
      /\ Gcd!EntryAt(mGcdMemorySpaceMap, a).GcdMemoryType = "SystemMemory"
      /\ Gcd!EntryAt(mGcdMemorySpaceMap, a).ImageHandle = Core }

MemoryServicesMatchGcd ==
  pc = "ready" =>
    /\ \A i \in 1..Len(memoryMap) : DescriptorEnd(memoryMap[i]) <= Gcd!MaxMemoryAddress + 1
    /\ DeclaredAddresses = CoreOwnedSystemMemory

\* I/O space owned by a driver keeps its owner and its type until some
\* driver frees it: CoreAllocateSpace never hands out an owned port again,
\* and CoreConvertSpace refuses to add or remove owned ports, whatever
\* sequence of calls the drivers make.
IoOwnershipStable ==
  [][ mGcdIoSpaceMap # <<>> =>
        \A a \in IoPorts :
          LET e  == Gcd!EntryAt(mGcdIoSpaceMap, a)
              e2 == Gcd!EntryAt(mGcdIoSpaceMap', a)
          IN  e.ImageHandle # NULL =>
                /\ e2.GcdIoType = e.GcdIoType
                /\ e2.ImageHandle = e.ImageHandle \/ ioOperation' = "FreeIo" ]_allVars
\* An I/O service call that fails, whether a check of the range refuses
\* it or the pool cannot supply the two spare entries, leaves the I/O map
\* exactly as it was: CoreConvertSpace and CoreAllocateSpace run every
\* check and take both spares (CoreAllocateGcdMapEntry) before they
\* change the first descriptor, so no call leaves a half-converted range.
IoErrorLeavesMapUnchanged ==
  [][ ioCalls' = ioCalls + 1 /\ ioStatus' # "Success"
        => mGcdIoSpaceMap' = mGcdIoSpaceMap ]_allVars
====
