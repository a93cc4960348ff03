--------------------------- MODULE GcdMemorySpace ---------------------------
(***************************************************************************)
(* The Space Manager of the DXE core GCD for the memory space map          *)
(* (gcd.c): CoreAddMemorySpace, CoreAllocateMemorySpace,                   *)
(* CoreFreeMemorySpace, CoreRemoveMemorySpace and                          *)
(* CoreSetMemorySpaceAttributes, each one atomic action: every call holds  *)
(* mGcdMemorySpaceLock (raised to EFI_TPL_NOTIFY) from its search to its   *)
(* last merge and runs to completion on the one processor.                 *)
(*                                                                         *)
(* The two collaborators a call may touch are modelled by their effect:   *)
(* the pool allocator (CoreAllocateZeroBootServicesPool) may fail, the CPU *)
(* architecture protocol's SetMemoryAttributes may fail, and the memory    *)
(* services receive the pages CoreAddMemorySpace hands them through        *)
(* CoreAddMemoryDescriptor.                                                *)
(***************************************************************************)
EXTENDS GcdRangeEditor, FiniteSets

LOCAL FS == INSTANCE FiniteSetsExt

CONSTANTS
  SizeOfMemorySpace, \* address lines of the memory space (CPU HOB)
  Core,              \* gDxeCoreImageHandle
  Images,            \* image handles of the callers of AllocateMemorySpace
  Devices,           \* device handles passed to AllocateMemorySpace (NULL too)
  Bases,             \* base addresses the callers pass
  AddBases,          \* base addresses passed to AddMemorySpace
  Lengths,           \* lengths the callers pass
  Alignments,        \* alignments (log2) the callers pass
  AddMemoryTypes,    \* GCD memory types passed to AddMemorySpace
  AllocMemoryTypes,  \* GCD memory types passed to AllocateMemorySpace
  CapabilitySets,    \* capability masks passed to AddMemorySpace
  AttributeSets,     \* attribute masks passed to SetMemorySpaceAttributes
  AllocateTypes,     \* GCD allocate types passed to AllocateMemorySpace
  PoolCanFail,       \* whether a pool allocation may fail
  CpuCanFail         \* whether the CPU arch protocol may refuse an attribute

ASSUME SizeOfMemorySpace \in 1..WordBits
ASSUME Core \in Images /\ NULL \notin Images /\ NULL \in Devices

(***************************************************************************)
(* Memory attribute bits, abstracted to a set of names: a bitmask is the  *)
(* set of its bits, & is \cap and | is \cup.                               *)
(***************************************************************************)
EFI_MEMORY_ATTRIBUTES == {"UC", "WB", "RUNTIME", "PORT_IO"}

GcdMemoryTypes == {"NonExistent", "Reserved", "SystemMemory", "MemoryMappedIo"}

GcdAllocateTypes == {"AnySearchBottomUp", "MaxAddressSearchBottomUp",
                     "MaxAddressSearchTopDown", "AnySearchTopDown",
                     "AllocateAddress"}

Statuses == {"Success", "InvalidParameter", "Unsupported", "AccessDenied",
             "NotFound", "OutOfResources", "DeviceError"}

MaxMemoryAddress == 2^SizeOfMemorySpace - 1
Addresses == 0..MaxMemoryAddress

\* A descriptor of the memory map; GcdIoType stays EfiGcdIoTypeNonExistent.
MapEntries ==
  [BaseAddress : Addresses, EndAddress : Addresses,
   Capabilities : SUBSET EFI_MEMORY_ATTRIBUTES,
   Attributes : SUBSET EFI_MEMORY_ATTRIBUTES,
   GcdMemoryType : GcdMemoryTypes, GcdIoType : {"IoNonExistent"},
   ImageHandle : Images \cup {NULL}, DeviceHandle : Devices]

VARIABLES
  memMap,        \* mGcdMemorySpaceMap, in list order
  status,        \* EFI_STATUS returned by the latest call
  memoryMap,     \* pages CoreAddMemorySpace declared to the memory services
  insertAsserts  \* no CoreInsertGcdMapEntry ASSERT has failed so far

vars == <<memMap, status, memoryMap, insertAsserts>>

(***************************************************************************)
(* Pool outcomes of one call: the pool allocations a call makes are        *)
(* numbered 0, 1, ...; at most one of them fails (-1: none fails).         *)
(***************************************************************************)
MaxPoolCalls == 2 + Word \div EFI_PAGE_SIZE
PoolFailures == IF PoolCanFail THEN {-1} \cup 0..MaxPoolCalls ELSE {-1}
PoolOk(fail, k) == k # fail
\* The status of the CPU arch step of SetMemorySpaceAttributes: AccessDenied
\* when LocateProtocol finds no CPU arch protocol, otherwise the status of
\* its SetMemoryAttributes.
CpuOutcomes == IF CpuCanFail THEN {"Success", "AccessDenied", "DeviceError"}
               ELSE {"Success"}

(***************************************************************************)
(* ConverToCpuArchAttributes: the first cacheability bit present.          *)
(***************************************************************************)
ConverToCpuArchAttributes(Attributes) ==
  IF "UC" \in Attributes THEN "UC"
  ELSE IF "WB" \in Attributes THEN "WB"
  ELSE "INVALID_CPU_ARCH_ATTRIBUTES"

(***************************************************************************)
(* CoreConvertSpace: the per-entry precondition of each operation (first  *)
(* switch), and the per-entry update (second switch).                      *)
(***************************************************************************)
\* Mutant: RemoveMemorySpace does not check that the space is unallocated.
ConvertCheckRemoveOwned(Operation, e, BaseAddress, Length, Attributes) ==
  CASE Operation = "Add" ->
         IF e.GcdMemoryType # "NonExistent" \/ e.ImageHandle # NULL
           THEN "AccessDenied" ELSE "Success"
    [] Operation = "AddIo" ->
         IF e.GcdIoType # "IoNonExistent" \/ e.ImageHandle # NULL
           THEN "AccessDenied" ELSE "Success"
    [] Operation \in {"Free", "FreeIo"} ->
         IF e.ImageHandle = NULL THEN "NotFound" ELSE "Success"
    [] Operation = "Remove" ->
         IF e.GcdMemoryType = "NonExistent" THEN "NotFound" ELSE "Success"
    [] Operation = "RemoveIo" ->
         IF e.GcdIoType = "IoNonExistent" THEN "NotFound"
         ELSE IF e.ImageHandle # NULL THEN "AccessDenied" ELSE "Success"
    [] Operation = "SetAttributes" ->
         IF "RUNTIME" \in Attributes
            /\ (BaseAddress % EFI_PAGE_SIZE # 0 \/ Length % EFI_PAGE_SIZE # 0)
           THEN "InvalidParameter"
         ELSE IF ~(Attributes \subseteq e.Capabilities) THEN "Unsupported"
         ELSE "Success"

ConvertCheck(Operation, e, BaseAddress, Length, Attributes) ==
  CASE Operation = "Add" ->
         IF e.GcdMemoryType # "NonExistent" \/ e.ImageHandle # NULL
           THEN "AccessDenied" ELSE "Success"
    [] Operation = "AddIo" ->
         IF e.GcdIoType # "IoNonExistent" \/ e.ImageHandle # NULL
           THEN "AccessDenied" ELSE "Success"
    [] Operation \in {"Free", "FreeIo"} ->
         IF e.ImageHandle = NULL THEN "NotFound" ELSE "Success"
    [] Operation = "Remove" ->
         IF e.GcdMemoryType = "NonExistent" THEN "NotFound"
         ELSE IF e.ImageHandle # NULL THEN "AccessDenied" ELSE "Success"
    [] Operation = "RemoveIo" ->
         IF e.GcdIoType = "IoNonExistent" THEN "NotFound"
         ELSE IF e.ImageHandle # NULL THEN "AccessDenied" ELSE "Success"
    [] Operation = "SetAttributes" ->
         IF "RUNTIME" \in Attributes
            /\ (BaseAddress % EFI_PAGE_SIZE # 0 \/ Length % EFI_PAGE_SIZE # 0)
           THEN "InvalidParameter"
         ELSE IF ~(Attributes \subseteq e.Capabilities) THEN "Unsupported"
         ELSE "Success"

\* Mutant: RemoveMemorySpace does not clear the capabilities.
ConvertUpdateRemoveKeepsCaps(Operation, GcdMemoryType, GcdIoType, Capabilities, Attributes) ==
  CASE Operation = "Add" ->
         [GcdMemoryType |-> GcdMemoryType,
          Capabilities  |-> Capabilities \cup {"RUNTIME"}
                             \cup (IF GcdMemoryType = "MemoryMappedIo"
                                     THEN {"PORT_IO"} ELSE {})]
    [] Operation = "AddIo" -> [GcdIoType |-> GcdIoType]
    [] Operation \in {"Free", "FreeIo"} -> [ImageHandle |-> NULL, DeviceHandle |-> NULL]
    [] Operation = "Remove" -> [GcdMemoryType |-> "NonExistent"]
    [] Operation = "RemoveIo" -> [GcdIoType |-> "IoNonExistent"]
    [] Operation = "SetAttributes" -> [Attributes |-> Attributes]

ConvertUpdate(Operation, GcdMemoryType, GcdIoType, Capabilities, Attributes) ==
  CASE Operation = "Add" ->
         [GcdMemoryType |-> GcdMemoryType,
          Capabilities  |-> Capabilities \cup {"RUNTIME"}
                             \cup (IF GcdMemoryType = "MemoryMappedIo"
                                     THEN {"PORT_IO"} ELSE {})]
    [] Operation = "AddIo" -> [GcdIoType |-> GcdIoType]
    [] Operation \in {"Free", "FreeIo"} -> [ImageHandle |-> NULL, DeviceHandle |-> NULL]
    [] Operation = "Remove" ->
         [GcdMemoryType |-> "NonExistent", Capabilities |-> {}]
    [] Operation = "RemoveIo" -> [GcdIoType |-> "IoNonExistent"]
    [] Operation = "SetAttributes" -> [Attributes |-> Attributes]

\* The result of one call: status, new map, ASSERTs kept, base returned.
Result(st, m, asserts, base) ==
  [status |-> st, map |-> m, asserts |-> asserts, base |-> base]

CoreConvertSpace(m, Operation, GcdMemoryType, GcdIoType, BaseAddress, Length, Capabilities, Attributes, poolOk, cpuStatus) ==
  LET r      == CoreSearchGcdMapEntry(m, BaseAddress, Length)
      checks == [k \in r.start..r.end |->
                   ConvertCheck(Operation, m[k], BaseAddress, Length, Attributes)]
      errs   == {k \in DOMAIN checks : checks[k] # "Success"}
      upd    == ConvertUpdate(Operation, GcdMemoryType, GcdIoType, Capabilities, Attributes)
      Fail(st) == Result(st, m, TRUE, BaseAddress)
  IN  IF Length = 0 THEN Fail("InvalidParameter")
      ELSE IF ~r.found THEN Fail("Unsupported")
      ELSE IF errs # {} THEN Fail(checks[FS!Min(errs)])
      ELSE IF ~poolOk THEN Fail("OutOfResources")
      ELSE IF /\ Operation = "SetAttributes"
              /\ ConverToCpuArchAttributes(Attributes) # "INVALID_CPU_ARCH_ATTRIBUTES"
              /\ cpuStatus # "Success" THEN Fail(cpuStatus)
      ELSE   Result("Success",
                    ApplyToRange(m, r.start, r.end, BaseAddress, Length, upd),
                    InsertAssertsHold(m, r.start, r.end, BaseAddress, Length),
                    BaseAddress)

CoreAllocateSpaceCheckEntryAnyOwner(Operation, e, GcdMemoryType, GcdIoType) ==
  CASE Operation = "AllocateMemory" -> e.GcdMemoryType = GcdMemoryType
    [] Operation = "AllocateIo"     -> e.GcdIoType = GcdIoType

(***************************************************************************)
(* CoreAllocateSpaceCheckEntry: an unallocated entry of the requested     *)
(* memory type (GCD_ALLOCATE_MEMORY_OPERATION) or I/O type                 *)
(* (GCD_ALLOCATE_IO_OPERATION).                                            *)
(***************************************************************************)
CoreAllocateSpaceCheckEntry(Operation, e, GcdMemoryType, GcdIoType) ==
  /\ e.ImageHandle = NULL
  /\ CASE Operation = "AllocateMemory" -> e.GcdMemoryType = GcdMemoryType
       [] Operation = "AllocateIo"     -> e.GcdIoType = GcdIoType

TopDown(GcdAllocateType) ==
  GcdAllocateType \in {"MaxAddressSearchTopDown", "AnySearchTopDown"}

NoPlacement == [found |-> FALSE, base |-> 0, start |-> 0, end |-> 0]

(***************************************************************************)
(* The search loop of CoreAllocateSpace for the four search types, from   *)
(* the entry at index i.  A candidate whose range hits an ineligible entry *)
(* restarts the walk at that entry (Link = SubLink).                       *)
(***************************************************************************)
RECURSIVE AllocateScan(_, _, _, _, _, _, _, _, _)
AllocateScan(m, i, td, Operation, GcdMemoryType, GcdIoType, Alignment, Length, MaxAddress) ==
  IF i < 1 \/ i > Len(m) THEN NoPlacement
  ELSE
    LET e    == m[i]
        next == IF td THEN i - 1 ELSE i + 1
        base == IF td
                  THEN AlignValue(U64((IF e.EndAddress > MaxAddress
                                         THEN MaxAddress ELSE e.EndAddress)
                                      + 1 - Length), Alignment, FALSE)
                  ELSE AlignValue(e.BaseAddress, Alignment, TRUE)
        r    == CoreSearchGcdMapEntry(m, base, Length)
        bad  == {k \in r.start..r.end :
                   ~CoreAllocateSpaceCheckEntry(Operation, m[k], GcdMemoryType, GcdIoType)}
    IN
    IF ~CoreAllocateSpaceCheckEntry(Operation, e, GcdMemoryType, GcdIoType)
      THEN AllocateScan(m, next, td, Operation, GcdMemoryType, GcdIoType, Alignment, Length, MaxAddress)
    ELSE IF td /\ U64(e.BaseAddress + Length) > MaxAddress
      THEN AllocateScan(m, next, td, Operation, GcdMemoryType, GcdIoType, Alignment, Length, MaxAddress)
    ELSE IF td /\ Length > U64(e.EndAddress + 1) THEN NoPlacement
    ELSE IF ~td /\ U64(base + Length - 1) > MaxAddress THEN NoPlacement
    ELSE IF ~r.found THEN NoPlacement
    ELSE IF bad # {}
      THEN AllocateScan(m, FS!Min(bad), td, Operation, GcdMemoryType, GcdIoType, Alignment, Length, MaxAddress)
    ELSE [found |-> TRUE, base |-> base, start |-> r.start, end |-> r.end]

\* The highest address a search may use: *BaseAddress - 1 for the
\* MaxAddress types, otherwise the end of the last entry.
\* Mutant: the ceiling of the MaxAddress types is *BaseAddress itself.
AllocateMaxAddressInclusive(m, GcdAllocateType, BaseAddress) ==
  IF GcdAllocateType \in {"MaxAddressSearchBottomUp", "MaxAddressSearchTopDown"}
    THEN BaseAddress ELSE m[Len(m)].EndAddress

AllocateMaxAddress(m, GcdAllocateType, BaseAddress) ==
  IF GcdAllocateType \in {"MaxAddressSearchBottomUp", "MaxAddressSearchTopDown"}
    THEN U64(BaseAddress - 1) ELSE m[Len(m)].EndAddress

(***************************************************************************)
(* Where CoreAllocateSpace places a request, before it allocates the     *)
(* spare entries: for EfiGcdAllocateAddress the caller's base, otherwise  *)
(* the result of the scan.                                                *)
(***************************************************************************)
AllocatePlacement(m, Operation, GcdAllocateType, GcdMemoryType, GcdIoType, Alignment, Length, BaseAddress) ==
  IF GcdAllocateType = "AllocateAddress"
    THEN LET r == CoreSearchGcdMapEntry(m, BaseAddress, Length)
         IN  IF /\ BaseAddress % 2^Alignment = 0
                /\ r.found
                /\ \A k \in r.start..r.end :
                      CoreAllocateSpaceCheckEntry(Operation, m[k], GcdMemoryType, GcdIoType)
               THEN [found |-> TRUE, base |-> BaseAddress,
                     start |-> r.start, end |-> r.end]
               ELSE NoPlacement
    ELSE LET MaxAddress == AllocateMaxAddress(m, GcdAllocateType, BaseAddress)
         IN  AllocateScan(m, IF TopDown(GcdAllocateType) THEN Len(m) ELSE 1,
                          TopDown(GcdAllocateType), Operation, GcdMemoryType,
                          GcdIoType, Alignment, Length, MaxAddress)

CoreAllocateSpaceUpdateBeforePool(m, Operation, GcdAllocateType, GcdMemoryType, GcdIoType, Alignment, Length, BaseAddress, ImageHandle, DeviceHandle, poolOk) ==
  LET p   == AllocatePlacement(m, Operation, GcdAllocateType, GcdMemoryType,
                               GcdIoType, Alignment, Length, BaseAddress)
      new == ApplyToRange(m, p.start, p.end, p.base, Length,
                          [ImageHandle |-> ImageHandle, DeviceHandle |-> DeviceHandle])
  IN  IF Alignment >= WordBits THEN Result("NotFound", m, TRUE, BaseAddress)
      ELSE IF Length = 0 THEN Result("InvalidParameter", m, TRUE, BaseAddress)
      ELSE IF ~p.found THEN Result("NotFound", m, TRUE, BaseAddress)
      ELSE IF ~poolOk THEN Result("OutOfResources", new, TRUE, p.base)
      ELSE   Result("Success", new, InsertAssertsHold(m, p.start, p.end, p.base, Length), p.base)

\* The steps of CoreAllocateSpace after the search has given placement p.
AllocateAtPlacement(m, p, Alignment, Length, BaseAddress, ImageHandle, DeviceHandle, poolOk) ==
  IF Alignment >= WordBits THEN Result("NotFound", m, TRUE, BaseAddress)
  ELSE IF Length = 0 THEN Result("InvalidParameter", m, TRUE, BaseAddress)
  ELSE IF ~p.found THEN Result("NotFound", m, TRUE, BaseAddress)
  ELSE IF ~poolOk THEN Result("OutOfResources", m, TRUE, p.base)
  ELSE   Result("Success",
                ApplyToRange(m, p.start, p.end, p.base, Length,
                             [ImageHandle |-> ImageHandle, DeviceHandle |-> DeviceHandle]),
                InsertAssertsHold(m, p.start, p.end, p.base, Length),
                p.base)

CoreAllocateSpace(m, Operation, GcdAllocateType, GcdMemoryType, GcdIoType, Alignment, Length, BaseAddress, ImageHandle, DeviceHandle, poolOk) ==
  AllocateAtPlacement(m, AllocatePlacement(m, Operation, GcdAllocateType, GcdMemoryType,
                                           GcdIoType, Alignment, Length, BaseAddress),
                      Alignment, Length, BaseAddress, ImageHandle, DeviceHandle, poolOk)

(***************************************************************************)
(* CoreAddMemorySpace: CoreInternalAddMemorySpace, then for SystemMemory  *)
(* the allocation of its pages to the DXE core and their declaration to   *)
(* the memory services; when the range cannot be allocated at once, page *)
(* by page, the status being the last page's.  The page base is rounded   *)
(* with PageAlignLength, as in the code.                                  *)
(***************************************************************************)
\* The result of the add after a CoreAllocateSpace call a of the pages.
AddPagesResult(acc, a, pages) ==
  [map     |-> a.map,
   asserts |-> acc.asserts /\ a.asserts,
   status  |-> a.status,
   pages   |-> IF a.status = "Success" THEN acc.pages \cup pages ELSE acc.pages]

RECURSIVE AddPages(_, _, _, _, _)
AddPages(acc, PageBaseAddress, PageLength, fail, k) ==
  IF PageLength = 0 THEN acc
  ELSE AddPages(AddPagesResult(acc,
                  CoreAllocateSpace(acc.map, "AllocateMemory", "AllocateAddress",
                                    "SystemMemory", "IoNonExistent", EFI_PAGE_SHIFT,
                                    EFI_PAGE_SIZE, PageBaseAddress, Core, NULL,
                                    PoolOk(fail, k)),
                  {PageBaseAddress}),
                U64(PageBaseAddress + EFI_PAGE_SIZE),
                PageLength - EFI_PAGE_SIZE, fail, k + 1)

\* The steps of CoreAddMemorySpace after CoreInternalAddMemorySpace gave
\* r1, a being the allocation of the whole page-aligned range.
AddSystemMemoryPages(r1, a, GcdMemoryType, PageBaseAddress, PageLength, fail) ==
  LET acc == [map |-> r1.map, asserts |-> r1.asserts, status |-> r1.status,
              pages |-> {}]
  IN  IF r1.status # "Success" \/ GcdMemoryType # "SystemMemory" THEN acc
      ELSE IF a.status = "Success"
        THEN AddPagesResult(acc, a, {PageBaseAddress + k * EFI_PAGE_SIZE :
                                       k \in 0..(PageLength \div EFI_PAGE_SIZE - 1)})
      ELSE AddPages([acc EXCEPT !.status = a.status],
                    PageBaseAddress, PageLength, fail, 2)

CoreAddMemorySpace(m, GcdMemoryType, BaseAddress, Length, Capabilities, fail) ==
  LET r1 == CoreConvertSpace(m, "Add", GcdMemoryType, "IoNonExistent", BaseAddress, Length,
                             Capabilities, {}, PoolOk(fail, 0), "Success")
      PageBaseAddress == PageAlignLength(BaseAddress)
      PageLength      == PageAlignLength(U64(BaseAddress + Length - PageBaseAddress))
  IN  AddSystemMemoryPages(r1,
        CoreAllocateSpace(r1.map, "AllocateMemory", "AllocateAddress",
                          "SystemMemory", "IoNonExistent", EFI_PAGE_SHIFT, PageLength,
                          PageBaseAddress, Core, NULL, PoolOk(fail, 1)),
        GcdMemoryType, PageBaseAddress, PageLength, fail)

(***************************************************************************)
(* The state after CoreInitializeGcdServices has created the map: one     *)
(* entry, a copy of mGcdMemorySpaceMapEntryTemplate, spanning the whole    *)
(* memory space.                                                           *)
(***************************************************************************)
Init ==
  /\ memMap = << [BaseAddress   |-> 0,
                  EndAddress    |-> MaxMemoryAddress,
                  Capabilities  |-> {},
                  Attributes    |-> {},
                  GcdMemoryType |-> "NonExistent",
                  GcdIoType     |-> "IoNonExistent",
                  ImageHandle   |-> NULL,
                  DeviceHandle  |-> NULL] >>
  /\ status = "Success"
  /\ memoryMap = {}
  /\ insertAsserts = TRUE

AddMemorySpace(GcdMemoryType, BaseAddress, Length, Capabilities) ==
  \E fail \in PoolFailures :
    LET r == CoreAddMemorySpace(memMap, GcdMemoryType, BaseAddress, Length,
                                Capabilities, fail)
    IN  /\ memMap' = r.map
        /\ status' = r.status
        /\ memoryMap' = memoryMap \cup r.pages
        /\ insertAsserts' = (insertAsserts /\ r.asserts)

AllocateMemorySpace(GcdAllocateType, GcdMemoryType, Alignment, Length, BaseAddress, ImageHandle, DeviceHandle) ==
  \E fail \in PoolFailures :
    LET r == CoreAllocateSpace(memMap, "AllocateMemory", GcdAllocateType, GcdMemoryType,
                               "IoNonExistent", Alignment,
                               Length, BaseAddress, ImageHandle, DeviceHandle,
                               PoolOk(fail, 0))
    IN  /\ memMap' = r.map
        /\ status' = r.status
        /\ insertAsserts' = (insertAsserts /\ r.asserts)
        /\ UNCHANGED memoryMap

\* FreeMemorySpace, RemoveMemorySpace, SetMemorySpaceAttributes.
ConvertMemorySpace(Operation, BaseAddress, Length, Attributes) ==
  \E fail \in PoolFailures, cpu \in CpuOutcomes :
    LET r == CoreConvertSpace(memMap, Operation, "NonExistent", "IoNonExistent", BaseAddress,
                              Length, {}, Attributes, PoolOk(fail, 0), cpu)
    IN  /\ memMap' = r.map
        /\ status' = r.status
        /\ insertAsserts' = (insertAsserts /\ r.asserts)
        /\ UNCHANGED memoryMap

FreeMemorySpace(BaseAddress, Length) ==
  ConvertMemorySpace("Free", BaseAddress, Length, {})

RemoveMemorySpace(BaseAddress, Length) ==
  ConvertMemorySpace("Remove", BaseAddress, Length, {})

SetMemorySpaceAttributes(BaseAddress, Length, Attributes) ==
  ConvertMemorySpace("SetAttributes", BaseAddress, Length, Attributes)

\* The base an allocate call passes: ignored by the AnySearch types.
AllocateBases(GcdAllocateType) ==
  IF GcdAllocateType \in {"AnySearchBottomUp", "AnySearchTopDown"}
    THEN {0} ELSE Bases

Next ==
  \/ \E t \in AddMemoryTypes, b \in AddBases, l \in Lengths, c \in CapabilitySets :
       AddMemorySpace(t, b, l, c)
  \/ \E at \in AllocateTypes, t \in AllocMemoryTypes, al \in Alignments,
        l \in Lengths, img \in Images \ {Core}, dev \in Devices :
       \E b \in AllocateBases(at) : AllocateMemorySpace(at, t, al, l, b, img, dev)
  \/ \E b \in Bases, l \in Lengths : FreeMemorySpace(b, l)
  \/ \E b \in Bases, l \in Lengths : RemoveMemorySpace(b, l)
  \/ \E b \in Bases, l \in Lengths, a \in AttributeSets :
       SetMemorySpaceAttributes(b, l, a)

Spec == Init /\ [][Next]_vars

(***************************************************************************)
(* Properties                                                              *)
(***************************************************************************)
TypeOK ==
  /\ memMap \in Seq(MapEntries)
  /\ status \in Statuses
  /\ memoryMap \subseteq Addresses
  /\ insertAsserts \in BOOLEAN

\* Invariants 1 and 2 of the map: after every call of the Space Manager
\* the entries are ordered, gap-free and span [0, 2^SizeOfMemorySpace - 1]
\* exactly once (split in CoreInsertGcdMapEntry, merge in
\* CoreMergeGcdMapEntry, the search in CoreSearchGcdMapEntry).
MapCoversAddressSpace ==
  /\ Len(memMap) >= 1
  /\ memMap[1].BaseAddress = 0
  /\ memMap[Len(memMap)].EndAddress = MaxMemoryAddress
  /\ \A i \in 1..Len(memMap) : memMap[i].BaseAddress <= memMap[i].EndAddress
  /\ \A i \in 1..(Len(memMap) - 1) :
       memMap[i + 1].BaseAddress = memMap[i].EndAddress + 1

\* The map stays minimal: CoreCleanupGcdMapEntry merges every pair of
\* neighbouring entries whose six fields are equal, so no two neighbours
\* of the map are mergeable after any call, whatever range it changed.
MapCoalesced ==
  \A i \in 1..(Len(memMap) - 1) : ~Mergeable(memMap[i], memMap[i + 1])

\* Invariant 3 of the spec: every entry's attributes are among its
\* capabilities (Capabilities & Attributes == Attributes) at all times,
\* across SetMemorySpaceAttributes, RemoveMemorySpace (which clears the
\* capabilities) and a later AddMemorySpace of the same range.
AttributesWithinCapabilities ==
  \A i \in 1..Len(memMap) : memMap[i].Attributes \subseteq memMap[i].Capabilities

\* Section 7 of the spec: a call that returns an error changes nothing.
\* CoreAddMemorySpace returns the status of the page allocation that
\* follows a successful CoreInternalAddMemorySpace.
ErrorLeavesMapUnchanged ==
  [][status' # "Success" => UNCHANGED memMap]_vars

\* The ASSERTs of CoreInsertGcdMapEntry (TopEntry and BottomEntry unused)
\* hold at every call CoreConvertSpace and CoreAllocateSpace make.
InsertGcdMapEntryAssertsHold == insertAsserts

(***************************************************************************)
(* Reference for the allocate search: the entry covering an address, and  *)
(* every aligned base whose whole range [base, base + Length - 1] is      *)
(* unallocated space of the requested type ending at or below the         *)
(* search's MaxAddress.                                                   *)
(***************************************************************************)
EntryAt(m, a) == m[CHOOSE i \in 1..Len(m) : Covers(m[i], a)]

FeasibleBases(m, GcdMemoryType, Alignment, Length, MaxAddress) ==
  {a \in Addresses :
     /\ a % 2^Alignment = 0
     /\ a + Length - 1 <= MaxAddress
     /\ a + Length - 1 <= MaxMemoryAddress
     /\ \A x \in a..(a + Length - 1) :
          /\ EntryAt(m, x).ImageHandle = NULL
          /\ EntryAt(m, x).GcdMemoryType = GcdMemoryType}

\* The ceiling a request names: below *BaseAddress for the MaxAddress
\* types (BaseAddress 0 wraps to the top of the word), else none.
SearchCeiling(GcdAllocateType, BaseAddress) ==
  IF GcdAllocateType \in {"MaxAddressSearchBottomUp", "MaxAddressSearchTopDown"}
    THEN (BaseAddress - 1) % Word ELSE MaxMemoryAddress

\* The search places a request exactly when some placement is feasible,
\* at the lowest feasible base (Bottom) or the highest (Top).
SearchMatchesReference(types, Pick(_)) ==
  \A at \in types, t \in AllocMemoryTypes, al \in Alignments, l \in Lengths :
    \A b \in AllocateBases(at) :
      LET p == AllocatePlacement(memMap, "AllocateMemory", at, t, "IoNonExistent", al, l, b)
          F == FeasibleBases(memMap, t, al, l, SearchCeiling(at, b))
      IN  IF F = {} THEN ~p.found ELSE p.found /\ p.base = Pick(F)

\* The bottom-up searches of CoreAllocateSpace return the lowest feasible
\* aligned base (the spec's tie-break rule), and report NotFound only when
\* no placement exists.
BottomUpFindsLowest ==
  SearchMatchesReference({"AnySearchBottomUp", "MaxAddressSearchBottomUp"}, FS!Min)

\* The top-down searches return the highest feasible aligned base whose
\* end does not exceed the ceiling, and report NotFound only when no
\* placement exists.
TopDownFindsHighest ==
  SearchMatchesReference({"AnySearchTopDown", "MaxAddressSearchTopDown"}, FS!Max)

\* Spec property 2: SetMemorySpaceAttributes applied a second time with
\* the same range and attributes, right after it succeeded, gives back the
\* same map: the split and the merges of CoreCleanupGcdMapEntry leave no
\* descriptor that a repeated call would split or merge differently.
SetAttributesIdempotent ==
  \A b \in Bases, l \in Lengths, a \in AttributeSets :
    LET Set(m) == CoreConvertSpace(m, "SetAttributes", "NonExistent", "IoNonExistent", b, l,
                                   {}, a, TRUE, "Success")
        r1 == Set(memMap)
    IN  r1.status = "Success" => Set(r1.map).map = r1.map

\* Spec property 3: AddMemorySpace followed at once by RemoveMemorySpace of
\* the same range restores the map, as long as the Add succeeded: the
\* removed range merges back into its neighbours.  For every type but
\* SystemMemory, CoreAddMemorySpace is CoreInternalAddMemorySpace, the Add
\* convert alone; for SystemMemory it gives the pages to the DXE core and
\* the Remove is refused.
AddRemoveRoundTrip ==
  \A t \in AddMemoryTypes \ {"SystemMemory"}, b \in AddBases, l \in Lengths,
     c \in CapabilitySets :
    LET r1 == CoreConvertSpace(memMap, "Add", t, "IoNonExistent", b, l, c, {}, TRUE, "Success")
        r2 == CoreConvertSpace(r1.map, "Remove", "NonExistent", "IoNonExistent", b, l, {}, {},
                               TRUE, "Success")
    IN  r1.status = "Success" => r2.map = memMap

====
