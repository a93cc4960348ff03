----------------------------- MODULE GcdBootstrap -----------------------------
(***************************************************************************)
(* Phase 1 of the Bootstrap Sequencer: CoreInitializeMemoryServices       *)
(* (gcd.c), which walks the HOB list before any memory service exists to  *)
(* choose the first region of memory handed to the memory services.       *)
(*                                                                         *)
(* The HOB list is a record: the PHIT HOB's fields and the other HOBs in   *)
(* list order.  The first walk (for the resource HOB holding the PHIT's    *)
(* free memory) is one step; each pass of the do-while search for a region *)
(* below the shrinking ceiling MaxAddress is one step; the choice between  *)
(* the two, the ASSERT and CoreAddMemoryDescriptor are the last step.      *)
(* Addresses are scaled down and computed in UINT64 (GcdRangeEditor's U64). *)
(***************************************************************************)
EXTENDS Integers, Sequences, GcdRangeEditor

CONSTANTS
  HobLists,                     \* the HOB lists the PEI phase may hand over
  HobStart,                     \* *HobStart: the address of the HOB list
  MINIMUM_INITIAL_MEMORY_SIZE   \* gcd.c line 25, scaled

\* EFI_MAX_ADDRESS: the top of the UINT64 address space.
EFI_MAX_ADDRESS == Word - 1

(***************************************************************************)
(* Resource attribute bits (the EFI_RESOURCE_ATTRIBUTE_ names), a mask is *)
(* the set of its bits.  A resource descriptor HOB is tested system      *)
(* memory when its attributes, masked by MEMORY_ATTRIBUTE_MASK, equal     *)
(* TESTED_MEMORY_ATTRIBUTES.                                               *)
(***************************************************************************)
MEMORY_ATTRIBUTE_MASK ==
  {"PRESENT", "INITIALIZED", "TESTED", "READ_PROTECTED", "WRITE_PROTECTED",
   "EXECUTION_PROTECTED", "16_BIT_IO", "32_BIT_IO", "64_BIT_IO"}
TESTED_MEMORY_ATTRIBUTES      == {"PRESENT", "INITIALIZED", "TESTED"}
INITIALIZED_MEMORY_ATTRIBUTES == {"PRESENT", "INITIALIZED"}
PRESENT_MEMORY_ATTRIBUTES     == {"PRESENT"}
MaskedAttributes(h) == h.ResourceAttribute \cap MEMORY_ATTRIBUTE_MASK

IsResource(h) == h.kind = "ResourceDescriptor"
IsTestedMemory(h) ==
  /\ IsResource(h)
  /\ h.ResourceType = "SystemMemory"
  /\ MaskedAttributes(h) = TESTED_MEMORY_ATTRIBUTES
HobEnd(h) == U64(h.PhysicalStart + h.ResourceLength)

VARIABLES
  hobs,                   \* the HOB list: [phit, list]
  pc,                     \* "phit", "search", "choose" or "done"
  BaseAddress, Length,    \* the region chosen from the PHIT resource HOB
  PhitResourceHob,        \* index of the resource HOB holding the PHIT, 0 for NULL
  ResourceHob,            \* index of the resource HOB last visited, 0 for NULL
  MaxMemoryBaseAddress, MaxMemoryLength,
  MaxAddress,
  memoryMap,              \* the regions given to CoreAddMemoryDescriptor
  asserts                 \* every ASSERT reached so far held

vars == <<hobs, pc, BaseAddress, Length, PhitResourceHob, ResourceHob,
          MaxMemoryBaseAddress, MaxMemoryLength, MaxAddress, memoryMap, asserts>>

Init ==
  /\ hobs \in HobLists
  /\ pc = "phit"
  /\ BaseAddress = 0 /\ Length = 0
  /\ PhitResourceHob = 0 /\ ResourceHob = 0
  /\ MaxMemoryBaseAddress = 0 /\ MaxMemoryLength = 0
  /\ MaxAddress = EFI_MAX_ADDRESS
  /\ memoryMap = <<>>
  /\ asserts = TRUE

(***************************************************************************)
(* The first walk: the first tested-memory resource HOB that holds the    *)
(* PHIT's free memory.  The region is the memory above EfiMemoryTop, else *)
(* the free memory, else the memory below the HOB list; the walk stops at *)
(* that HOB (ResourceHob is left on it), or visits every resource HOB.    *)
(***************************************************************************)
HoldsFreeMemory(phit, h) ==
  /\ IsTestedMemory(h)
  /\ phit.EfiFreeMemoryBottom >= h.PhysicalStart
  /\ phit.EfiFreeMemoryTop <= U64(h.PhysicalStart + h.ResourceLength)

PhitRegion(phit, h) ==
  LET b1 == PageAlignAddress(phit.EfiMemoryTop)
      l1 == PageAlignLength(U64(HobEnd(h) - b1))
      b2 == PageAlignAddress(phit.EfiFreeMemoryBottom)
      l2 == PageAlignLength(U64(phit.EfiFreeMemoryTop - b2))
      b3 == PageAlignAddress(h.PhysicalStart)
      l3 == PageAlignLength(U64(HobStart - b3))
  IN  IF l1 >= MINIMUM_INITIAL_MEMORY_SIZE THEN <<b1, l1>>
      ELSE IF l2 >= MINIMUM_INITIAL_MEMORY_SIZE THEN <<b2, l2>>
      ELSE <<b3, l3>>

LastResource(list, S) ==
  IF \E i \in S : IsResource(list[i])
    THEN CHOOSE i \in S : IsResource(list[i]) /\ \A j \in S : IsResource(list[j]) => j <= i
    ELSE 0

FindPhitResource ==
  /\ pc = "phit"
  /\ LET list  == hobs.list
         holds == {i \in 1..Len(list) : HoldsFreeMemory(hobs.phit, list[i])}
     IN  IF holds # {}
           THEN LET p == CHOOSE i \in holds : \A j \in holds : i <= j
                    r == PhitRegion(hobs.phit, list[p])
                IN  /\ PhitResourceHob' = p /\ ResourceHob' = p
                    /\ BaseAddress' = r[1] /\ Length' = r[2]
                    /\ UNCHANGED asserts
           ELSE /\ PhitResourceHob' = 0
                /\ ResourceHob' = LastResource(list, 1..Len(list))
                /\ asserts' = FALSE
                /\ UNCHANGED <<BaseAddress, Length>>
  /\ pc' = "search"
  /\ UNCHANGED <<hobs, MaxMemoryBaseAddress, MaxMemoryLength, MaxAddress, memoryMap>>

(***************************************************************************)
(* One pass of the do-while loop.  Among the tested-memory resource HOBs   *)
(* other than the PHIT's that end at or below MaxAddress, the first with   *)
(* the highest PhysicalStart above 0 is the candidate; its page-aligned    *)
(* extent is recorded.  ResourceHob is left on the last resource HOB other *)
(* than the PHIT's that the walk visited, of any type, and MaxAddress      *)
(* becomes its PhysicalStart.  The loop goes on while a candidate was      *)
(* found that is smaller than MINIMUM_INITIAL_MEMORY_SIZE.                 *)
(***************************************************************************)
Candidates(list, p, ceiling) ==
  {i \in 1..Len(list) : i # p /\ IsTestedMemory(list[i])
                        /\ U64(list[i].PhysicalStart + list[i].ResourceLength) <= ceiling
                        /\ list[i].PhysicalStart > 0}

Highest(list, C) ==
  CHOOSE i \in C : \A j \in C : list[j].PhysicalStart < list[i].PhysicalStart
                                \/ (list[j].PhysicalStart = list[i].PhysicalStart /\ i <= j)

SearchPass ==
  /\ pc = "search"
  /\ LET list  == hobs.list
         C     == Candidates(list, PhitResourceHob, MaxAddress)
         found == C # {}
         h     == IF found THEN list[Highest(list, C)] ELSE list[1]
         mb    == PageAlignAddress(h.PhysicalStart)
         ml    == PageAlignLength(U64(HobEnd(h) - mb))
         last  == LastResource(list, (1..Len(list)) \ {PhitResourceHob})
         r     == IF last # 0 THEN last ELSE ResourceHob
     IN  /\ MaxMemoryBaseAddress' = IF found THEN mb ELSE MaxMemoryBaseAddress
         /\ MaxMemoryLength' = IF found THEN ml ELSE MaxMemoryLength
         /\ ResourceHob' = r
         /\ MaxAddress' = list[r].PhysicalStart
         /\ pc' = IF found /\ ml < MINIMUM_INITIAL_MEMORY_SIZE THEN "search" ELSE "choose"
  /\ UNCHANGED <<hobs, BaseAddress, Length, PhitResourceHob, memoryMap, asserts>>

(***************************************************************************)
(* After the loop: the searched region replaces the PHIT's when that one  *)
(* is too small or the searched one lies higher and is large enough;      *)
(* ASSERT the region is large enough and declare it to the memory          *)
(* services (CoreAddMemoryDescriptor, in pages).                           *)
(***************************************************************************)
ChooseRegion ==
  /\ pc = "choose"
  /\ LET take == \/ Length < MINIMUM_INITIAL_MEMORY_SIZE
                 \/ /\ MaxMemoryBaseAddress > BaseAddress
                    /\ MaxMemoryLength >= MINIMUM_INITIAL_MEMORY_SIZE
         b == IF take THEN MaxMemoryBaseAddress ELSE BaseAddress
         l == IF take THEN MaxMemoryLength ELSE Length
     IN  /\ BaseAddress' = b /\ Length' = l
         /\ asserts' = (asserts /\ l >= MINIMUM_INITIAL_MEMORY_SIZE)
         /\ memoryMap' = Append(memoryMap, [Type |-> "EfiConventionalMemory",
                                            PhysicalStart |-> b,
                                            NumberOfPages |-> l \div EFI_PAGE_SIZE])
  /\ pc' = "done"
  /\ UNCHANGED <<hobs, PhitResourceHob, ResourceHob, MaxMemoryBaseAddress,
                 MaxMemoryLength, MaxAddress>>

\* CoreInitializeMemoryServices has returned.
Done == pc = "done" /\ UNCHANGED vars

Next == FindPhitResource \/ SearchPass \/ ChooseRegion \/ Done

\* The boot processor runs this code to its end: nothing else runs.
Spec == Init /\ [][Next]_vars /\ WF_vars(Next)

-----------------------------------------------------------------------------
(***************************************************************************)
(* CoreInitializeMemoryServices returns: the search for a region below a  *)
(* shrinking ceiling ends on every HOB list (the spec, 4.3: the search     *)
(* either finds a region or ASSERTs).  It relies on each pass lowering     *)
(* MaxAddress below the region it just found.                              *)
(***************************************************************************)
MemoryServicesInitTerminates == <>(pc = "done")

====
