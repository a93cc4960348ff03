---------------------------- MODULE MCGcdBootstrap ----------------------------
(***************************************************************************)
(* HOB lists for CoreInitializeMemoryServices on a 32-byte address space  *)
(* with 2-byte pages and an 8-byte MINIMUM_INITIAL_MEMORY_SIZE: the PHIT's *)
(* resource HOB and any ordering of up to three more resource HOBs.        *)
(***************************************************************************)
EXTENDS GcdBootstrap, FiniteSets

\* The attributes of tested, uncached system memory and of an uncached
\* MMIO window.
MCTested == {"PRESENT", "INITIALIZED", "TESTED", "UNCACHEABLE"}
MCPresentUc == {"PRESENT", "UNCACHEABLE"}

Res(type, attr, start, len) ==
  [kind |-> "ResourceDescriptor", ResourceType |-> type, ResourceAttribute |-> attr,
   PhysicalStart |-> start, ResourceLength |-> len]

\* The PEI memory [8, 16): the HOB list at 8, free memory [10, 14).
MCPhit == [EfiMemoryTop |-> 16, EfiFreeMemoryBottom |-> 10, EfiFreeMemoryTop |-> 14]

\* The PHIT's resource HOB, giving 8 bytes below the HOB list or only 4.
MCPhitResources == {Res("SystemMemory", MCTested, 0, 16), Res("SystemMemory", MCTested, 4, 12)}

\* A small and a large tested region above the PEI memory, and an MMIO
\* window at the top.
MCOtherHobs ==
  { Res("SystemMemory", MCTested, 16, 4),
    Res("SystemMemory", MCTested, 20, 10),
    Res("MemoryMappedIo", MCPresentUc, 30, 2) }

\* Every ordering of the PHIT's resource HOB and a subset of the others.
MCHobLists ==
  { [phit |-> MCPhit, list |-> l] :
      l \in UNION { {s \in [1..Cardinality(S) -> S] : \A i, j \in DOMAIN s : i # j => s[i] # s[j]}
                    : S \in {{r} \cup O : r \in MCPhitResources, O \in SUBSET MCOtherHobs} } }
====
