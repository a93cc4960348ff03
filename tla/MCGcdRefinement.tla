------------------------- MODULE MCGcdRefinement ---------------------------
(***************************************************************************)
(* GcdMemorySpace implements GcdSpaceAbstract: the descriptor list, read   *)
(* address by address, behaves as the per-address space of the abstract  *)
(* specification, and memoryMap is the same set of declared pages.        *)
(***************************************************************************)
EXTENDS MCGcdMemorySpace

\* The fields of the descriptor covering each address.
AbsSpace ==
  [a \in Addresses |->
     LET e == EntryAt(memMap, a)
     IN  [type |-> e.GcdMemoryType, caps |-> e.Capabilities,
          attrs |-> e.Attributes, image |-> e.ImageHandle,
          device |-> e.DeviceHandle]]

Abs == INSTANCE GcdSpaceAbstract
         WITH MaxAddress <- MaxMemoryAddress, PageSize <- EFI_PAGE_SIZE,
              space <- AbsSpace, memoryMap <- memoryMap

\* Page-aligned bases for AddMemorySpace: the ones firmware passes for
\* resource descriptors.
MCAlignedBases == {b \in MCBases : b % EFI_PAGE_SIZE = 0}

\* Every behaviour of the memory Space Manager, seen through AbsSpace, is a
\* behaviour of the abstract space: each call changes only the range it
\* names, under the precondition of its row of the spec's table.
AbstractSpec == Abs!Spec

\* A smaller set of allocation requests: every refinement step is checked
\* against all the abstract ranges.
MCRefAlignments == {0}
MCRefLengths == {1, 2}

MCRefView == <<memMap, memoryMap>>
=============================================================================
