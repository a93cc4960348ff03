------------------------- MODULE MCGcdMemorySpace --------------------------
(***************************************************************************)
(* Model-checking instance of GcdMemorySpace: a 4-address memory space   *)
(* (SizeOfMemorySpace = 2) with 2-address pages, UINT64 scaled to 3 bits,  *)
(* so that a base plus a length can wrap past the top of the word.         *)
(***************************************************************************)
EXTENDS GcdMemorySpace, TLC

CONSTANTS H1, D1

MCBases == 0..3
MCLengths == {1, 2, 3}
MCAlignments == {0, 1}
MCAddMemoryTypes == {"SystemMemory", "MemoryMappedIo"}
MCAllocMemoryTypes == {"SystemMemory"}
MCCapabilitySets == {{"UC", "WB"}}
MCAttributeSets == {{"UC"}}
MCImages == {Core, H1}
MCDevices == {NULL}
MCAllocateTypes == GcdAllocateTypes

\* Allocation requests of runs whose properties quantify over requests
\* themselves: AllocateAddress reaches every owner layout.
MCPlacementAllocateTypes == {"AllocateAddress"}

\* Runs about the map's shape declare only system memory and allocate at
\* alignment 0: ownership boundaries, not types, are what split and merge
\* descriptors there, and alignment only moves the searched base.
MCSystemMemoryOnly == {"SystemMemory"}
MCShapeAlignments == {0}

\* Runs about the searches leave attributes alone: they do not affect
\* whether an entry may be allocated.
MCNoAttributeSets == {}

\* Runs about declared I/O memory: AddMemorySpace allocates no pages.
MCMmioOnly == {"MemoryMappedIo"}

\* status, memoryMap and insertAsserts only record what calls returned or
\* did: no call reads them, so states that differ only in them are
\* explored once when no property of the run mentions them.
MCView == memMap

\* The view of runs about the ASSERTs of CoreInsertGcdMapEntry.
MCAssertView == <<memMap, insertAsserts>>

=============================================================================
