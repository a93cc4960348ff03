CONSTANTS
  NULL = NULL
  Core = Core
  H1 = H1
  D1 = D1
  WordBits = 3
  EFI_PAGE_SHIFT = 1
  SizeOfMemorySpace = 2
  Bases <- MCAlignedBases
  AddBases <- MCAlignedBases
  Lengths <- MCRefLengths
  Alignments <- MCRefAlignments
  AddMemoryTypes <- MCAddMemoryTypes
  AllocMemoryTypes <- MCAllocMemoryTypes
  CapabilitySets <- MCCapabilitySets
  AttributeSets <- MCAttributeSets
  Images <- MCImages
  Devices <- MCDevices
  AllocateTypes <- MCPlacementAllocateTypes
  PoolCanFail = FALSE
  CpuCanFail = FALSE
SPECIFICATION Spec
INVARIANT BottomUpFindsLowest
INVARIANT AddRemoveRoundTrip
PROPERTY AbstractSpec
VIEW MCRefView
