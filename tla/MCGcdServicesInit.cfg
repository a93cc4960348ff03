CONSTANTS
  NULL = NULL
  Core = Core
  D1 = D1
  D2 = D2
  WordBits = 5
  EFI_PAGE_SHIFT = 1
  HobStart = 8
  MINIMUM_INITIAL_MEMORY_SIZE = 8
  SizeOfMemorySpace = 5
  SizeOfIoSpace = 3
  HobLists <- MCServicesHobLists
  IoImages <- MCIoImages
  IoTypes <- MCIoTypes
  IoBases <- MCIoBases
  IoLengths <- MCIoLengths
  IoAllocateTypes <- MCIoAllocateTypes
  MaxIoCalls = 3
SPECIFICATION SequencerSpec
INVARIANT TypeOK
INVARIANT DeclaredRangesDisjoint
INVARIANT MemoryServicesMatchGcd
PROPERTY IoOwnershipStable
PROPERTY IoErrorLeavesMapUnchanged
