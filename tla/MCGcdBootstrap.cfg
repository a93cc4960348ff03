CONSTANTS
  NULL = NULL
  WordBits = 5
  EFI_PAGE_SHIFT = 1
  HobStart = 8
  MINIMUM_INITIAL_MEMORY_SIZE = 8
  HobLists <- MCHobLists
SPECIFICATION Spec
PROPERTY MemoryServicesInitTerminates
