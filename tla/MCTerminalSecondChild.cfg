CONSTANTS
  RemainingPaths <- MCRemainingPaths
  Faults <- MCOpenInfoFaults
  MaxFaults = 1
  MaxStarts = 3
SPECIFICATION Spec
INVARIANT AtMostOneChild
