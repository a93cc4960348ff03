CONSTANTS
  RemainingPaths <- MCRemainingPaths
  Faults <- MCFaults
  MaxFaults = 3
  MaxStarts = 4
SPECIFICATION Spec
INVARIANT TypeOK
INVARIANT ChildrenBoundToController
INVARIANT ConsoleVarsMatchTag
INVARIANT NoLeakWhenIdle
