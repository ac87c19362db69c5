SPECIFICATION Spec
CONSTANTS
  Conditions <- ThreeConditions
  FailLimit = 2
  VanishLimit = 3
  MaxSweeps = 1
  MaxFaults = 1
INVARIANT FinishedIsOver
