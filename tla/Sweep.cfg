SPECIFICATION Spec
CONSTANTS
  Conditions <- ThreeConditions
  FailLimit = 2
  VanishLimit = 3
  MaxSweeps = 3
  MaxFaults = 4
INVARIANTS LabelsTrue VerdictIsOwn HostLeftClean
