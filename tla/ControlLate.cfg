CONSTANTS
  Units = 3
  FaultUnits = {}
  BindFails = FALSE
  MaxDrivers = 1
  MaxTimeouts = 7
  Signals = FALSE
SPECIFICATION Spec
INVARIANT LateCostsOneUnit
