CONSTANTS
  Units = 2
  FaultUnits = {}
  BindFails = FALSE
  MaxDrivers = 1
  MaxTimeouts = 1
  Signals = TRUE
SPECIFICATION Spec
INVARIANT DriverSurvives
