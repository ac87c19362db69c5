CONSTANTS
  Units = 2
  FaultUnits = {2}
  BindFails = TRUE
  MaxDrivers = 2
  MaxTimeouts = 1
  Signals = TRUE
SPECIFICATION Spec
INVARIANTS
  AnswersMatch
  FaultsReported
PROPERTIES
  OrphanStops
  ShutsDown
  SweepEnds
