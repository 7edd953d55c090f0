SPECIFICATION Spec
CONSTANTS
  ClockModulus = 11
  MaxPassMs = 3
  UpdateIntervalMs = 2
  StepMinMs = 2
  StepMaxMs = 5
  RestMs = 3
  Mirror = 12
  MinimumDeg = 1
  MaximumDeg = 9
  RestDeg = 5
  Inversions = {TRUE, FALSE}
  Targets <- MCTargets
  Durations = {0, 1, 5}
INVARIANTS TypeOK WhereItSays InTime
PROPERTIES NeverTurnsBack
