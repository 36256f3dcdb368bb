SPECIFICATION Spec
CONSTANTS
  N = 3
  MaxFailures = 2
  Enabled = {TRUE, FALSE}
  Cancellers = {k1, k2}
  MaxFaults = 2
  MaxCrashes = 2
INVARIANTS
  StepsAccounted
PROPERTIES
  NothingIsRepeated
