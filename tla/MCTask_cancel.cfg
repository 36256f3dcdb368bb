SPECIFICATION Spec
CONSTANTS
  N = 2
  MaxFailures = 2
  Enabled = {FALSE}
  Cancellers = {k1}
  MaxFaults = 0
  MaxCrashes = 0
PROPERTIES
  CancelledIsTerminal
