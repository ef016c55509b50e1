\* A new file is written while another client uses its name.
SPECIFICATION Spec
CONSTANTS
  NumPaths = 2
  NumCopies = 0
  NumNodes = 3
  InitialNodes = 0
  Copying = FALSE
  Ticks = {"flush", "poll", "audit"}
  MaxRev = 3
  MaxWrites = 2
  MaxUserSteps = 3
  MaxWebSteps = 1
  MaxFaults = 0
PROPERTY EditsKept
CHECK_DEADLOCK FALSE
