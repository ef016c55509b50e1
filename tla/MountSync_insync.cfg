\* An edit and a rename before the mount sees either.
SPECIFICATION Spec
CONSTANTS
  NumPaths = 2
  NumCopies = 0
  NumNodes = 2
  InitialNodes = 1
  Copying = FALSE
  Ticks = {"flush", "poll", "audit"}
  MaxRev = 3
  MaxWrites = 1
  MaxUserSteps = 2
  MaxWebSteps = 0
  MaxFaults = 0
INVARIANT InSyncIsStored
CHECK_DEADLOCK FALSE
