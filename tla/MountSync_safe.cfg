\* Two names, one conflict copy; user, another client and a fault meet every pass.
SPECIFICATION Spec
CONSTANTS
  NumPaths = 2
  NumCopies = 1
  NumNodes = 3
  InitialNodes = 2
  Copying = TRUE
  Ticks = {"flush", "poll", "audit"}
  MaxRev = 3
  MaxWrites = 2
  MaxUserSteps = 2
  MaxWebSteps = 1
  MaxFaults = 1
INVARIANT SyncInv
PROPERTIES DeletesAreUsers EarlierEditsKept
CHECK_DEADLOCK FALSE
