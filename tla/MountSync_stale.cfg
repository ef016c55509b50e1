\* One name, another client deletes and recreates it: the audit before the poll.
SPECIFICATION FairSpec
CONSTANTS
  NumPaths = 1
  NumCopies = 0
  NumNodes = 2
  InitialNodes = 1
  Copying = FALSE
  Ticks = {"poll", "audit"}
  MaxRev = 6
  MaxWrites = 1
  MaxUserSteps = 0
  MaxWebSteps = 2
  MaxFaults = 0
PROPERTY Converges
CHECK_DEADLOCK FALSE
