\* Two changes, both of which may be uncommitted at a time; a page holds one
\* row and a poll reads two pages; the environment interferes three times.
SPECIFICATION FairSpec
CONSTANTS
  r = r
  d = d
  Dir <- MCDir
  Root = r
  NoDir = NoDir
  MaxChanges = 2
  MaxOpen = 2
  PageLimit = 1
  MaxPages = 2
  MaxEvents = 3
INVARIANTS
  IInv
  MissingRemembered
PROPERTY
  CatchesUp
CHECK_DEADLOCK FALSE
