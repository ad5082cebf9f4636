CONSTANTS
  Post = {a, b}
  Writer = {writer}
  Sweep = sweep
  Reconcile = reconcile
  MaxPerRun = 1
  MaxChanges = 3
  MaxFaults = 2
  Events = {"die", "file_fails", "withdraw"}
SPECIFICATION FairSpec
INVARIANTS TypeOK IndexDriftIsSeen
PROPERTIES ListingFollows RebuildRestores
CHECK_DEADLOCK FALSE
