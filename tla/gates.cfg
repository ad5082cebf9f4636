CONSTANTS
  Worker = {w1, w2}
  Cli = {c1}
  Flow = flow
  MaxRetries = 1
  RegenCap = 1
  MaxFaults = 2
  Events = {"die", "raise", "setup", "undo_fails", "bare", "graduate", "continue", "timeout", "readfail", "redeploy"}
SPECIFICATION FairSpec
INVARIANTS TypeOK NoUnreviewedPass RefusalStands PauseIsTrue OneDriver
PROPERTIES NotLeftInProgress
CHECK_DEADLOCK FALSE
