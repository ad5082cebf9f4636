CONSTANTS
  Worker = {w1}
  Cli = {c1}
  Flow = flow
  MaxRetries = 1
  RegenCap = 1
  MaxFaults = 1
  Events = {"redeploy", "redeploy_paused"}
SPECIFICATION Spec
INVARIANTS NoUnreviewedPass
CHECK_DEADLOCK FALSE
