CONSTANTS
  Caller = {a, b, c}
  Limits = {1, 2}
  Thresholds = {2}
  MaxAttempts = 2
  MaxChanges = 1
  Events = {"cancel", "resize", "retune"}
SPECIFICATION FairSpec
INVARIANTS TypeOK OneProbePerCooldown NotWedged PermitsAddUp
PROPERTIES EveryCallEnds ClosesForAHealthyProvider
