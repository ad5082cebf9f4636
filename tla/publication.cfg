CONSTANTS
  Request = {r1}
  Flow = flow
  Publisher = publisher
  MaxTurns = 4
  Events = {"auto", "gate", "unparked", "die"}
SPECIFICATION FairSpec
INVARIANTS TypeOK LockStep
PROPERTIES GoesLiveOnAWord ScheduledGoesLive
CHECK_DEADLOCK FALSE
