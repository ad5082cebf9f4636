SPECIFICATION FairSpec
CONSTANTS
  Tasks = {1}
  Slots = {s1, s2}
  Operator = operator
  NoTask = noTask
  MaxRetries = 1
  MaxRegens = 2
  Events = {"kill", "crash", "dbfail", "defer", "operator", "raise"}
PROPERTIES NoTaskStranded EveryTaskDecided
