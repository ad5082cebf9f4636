SPECIFICATION Spec
CONSTANTS
  Tasks = {1}
  Slots = {s1}
  Operator = operator
  NoTask = noTask
  MaxRetries = 1
  MaxRegens = 0
  Events = {"raise"}
INVARIANTS ApprovedDraftIsKept
