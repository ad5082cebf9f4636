SPECIFICATION Spec
CONSTANTS
  Tasks = {1, 2}
  Slots = {s1, s2}
  Operator = operator
  NoTask = noTask
  MaxRetries = 1
  MaxRegens = 0
  Events = {"kill", "crash", "defer", "operator", "clear", "registry"}
INVARIANTS SoleProducer ApprovedDraftIsKept
PROPERTIES ImplementsLeasedQueue
