SPECIFICATION Spec
CONSTANTS
  Tasks = {1}
  Slots = {s1, s2}
  Operator = operator
  NoTask = noTask
  MaxRetries = 1
  MaxRegens = 1
  Events = {"kill", "crash", "raise", "registry", "stall", "dbfail", "clear", "overlap", "brain", "operator", "cancel", "defer"}
SYMMETRY SlotSymmetry
INVARIANTS TypeOK RerunsArePaidFor ResetsAreBounded
