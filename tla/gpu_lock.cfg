CONSTANTS
  Procs = {"worker", "prefect"}
  Sessions <- MCSessions
  Process <- MCProcess
  Cards = {1, 2}
  Needs <- MCNeeds
  Conns = {c1, c2, c3}
  NoSession = NoSession
  NoConn = NoConn
  Events = {"flip", "timeout", "cancel", "cancel_release", "unlock_fails", "crash"}
SYMMETRY ConnSymmetry
SPECIFICATION Spec
INVARIANTS TypeOK CardsAreExclusive NoGateIsOrphaned
