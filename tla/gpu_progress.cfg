CONSTANTS
  Procs = {"worker", "prefect"}
  Sessions <- MCSessions
  Process <- MCProcess
  Cards = {1, 2}
  Needs <- MCNeedsNone
  Conns = {c1, c2}
  NoSession = NoSession
  NoConn = NoConn
  Events = {"timeout", "cancel", "unlock_fails", "nopg", "crash"}
SPECIFICATION FairSpec
INVARIANTS CardsAreExclusiveInAProcess NoConnectionOutlivesItsSession
PROPERTIES EveryWaiterServed
