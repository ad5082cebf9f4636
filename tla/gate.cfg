CONSTANTS
  Callers <- MCCallers
  Rank <- MCRank
  NoCaller = NoCaller
  Windows = {1, 2}
  MaxWait = 4
SPECIFICATION FairSpec
INVARIANTS TypeOK HeldByOne
PROPERTIES NeverJumpsAnElder OnlyEldersPassTheAged ImplementsLock
