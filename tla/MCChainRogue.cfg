SPECIFICATION FairSpec
CONSTANTS
  Clients = {"c", "d"}
  Nodes = {"n1", "n2", "r"}
  Candidates <- Crossing
  HasStatic = FALSE
  MaxHops = 3
  MaxTotal = 1
  MaxPerPeer = 1
  Rogues = {"r"}
INVARIANTS KeptIsReached ReasonSurvives
PROPERTIES ClientsDecide AbandonedChainsEnd
CHECK_DEADLOCK FALSE
