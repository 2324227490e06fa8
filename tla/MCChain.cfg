SPECIFICATION Spec
CONSTANTS
  Clients = {"c"}
  Nodes = {"n1", "n2", "t"}
  Candidates <- SharedRelay
  HasStatic = TRUE
  MaxHops = 3
  MaxTotal = 2
  MaxPerPeer = 1
  Rogues = {}
INVARIANTS ReadyMeansReached NoDeliveryForAbandoned
PROPERTIES ImplementsFailover
CHECK_DEADLOCK FALSE
