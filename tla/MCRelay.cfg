SPECIFICATION FairSpec
CONSTANTS
  Conns = {c1, c2, c3}
  Addrs = {a1, a2}
  Peers = {p1, p2, p3}
  AllowPeers = {p1, p2}
  NodeId = self
  OtherNodes = {n1}
  Nobody = Nobody
  MaxHops = 2
  MaxTotal = 2
  MaxPerPeer = 2
  MaxPendingTotal = 2
  MaxPendingPerAddr = 1
INVARIANTS AccountingExact CapsHold MapsTrackLiveKeys SpliceIsEarned
PROPERTIES RefusalsAreHonest HandshakeSlotReturns OnlyTrafficHoldsAChainSlot
CHECK_DEADLOCK FALSE
