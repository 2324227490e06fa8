SPECIFICATION Spec
CONSTANTS
  Conns = {c1, c2, c3}
  Addrs = {a1, a2, a3}
  Peers = {p1, p2, p3, p4}
  AllowPeers = {p1, p2, p3}
  NodeId = self
  OtherNodes = {n1}
  Nobody = Nobody
  MaxHops = 2
  MaxTotal = 2
  MaxPerPeer = 1
  MaxPendingTotal = 2
  MaxPendingPerAddr = 1
SYMMETRY Symmetry
INVARIANT AdmissionReturnsHandshakeSlot
CHECK_DEADLOCK FALSE
