SPECIFICATION Spec
CONSTANTS
  Conns = {c1, c2}
  Ids = {"a", "b"}
  Identities = {"a", "b"}
  Anonymous = Anonymous
  Nobody = Nobody
  RelayPeers = {"b"}
  MaxEntries = 2
  MaxPerPeer = 1
  Ttl = 0
  Budget = 3
  Size <- MixedSize
  MaxClock = 1
SYMMETRY Symmetry
INVARIANTS CapsHold FreshReportsStay
PROPERTIES HeartbeatsAccepted SnapshotHonest OnlyTheEntitledWrite
