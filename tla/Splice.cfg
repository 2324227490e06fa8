\* Two units each way, so that one can be stuck behind the other, and an idle
\* window of eight that is looked at every two.
SPECIFICATION FairSpec
CONSTANTS
  ToSend = 2
  Chunk = 2
  Window = 1
  Idle = 8
  MinTick = 1
CHECK_DEADLOCK FALSE
INVARIANTS EverythingIsHandedOver OvershootIsBounded
PROPERTIES SpliceEnds
