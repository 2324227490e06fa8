SPECIFICATION HeadSpec
CONSTANTS
  Interval = 2
  Latency = 1
  MaxMessages = 2
  BesidePoller = 1
INVARIANTS FreshIsRecent OneMissIsForgiven TakenOnceOrTwice
PROPERTIES ViewRecovers PartialFailureEndsProcess
