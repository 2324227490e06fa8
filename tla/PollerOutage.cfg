SPECIFICATION FairSpec
CONSTANTS
  Interval = 2
  Latency = 1
PROPERTIES OutagesAreRetried
