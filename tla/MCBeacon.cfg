SPECIFICATION FairSpec
CONSTANTS
  Nodes = {"a", "b"}
  Stranger = "s"
  HostOf <- OwnHosts
  Hosts = {"h1", "h2", "h3"}
  Far = "far"
  Hears <- OneWay
  Forged <- Strangers
  Gap = 2
  Cap = 2
  MaxFlight = 2
INVARIANTS AnswersAreBounded
PROPERTIES NothingLoops BothSidesFind
