\* The routes that cannot be dialed use up the places of those that can.
CONSTANTS
    Nodes = {"s", "a", "b", "c", "t"}
    Source = "s"
    Targets <- Once
    Links <- Reportable
    AllowedProtocols <- BothProtocols
    Adverts <- Relays
    MaxHops = 4
    Limit = 1
    HopCeiling = 3
    ResultCeiling = 32
    HopPenalty = 10
    UnknownLatency = 1000
    Unmeasured = Unmeasured
    Requests = {request}
    Hosts = {"mesh", "static"}
    NoHost = NoHost
    NodeMap = {"mesh"}
    HostMap <- Statics
    DefaultBackend = "b0"
    Routes = {}
    Undecided = Undecided
SPECIFICATION RequestSpec
CHECK_DEADLOCK FALSE
INVARIANT AnswerIsBest
