\* Three routes at most to each of four targets, over every graph of the links.
CONSTANTS
    Nodes = {"s", "a", "b", "c", "t"}
    Source = "s"
    Targets <- Several
    Links <- Reportable
    AllowedProtocols <- BothProtocols
    Adverts <- Relays
    MaxHops = 4
    Limit = 3
    HopCeiling = 3
    ResultCeiling = 32
    HopPenalty = 10
    UnknownLatency = 1000
    Unmeasured = Unmeasured
    Requests = {request}
    Hosts = {"mesh", "static"}
    NoHost = NoHost
    NodeMap = {"mesh"}
    HostMap <- Statics
    DefaultBackend = "b0"
    Routes = {}
    Undecided = Undecided
SPECIFICATION RequestSpec
CHECK_DEADLOCK FALSE
INVARIANTS RoutesAreSound PlanIsBest AnswerIsRanked TakenAtMostOnce BestThatComesUp
PROPERTIES RequestsAreAnswered
