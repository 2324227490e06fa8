SPECIFICATION FetchFairSpec
CONSTANTS
  Clients = {c1}
  Views <- AllViews
  Routes <- DirectRoutes
  Routed <- RoutesOver
  MaxLinks = 3
  MaxNodes = 3
INVARIANTS WalksOnePlan SnapshotKeepsWhatFits
PROPERTIES RoutesConverge OutageSparesClients
