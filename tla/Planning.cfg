SPECIFICATION PlanSpec
CONSTANTS
  None = None
  Catalogue <- MCCatalogue
  Text <- MCText
  Listings <- MCListings
  Threshold = 1
  MaxRetries = 0
  FixLimit = 0
  Scale = 98304
  Parts = 2
  Alpha = 1
  Beta = 1
  Gamma = 1
  Season = 2
  Window = 3
  Horizon = 3
  HistoryLimit = 3
  ListLimit = 1
  SnapshotLimit = 4
  PageLimit = 1
  ByName <- MCByName
  BySku <- MCBySku
  LeadTime <- MCLeadTime
  SafetyDays = 1
  Active = {"p", "q"}
  Warehouses = {"main", "spare"}
  DefaultWarehouse = "main"
  Minimum <- MCMinimum
  Keys <- MCKeys
  Trimmed <- MCTrimmed
  Payloads <- MCPayloads
  UnitCosts = {3300, 10000}
  Past <- MCPast
  Events <- MCEvents
  MaxOrders = 2
INVARIANTS OrderedAsSold CostsAddUp  ForecastSound
CHECK_DEADLOCK FALSE
