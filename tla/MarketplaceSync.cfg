SPECIFICATION MarketSpec
CONSTANTS
  Catalogue <- MCCatalogue
  Listings <- MCListings
  Text <- MCText
  None = "none"
  Threshold = 2
  MaxRetries = 1
  FixLimit = 1
  Shops = {"shopify", "woocommerce", "trendyol", "hepsiburada", "pazarama"}
  Jobs = {1, 2}
  Sizes = {2}
  Ledger0 <- MCLedger0
  Listed0 <- MCListed0
  MaxNews = 1
INVARIANT SettledAgrees
PROPERTIES RefusedExactly
CHECK_DEADLOCK FALSE
