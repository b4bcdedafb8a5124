SPECIFICATION FairSpec
CONSTANTS
  MaxOrders = 4
  Prices <- MCPrices
  Quantities <- MCQuantities
  ChanCapacity = 2
INVARIANTS
  Conservation
  TradesHonourLimits
  BookComplete
  TimePriority
PROPERTIES
  CancelledNeverTrades
  SubmitReturns
  ImplementsExchange
