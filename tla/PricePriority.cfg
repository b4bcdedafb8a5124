SPECIFICATION Spec
CONSTANTS
  MaxOrders = 4
  Prices <- MCPrices
  Quantities <- MCQuantities
  ChanCapacity = 2
INVARIANT PricePriority
