CONSTANTS
  Requests = {r1, r2}
  Products = {"cake", "scone"}
  Shop <- MCShop
  InitQty <- MCStock
  Quantities = {1, 2}
  StockSets = {3}
  MayOverlap = {"add", "checkout"}
  MaxLines = 3
  MaxOrders = 2
  MaxWrites = 1
  MaxQty = 2
SPECIFICATION Spec
CONSTRAINT Bounded
INVARIANTS StockNotUnderstated
PROPERTIES SecondShopSource OrderFitsShop StockChangesBooked NothingLost
