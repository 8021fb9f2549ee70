CONSTANTS
  Requests = {r1}
  POs = {"po1", "po2"}
  Qty <- MCQty
  Total <- MCTotal
  Amounts = {4, 8}
  RzOrders = {rz1, rz2}
  NoRz = norz
  InitStock = 1
  InitAvail = 2
  MaxPayments = 2
SPECIFICATION Spec
CONSTRAINT Bounded
SYMMETRY Symmetry
INVARIANTS TypeOK PayableCoversDues StockExplained CreditedOnce
  PaidRespectsPayRules PaidOnlyIfReceived
