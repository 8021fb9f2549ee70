CONSTANTS
  Requests = {r1, r2}
  POs = {"po1"}
  Qty <- MCQty
  Total <- MCTotal
  Amounts = {1, 8}
  RzOrders = {rz1, rz2}
  NoRz = norz
  InitStock = 1
  InitAvail = 2
  MaxPayments = 3
SPECIFICATION Spec
CONSTRAINT Bounded
SYMMETRY Symmetry
INVARIANT CreditedOnce
