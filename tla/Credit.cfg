CONSTANTS
  Requests = {r1, r2}
  Totals = {1, 3}
  Debts = {2, 5}
  Pays = {2, 4}
  MaxOrders = 2
  MaxEntries = 3
SPECIFICATION Spec
INVARIANTS NeverOverpaid LedgerChain
PROPERTY ImplementsKhata
