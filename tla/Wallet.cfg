CONSTANTS
  Requests = {r1, r2}
  Users = {a, b}
  Paisa = 4
  Amounts = {2002, 4001}
  Reward = 4000
  MaxLedger = 10000
SPECIFICATION Spec
SYMMETRY Symmetry
CONSTRAINT Bounded
INVARIANTS NothingFromNothing ReferralsPaired LedgerAgrees
