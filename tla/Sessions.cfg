CONSTANTS
  Processes = {p1, p2}
  Requests = {r1, r2}
  Users = {u, v}
  Retailers = {u}
  Sockets = {s1, s2}
  MaxPairs = 3
  MaxAged = 1
  MaxNews = 2
SPECIFICATION Spec
SYMMETRY Symmetry
CONSTRAINT Bounded
INVARIANTS RevokedRefused OneGoodRefresh OnlineHasSession ShownHasSocket
