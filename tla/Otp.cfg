CONSTANTS
  Requests = {r1, r2}
  Phones = {x, y}
  MayOverlap = {"send", "login", "register", "confirm"}
  MaxCodes = 2
  MaxRows = 3
SPECIFICATION Spec
SYMMETRY Symmetry
CONSTRAINT Bounded
INVARIANTS OneUse PurposeHonoured
PROPERTY RoleKept
