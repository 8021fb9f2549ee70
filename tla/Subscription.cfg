CONSTANTS
  Requests = {r1, r2}
  Months <- MCMonths
  MayOverlap = {"create", "confirm", "status", "approve"}
  MaxLinks = 2
  MaxNow = 3
SPECIFICATION Spec
INVARIANTS NeverOvergranted PaidAccounted
PROPERTY PaidTimeKept
