CONSTANTS
  Requests = {r1, r2}
  MaxMessages = 4
SPECIFICATION Spec
SYMMETRY Symmetry
INVARIANTS ReadWasShown BadgesExact EscalationAnnounced
