CONSTANTS
  Requests = {r1, r2}
  Riders = {x, y}
  NoRider = norider
  MayOverlap = {"offer", "accept", "poll"}
  StaffSets = {"accepted", "packed", "delivery_assigned", "delivered"}
  MaxOffers = 2
  MaxReturns = 2
SPECIFICATION FairSpec
INVARIANTS AssignedAgreed TrackingFollows 
PROPERTIES OnlyOwnOfferWithdrawn OfferEnds
