CONSTANTS
  Staff = {u1, u2}
  u1 = u1
  u2 = u2
  None = None
  Place <- Places
  Forms <- Growing
  Budgets <- Busy
  MaxMatched = 1
SYMMETRY Users
SPECIFICATION Spec
INVARIANTS TypeOK SentHasOffers OffersFollowAb MatchingStays
CHECK_DEADLOCK FALSE
