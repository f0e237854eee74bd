CONSTANTS
  Staff = {u1}
  u1 = u1
  None = None
  Place <- Places
  Forms <- Shrinking
  Budgets <- Serial
  MaxMatched = 1
SPECIFICATION Spec
PROPERTY EditKeepsMatching
CHECK_DEADLOCK FALSE
