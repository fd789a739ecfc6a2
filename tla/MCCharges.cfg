SPECIFICATION ChargesSpec
CONSTANTS
  Sessions = {s1, s2}
  Base = 1
  Cap = 2
  Cost = 1
  Interval = 2
  Amount = 1
  GaugeTtl = 6
  MaxTime = 6
  Second = 2
  Day = 6
SYMMETRY MCSymmetry
CHECK_DEADLOCK FALSE
INVARIANTS
  NeverOverspends
  NeverAboveCeiling
  GrantedOncePerTier
