SPECIFICATION PlacingSpec
CONSTANTS
  Ops = {o1, o2}
  GaugeMax = 2
  Interval = 2
  Amount = 1
  GaugeTtl = 5
  OpTtl = 1
  MaxTime = 1
  MaxJoins = 2
  MaxFaults = 1
CHECK_DEADLOCK FALSE
INVARIANTS
  TabIsTruthful
PROPERTIES
  PlacesExactlyOnce
  EveryTapSettles
