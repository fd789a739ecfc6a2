SPECIFICATION PlacingSpec
CONSTANTS
  Ops = {o1}
  GaugeMax = 1
  Interval = 1
  Amount = 1
  GaugeTtl = 5
  OpTtl = 2
  MaxTime = 2
  MaxJoins = 1
  MaxFaults = 1
CHECK_DEADLOCK FALSE
INVARIANT RefusedPixelGoes
