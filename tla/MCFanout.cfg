SPECIFICATION FanoutSpec
CONSTANTS
  Clients = {v1}
  Cells = {x1, x2}
  RingSize = 2
  MaxWrites = 2
  MaxJoins = 2
  MaxFaults = 2
  Byte = 3
  PaletteSize = 2
CHECK_DEADLOCK FALSE
INVARIANT EntryIsSubscribed
PROPERTIES
  Heals
  ImplementsMirror
  EventuallyCurrent
