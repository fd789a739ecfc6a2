SPECIFICATION DrainSpec
CONSTANTS
  Users = {u1}
  NoUser = NoUser
  Cells = {c1}
  Colors <- MCColors
  Workers = {w1, w2}
  NoWorker = NoWorker
  MaxBatch = 2
  StreamMaxLen = 0
  MaxModCells = 2
  MaxWrites = 3
  MaxFaults = 2
SYMMETRY MCSymmetry
INVARIANTS
  NoAcceptedWriteLost
  CursorNeverSkips
  ExactlyOnceCredit
  CellCountExact
PROPERTY ImplementsLog
