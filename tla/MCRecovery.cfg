SPECIFICATION RecoverySpec
CONSTANTS
  Users = {u1}
  NoUser = NoUser
  Cells = {c1, c2}
  Colors <- MCOneColor
  Workers = {w1, w2}
  NoWorker = NoWorker
  MaxBatch = 1
  StreamMaxLen = 0
  MaxModCells = 0
  MaxWrites = 3
  MaxFaults = 1
  SnapshotRetention = 1
  PageSize = 1
  MaxWipes = 1
  MaxRollbacks = 1
SYMMETRY MCSymmetry
CONSTRAINT OlderFileWhenFree
INVARIANTS
  NoVersionReuse
  AlwaysRebuildable
  RestoreIsComplete
PROPERTIES
  ImplementsDrain
