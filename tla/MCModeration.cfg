SPECIFICATION ModSpec
CONSTANTS
  Viewers = {u1, u2}
  NoUser = NoUser
  Owner = owner
  Delegates = {m1}
  Cells <- MCCells
  Colors <- MCColors
  GroupWindow = 0
  PreviewMax = 1
  Scenarios <- MCScenarios
SYMMETRY MCSymmetry
CHECK_DEADLOCK FALSE
INVARIANTS
  WipeLeavesNothing
  BuriesOnlyUnseen
  RestoredOnce
  StampIsOwn
  PreviewMatchesAction
