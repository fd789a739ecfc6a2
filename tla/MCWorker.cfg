SPECIFICATION FairWorkSpec
CONSTANTS
  Cells = {c1}
  Colors <- MCColors
  Nudges <- MCNudges
  MaxBatch = 1
  MaxRounds = 2
  PageSize = 1
  MaxAttempts = 2
  Scenarios <- MCScenarios
INVARIANTS
  AnswerCoversTrigger
  RebuildShowsLog
  RestoreShowsLive
PROPERTIES
  NeverWipesPopulated
  DrainsForever
