CONSTANTS
    Cells = {"c1", "c2"}
    Off = Off
    MaxPointers = 2
    None = None
    MaxSockets = 3
    Colors = {1, 2}
    Erase = 0
    Board <- MCBoard
    MaxCharges = 1
    MaxTiers = 2
    Scenarios <- MCScenarios
    Canvases = {"a", "b"}
    Titles = {"a", "t"}
    Blank = ""
    Owner = "owner"
    Helpers = {"helper"}
    AuthorOn <- MCAuthors
    Nil = Nil
    StudioQuotas <- MCQuotas
SPECIFICATION FairTab
INVARIANTS InputIsWhatWasDone AuthorIsOfInspected CropsAsAskedRemovesOnce
PROPERTIES SignedInGetsIdentity
CHECK_DEADLOCK FALSE
