CONSTANTS
    Users = {"u1", "u2"}
    Logins = {"ann", "bob", "api"}
    NoLogin = ""
    Reserved = {"api"}
    ExactLogin <- MCExact
    Anon = "anon"
    BatchSize = 1
    MaxCanvases = 4
    Populations <- MCPopulations
SPECIFICATION FairSpec
INVARIANTS LinksLeadToActive ErasedLeavesNoTrace
PROPERTIES OthersKeepPixels ErasureEnds
CHECK_DEADLOCK FALSE
