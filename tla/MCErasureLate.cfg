CONSTANTS
    Users = {"u1"}
    Logins = {"ann"}
    NoLogin = ""
    Reserved = {}
    ExactLogin <- LateExact
    Anon = "anon"
    BatchSize = 1
    MaxCanvases = 2
    Populations <- LatePopulations
SPECIFICATION FairSpec
PROPERTIES ActiveCanvasesAreDrained
CHECK_DEADLOCK FALSE
