SPECIFICATION FairSpec
CONSTANTS
    b1 = b1
    b2 = b2
    Browsers = {b1, b2}
    Hasty = {b1}
    Requests <- MCRequests
    Programs = {"console3", "console4", "cgi_server"}
    Sessions <- MCSessions
    Queries <- MCQueries
    Lines <- MCLines
    Frail <- MCFrail
    Outputs <- MCOutputs
    Cap = 4
    MaxLines = 2
    Alphabet <- MCAlphabet
    MaxText = 4
INVARIANTS
    TypeOK
    HeldByPrograms
    PageInOrder
    WaitsOnlyIfCut
    ReplacesEachOnce
CHECK_DEADLOCK FALSE
PROPERTIES
    EveryPageEnds
    FilePlayed
