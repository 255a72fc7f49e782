SPECIFICATION Spec
CONSTANTS
    Confs <- OneFile
    Asks <- Connects
    Unresolvable <- NoName
    Cuts = {0}
    Cap = 1
    MaxSent = 1
    ForkMayFail = FALSE
INVARIANTS EndedAnswered
