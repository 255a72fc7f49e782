SPECIFICATION Spec
CONSTANTS
    Confs <- ExampleFile
    Asks <- Connects
    Unresolvable <- NoName
    Cuts = {}
    Cap = 1
    MaxSent = 1
    ForkMayFail = FALSE
INVARIANTS DecisionMatchesRules
