SPECIFICATION FairSpec
CONSTANTS
    Confs <- RuleFiles
    Asks <- Requests
    Unresolvable <- NoName
    Cuts = {1}
    Cap = 2
    MaxSent = 3
    ForkMayFail = TRUE
INVARIANTS TypeOK FirewallAsRead WaitsWhenPassedOn
PROPERTIES ImplementsRelay NothingLostAtClose SessionEnds TrafficFlows
