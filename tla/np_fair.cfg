SPECIFICATION FairSpec
CONSTANTS
    NFD = 4
    Clients = {c1,c2}
    NoClient = NoClient
    MaxUsers = 2
    Names = {}
    LongNames = {}
    Anonymous = Anonymous
    Vars = {v1}
    Vals = {x1}
    Unset = Unset
    MaxSet = 1
    Commands <- MixedCommands
    MaxNum = 1
    Slow = {c2}
    Droppers = {c1}
PROPERTIES ImplementsRoom LinesServed ConnectionsAccepted
