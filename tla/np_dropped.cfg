SPECIFICATION FairSpec
CONSTANTS
    NFD = 2
    Clients = {c1,c2}
    NoClient = NoClient
    MaxUsers = 2
    Names = {}
    LongNames = {}
    Anonymous = Anonymous
    Vars = {}
    Vals = {}
    Unset = Unset
    MaxSet = 0
    Commands <- NoCommands
    MaxNum = 0
    Slow = {}
    Droppers = {c1}
PROPERTIES DroppedUsersLeave
