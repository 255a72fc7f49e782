SPECIFICATION Spec
CONSTANTS
    NFD = 5
    Clients = {c1,c2,c3}
    NoClient = NoClient
    MaxUsers = 3
    Names = {}
    LongNames = {}
    Anonymous = Anonymous
    Vars = {}
    Vals = {}
    Unset = Unset
    MaxSet = 0
    Commands <- TrioCommands
    MaxNum = 0
    Slow = {}
    Droppers = {}
INVARIANTS SocketsOpen
