SPECIFICATION Spec
CONSTANTS
    NFD = 5
    Clients = {c1,c2,c3,c4,c5}
    NoClient = NoClient
    MaxUsers = 4
    Names = {}
    LongNames = {}
    Anonymous = Anonymous
    Vars = {}
    Vals = {}
    Unset = Unset
    MaxSet = 0
    Commands <- PairCommands
    MaxNum = 0
    Slow = {}
    Droppers = {c5}
SYMMETRY Perms
INVARIANTS FdIdentifiesUser AfdsMatchUsers SocketsOpenUnlessMisclosed
