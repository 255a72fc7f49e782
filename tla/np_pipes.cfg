SPECIFICATION Spec
CONSTANTS
    NFD = 6
    Clients = {c1,c2,c3}
    NoClient = NoClient
    MaxUsers = 3
    Names = {n1}
    LongNames = {n1}
    Anonymous = Anonymous
    Vars = {}
    Vals = {}
    Unset = Unset
    MaxSet = 0
    Commands <- TrioCommands
    MaxNum = 0
    Slow = {}
    Droppers = {}
SYMMETRY Perms
INVARIANTS TypeOK PendingPipesIntactUnlessMisclosed ReceivesFromSender ServerNeverHangs NamesUnique
PROPERTIES ImplementsRoom
