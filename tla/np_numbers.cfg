SPECIFICATION Spec
CONSTANTS
    NFD = 6
    Clients = {c1,c2}
    NoClient = NoClient
    MaxUsers = 2
    Names = {}
    LongNames = {}
    Anonymous = Anonymous
    Vars = {}
    Vals = {}
    Unset = Unset
    MaxSet = 0
    Commands <- NumberCommands
    MaxNum = 2
    Slow = {}
    Droppers = {}
SYMMETRY Perms
INVARIANTS NumberedPipesIntactUnlessMisclosed
PROPERTIES NumberedPipesKeepTurn
