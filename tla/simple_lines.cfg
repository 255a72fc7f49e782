SPECIFICATION Spec
CONSTANTS
    NFD = 8
    PipeCap = 1
    Commands <- Lines
    MaxLines = 4
    ClosesNumbered = FALSE
INVARIANTS TypeOK PendingIntact ReadsItsOwn StagesConnected HangIsExplained
PROPERTIES ImplementsMail
