SPECIFICATION Spec
CONSTANTS
    land = land
    mode = mode
    user = user
    NoCmd = NoCmd
    MainCmd <- MainCmds
    TimCmd <- TimCmds
    UserCmd <- UserCmds
    ResendTicks = 2
    RepeatLimit = 2
    MaxWire = 1
    Lossy = TRUE
    PromptAck = TRUE
INVARIANTS
    TypeOK
    WireIntact
PROPERTIES
    NoOverwriteUnlessClash
    AnswerIsForThisCommand
    GiveUpAfterAllSendsUnlessClash
    ImplementsSlot
