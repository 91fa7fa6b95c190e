SPECIFICATION Spec
CONSTANTS
    land = land
    mode = mode
    user = user
    NoCmd = NoCmd
    MainCmd <- NoCmds
    TimCmd <- NoCmds
    UserCmd <- UserCmds
    ResendTicks = 2
    RepeatLimit = 3
    MaxWire = 1
    Lossy = TRUE
    PromptAck = TRUE
PROPERTY
    GiveUpAfterAllSends
