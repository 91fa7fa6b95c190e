SPECIFICATION Spec
CONSTANTS
    land = land
    mode = mode
    user = user
    NoCmd = NoCmd
    MainCmd <- MainCmds
    TimCmd <- TimCmds
    UserCmd <- NoCmds
    ResendTicks = 2
    RepeatLimit = 2
    MaxWire = 1
    Lossy = FALSE
    PromptAck = TRUE
PROPERTY
    NoOverwrite
