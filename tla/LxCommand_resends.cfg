SPECIFICATION FairSpec
CONSTANTS
    land = land
    mode = mode
    user = user
    NoCmd = NoCmd
    MainCmd <- MainCmds
    TimCmd <- NoCmds
    UserCmd <- UserCmds
    ResendTicks = 2
    RepeatLimit = 3
    MaxWire = 1
    Lossy = TRUE
    PromptAck = TRUE
PROPERTIES
    ResendOnlyUnansweredUnlessEarly
    SlotIsFreed
