\* Four pilots, a hold of two calls to unlock and one to lock, a window of four.
SPECIFICATION Spec
CONSTANTS
    Scenes <- MCScenes
    UnlockHold = 2
    LockHold = 1
    Window = 4
INVARIANT TypeOK
PROPERTY
    TakeoffNeedsFlip
    GestureIsHeld
    ReturnHomeIsEarned
    ModeFollows
    StopIsHeard

