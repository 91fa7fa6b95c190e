\* Two threads, two frames of one key and one of another, two attempts, one slot.
SPECIFICATION Spec
CONSTANTS
    e1 = e1
    e2 = e2
    e3 = e3
    e4 = e4
    t1 = t1
    t2 = t2
    f1 = f1
    f2 = f2
    f3 = f3
    k1 = k1
    k2 = k2
    Threads <- TwoThreads
    Frames <- ThreeFrames
    Keys <- TwoKeys
    Key <- Sums
    Sends <- OneAndTwo
    Events <- FourEvents
    MaxRetry = 2
    AckSlots = 1
    MaxWire = 1
INVARIANTS
    TypeOK
    AckMeansHeard
    KeyErrorIsShared
    EntryHasCaller
SYMMETRY EventSymmetry
