\* A buffer of two samples, streams of up to three, two streams.
SPECIFICATION FairSpec
CONSTANTS
    Capacity = 2
    Batch = 2
    MaxSampleSeq = 3
    MaxSession = 2
INVARIANTS
    TypeOK
    CursorIsFinal
PROPERTIES
    ImplementsLog
    DrainedIsHeld
    CatchesUp
