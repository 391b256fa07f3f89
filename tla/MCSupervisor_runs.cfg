SPECIFICATION FairSpec
CONSTANTS
    d1 = d1
    None = None
    Descendants <- MCDescendants
    PipeCap = 1
    MaxWrites = 2
    HasTimeout = TRUE
    SpawnFaults = TRUE
    WaitFaults = TRUE
    KillFaults = TRUE
    OutputFaults = TRUE
INVARIANTS
    UnreapedChildIsDisclosed
    OutcomeIsTrue
    PassThroughIsComplete
PROPERTIES
    FullPipeDrains
    StopEndsTheRun
