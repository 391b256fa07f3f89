SPECIFICATION Spec
CONSTANTS
    r1 = r1
    r2 = r2
    p1 = p1
    p2 = p2
    i1 = i1
    i2 = i2
    Recorders <- MCRecorders
    Paths <- MCPaths
    Ids <- MCIds
    Foreign = Foreign
    None = None
    SetupFaults = TRUE
    SealFaults = TRUE
    CreateFaults = TRUE
    WriteFaults = TRUE
    OutputFaults = TRUE
    Crashes = TRUE
    MaxChanges = 1
INVARIANTS
    TypeOK
    ReportedReceiptIsStored
    RefusalIsClean
    LeftoverIsDisclosed
PROPERTIES
    NoClobber
    ImplementsPromise
