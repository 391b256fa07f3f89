SPECIFICATION RecorderSpec
CONSTANTS
    a = a
    None = None
    Torn = Torn
    Paths <- MCPaths
    NRoots = 1
    RootOf <- MCRootOf
    ParentOf <- MCParentOf
    Below <- MCBelow
    Nodes <- MCNodes
    SizeOf <- MCSizeOf
    Sensitive = {}
    MaxEntries = 1
    MaxFileHash = 2
    MaxTotalHash = 1
    IoFaults = TRUE
    MaxChanges = 1
    MaxEvents = 3
    Descendants = {}
    PipeCap = 1
    MaxWrites = 0
    HasTimeout = TRUE
    SpawnFaults = TRUE
    WaitFaults = TRUE
    KillFaults = TRUE
    OutputFaults = FALSE
INVARIANTS
    LateChildIsDisclosed
    InterruptionIsDisclosed
    UntouchedIsNotReported
PROPERTIES
    StopSealsTheReceipt
