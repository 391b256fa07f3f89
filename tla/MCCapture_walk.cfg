SPECIFICATION FairSpec
CONSTANTS
    a = a
    b = b
    c = c
    None = None
    Torn = Torn
    Paths <- MCPaths
    NRoots = 3
    RootOf <- MCRootOf
    ParentOf <- MCParentOf
    Below <- MCBelow
    Nodes <- MCNodes
    SizeOf <- MCSizeOf
    Sensitive = {1}
    MaxEntries = 2
    MaxFileHash = 2
    MaxTotalHash = 2
    IoFaults = TRUE
    MaxChanges = 1
INVARIANTS
    TypeOK
    CountersAreTrue
    TruncationLosesATail
    TruncationHasCause
    HashBudget
    AbsenceIsEvidence
    QuietEntryIsExact
PROPERTIES
    CaptureTerminates
