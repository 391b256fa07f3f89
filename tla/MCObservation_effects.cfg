SPECIFICATION ObservationSpec
CONSTANTS
    a = a
    b = b
    None = None
    Torn = Torn
    Paths <- MCPaths
    NRoots = 1
    RootOf <- MCRootOf
    ParentOf <- MCParentOf
    Below <- MCBelow
    Nodes <- MCNodes
    SizeOf <- MCSizeOf
    Sensitive = {}
    MaxEntries = 2
    MaxFileHash = 2
    MaxTotalHash = 1
    IoFaults = FALSE
    MaxChanges = 2
    MaxEvents = 3
INVARIANTS
    AbsenceIsDisclosed
    ReportIsTrue
    LastingChangeIsReported
