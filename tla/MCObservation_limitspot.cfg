SPECIFICATION ObservationSpec
CONSTANTS
    a = a
    b = b
    None = None
    Torn = Torn
    Paths <- MCPaths
    NRoots = 1
    RootOf <- MCRootOf
    ParentOf <- MCParentOf
    Below <- MCBelow
    Nodes <- MCNodes
    SizeOf <- MCSizeOf
    Sensitive = {}
    MaxEntries = 3
    MaxFileHash = 2
    MaxTotalHash = 1
    IoFaults = FALSE
    MaxChanges = 0
    MaxEvents = 3
INVARIANTS
    EntryLimitSpotIsTrue
