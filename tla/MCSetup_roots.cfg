SPECIFICATION Spec
CONSTANTS
    Places <- MCPlaces
    Nodes <- MCNodes
    MaxLinks = 2
    MaxChanges = 1
    Units <- MCUnits
    Word = 256
    MaxTimeout = 240
    MaxEntriesLimit = 3
    MaxEventsLimit = 3
    MaxFileLimit = 1
    MaxTotalLimit = 1
    CommandLines <- MCCommandLines
    SetupFaults = TRUE
    None = None
INVARIANTS
    RootsAreDisjoint
    QuietSetupIsExact
    TimeoutIsExact
