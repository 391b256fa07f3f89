SPECIFICATION FairSpec
CONSTANTS
    one = one
    two = two
    k1 = k1
    k2 = k2
    None = None
    Names <- MCNames
    Commands <- MCCommands
    Documents <- MCDocuments
    NewFiles <- MCNewFiles
    FirstFiles <- MCFirstFiles
    MaxBytes = 3
    MaxChanges = 1
    IoFaults = TRUE
INVARIANTS
    TypeOK
    SuccessIsVerified
    QuietReadIsExact
    DiffIsTrue
PROPERTY ReaderEnds
