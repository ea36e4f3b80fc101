SPECIFICATION Spec
CONSTANTS
    BlockCount = 3
    Content = {c1, c2}
    LiveTypes = {"STORAGE_TYPE"}
    Word = 16
    MaxLinks = 2
    MaxSnapshots = 1
    NoBlock = NoBlock
    NoHeader = NoHeader
INVARIANTS
    TypeOK
    CallersKeepTheirBlocks
    SharedMeansFrozen
PROPERTIES
    SnapshotsAreImmutable
    OldestCopiesGoFirst
    StoreImplementsService
