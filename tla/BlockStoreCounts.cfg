SPECIFICATION Spec
CONSTANTS
    BlockCount = 4
    Content = {c1}
    LiveTypes = {"STORAGE_TYPE"}
    Word = 16
    MaxLinks = 2
    MaxSnapshots = 1
    NoBlock = NoBlock
    NoHeader = NoHeader
INVARIANTS
    BookkeepingAgrees
    DepletedOnlyWhenAllLive
PROPERTY
    ChangesLeaveACopy
CONSTRAINT
    LinkedOnce
