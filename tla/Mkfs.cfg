SPECIFICATION Spec
CONSTANTS
    Sectors <- SmallDevices
    Overs <- BlockSizes
    AttrsPerSector = 1
    MinJournal = 3
    JournalShare = 5
    Word = 512
INVARIANTS
    TypeOK
    RegionsTile
    SearchIsExact
    AllOrNothing
    FailsForLargeBlocksOnly
PROPERTY
    Ends
CHECK_DEADLOCK FALSE
