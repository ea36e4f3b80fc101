SPECIFICATION Spec
CONSTANTS
    Volumes <- RoomyAndTight
    File = {1, 2}
    Content = {a}
    Zero = z
    Fanout = 2
    InodePointers = 1
    MaxSize = 3
    MaxSnapshots = 1
    NoInode = NoInode
    Lost = Lost
INVARIANTS
    TypeOK
    TreesAreTrees
    NothingLeaks
PROPERTY
    InodesImplementFiles
