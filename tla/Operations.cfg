SPECIFICATION Spec
CONSTANTS
    Volumes <- SmallVolumes
    Luck = {0, 1, 2, 9}
    MaxSnapshots = 2
    Zero = Zero
    Lost = Lost
    written = written
VIEW View
INVARIANTS TypeOK NothingIsShared MapAgrees
PROPERTY OperationsImplementNamespace
