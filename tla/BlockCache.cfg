SPECIFICATION Spec
CONSTANTS
    Blocks = 6
    Data = {a, b}
    Info = {h}
    MaxCached = 3
    MaxHandles = 1
    MaxFrozen = 1
INVARIANTS
    TypeOK
    HeadersAgree
    SyncIsDurable
    HandlesStayValid
    CacheIsBounded
PROPERTIES
    ReadOnlyWritesNothing
    CacheImplementsMemory
