SPECIFICATION Spec
CONSTANTS
    Blocks = 5
    Data = {a, b}
    Info = {h}
    MaxCached = 3
    MaxHandles = 1
    MaxFrozen = 3
PROPERTY
    KilledVolumeIsDirty
