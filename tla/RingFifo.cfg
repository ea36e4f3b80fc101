SPECIFICATION FifoSpec
CONSTANTS
    BufferLength = 4
    Slack = 2
    Byte = {a, b}
    MaxTransfer = 3
    Untouched = Untouched
INVARIANTS
    FifoTypeOK
    OffsetsAgreeWithFlag
PROPERTY
    RingImplementsQueue
