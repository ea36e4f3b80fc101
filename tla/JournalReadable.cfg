SPECIFICATION Spec
CONSTANTS
    BufferLength = 19
    Slack = 4
    EntrySize = 4
    Serials = 7
    Untouched = Untouched
PROPERTY
    PushedIsReadable
