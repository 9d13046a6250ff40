\* The sizes of the code and the buffer of mdclog_write(); contexts with one
\* pair that leaves just room for the message, one byte less, and no room.
SPECIFICATION Spec
CONSTANTS
    Open = 7
    Marker = 11
    IdOpen = 6
    MdcOpen = 7
    MaxIdent = 100
    MinBuffer = 1000
    Lens = {4095}
    Stamps = {18}
    Severities = {13}
    Identities <- MCIdentities
    Contexts <- LongContexts
    Messages <- OneMessage
    CanFail = FALSE
INVARIANTS
    EntryNotDropped
CHECK_DEADLOCK FALSE
