\* The sizes of the code and the buffer of mdclog_write(), and a long program name.
SPECIFICATION Spec
CONSTANTS
    Open = 7
    Marker = 11
    IdOpen = 6
    MdcOpen = 7
    MaxIdent = 100
    MinBuffer = 1000
    Lens = {4095}
    Stamps = {18}
    Severities = {13}
    Identities <- LongIdentities
    Contexts <- MCContexts
    Messages <- OneMessage
    CanFail = FALSE
INVARIANTS
    EntryIsJson
CHECK_DEADLOCK FALSE
