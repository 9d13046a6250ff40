\* Two threads that initialise the format once or more, before and after the
\* application has set pairs and with a monitor or without; every allocation may
\* fail but those that break a list.
SPECIFICATION Spec
CONSTANTS
    Threads = {t1, t2}
    LogFields <- MCLogFields
    PidKey <- MCPidKey
    PidText <- MCPidText
    Given <- MCGiven
    AppRequests <- MCAppRequests
    Keys <- MCKeys
    Values <- MCValues
    NULL = NULL
    Fail = {"list", "entry", "copy"}
    MaxCalls = 3
SYMMETRY Interchangeable
INVARIANTS
    TypeOK
    FieldsSet
    LittleLost
CHECK_DEADLOCK FALSE
