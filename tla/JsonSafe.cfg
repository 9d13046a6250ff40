\* Every combination of fields, contexts and messages in buffers of 26 lengths, from
\* one too short for any entry to one that is long enough for all of them.
SPECIFICATION FairSpec
CONSTANTS
    Open = 2
    Marker = 2
    IdOpen = 1
    MdcOpen = 2
    MaxIdent = 2
    MinBuffer = 7
    Lens <- MCLens
    Stamps = {2}
    Severities = {0, 1}
    Identities <- MCIdentities
    Contexts <- MCContexts
    Messages <- MCMessages
    CanFail = TRUE
INVARIANTS
    TypeOK
    InBounds
    EntryWhole
    TruncatedWhenNeeded
    CopyWhole
    CopyReversible
PROPERTIES
    FormatEnds
CHECK_DEADLOCK FALSE
