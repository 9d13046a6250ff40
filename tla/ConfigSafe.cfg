\* Two threads, each with calls enough to set an identity, to call mdclog_init()
\* and to write an entry; strings enough for all of them; no symmetry, for liveness.
SPECIFICATION FairSpec
CONSTANTS
    Threads = {t1, t2}
    Strings = {s1, s2, s3, s4}
    Alloc <- FirstFree
    Idents <- MCIdents
    MaxIdent = 1
    ProgName <- MCProgName
    NULL = NULL
    NoAttr = NoAttr
    MaxCalls = 5
INVARIANTS
    TypeOK
    SoleOwner
    ReadyWhenDone
    EntryNamed
    InitAloneTakesEffect
PROPERTIES
    IdentityStable
    InitLosesNoString
    CallsReturn
