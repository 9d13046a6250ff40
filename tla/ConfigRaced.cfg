\* First use of the library in one thread, mdclog_init() in the other.
SPECIFICATION Spec
CONSTANTS
    Threads = {t1, t2}
    Strings = {s1, s2, s3, s4}
    Alloc <- FirstFree
    Idents <- MCIdents
    MaxIdent = 1
    ProgName <- MCProgName
    NULL = NULL
    NoAttr = NoAttr
    MaxCalls = 4
INVARIANTS
    InitTakesEffect
