\* Two threads that share three entries, and every allocation may fail; without
\* symmetry, for liveness.  A thread that uses a list broken by a failed put ends
\* the model.
SPECIFICATION FairSpec
CONSTANTS
    Threads = {t1, t2}
    Nodes = {n1, n2, n3}
    NULL = NULL
    NoList = NoList
    Keys <- TwoKeys
    Values <- OneValue
    Fail = {"list", "entry", "copy", "key", "value"}
INVARIANTS
    DamageConfined
PROPERTIES
    CallsReturn
CHECK_DEADLOCK FALSE
