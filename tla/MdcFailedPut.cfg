\* The copies of a key or a value that put_mdc() makes may fail.
SPECIFICATION Spec
CONSTANTS
    Threads = {t1, t2}
    Nodes = {n1, n2}
    NULL = NULL
    NoList = NoList
    Keys <- TwoKeys
    Values <- OneValue
    Fail = {"key", "value"}
INVARIANTS
    FirstMdcIsSet
