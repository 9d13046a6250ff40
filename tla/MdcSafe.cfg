\* Two threads share three entries: each can fill its list, and exhaust the heap.
SPECIFICATION Spec
CONSTANTS
    Threads = {t1, t2}
    Nodes = {n1, n2, n3}
    NULL = NULL
    NoList = NoList
    Keys <- ThreeKeys
    Values <- TwoValues
    Fail = {"list", "entry", "copy"}
SYMMETRY Interchangeable
INVARIANTS
    TypeOK
    EntriesOwned
    ListLinked
    KeysUnique
    WalksOwnList
    EntriesPrintable
PROPERTIES
    OthersUntouched
    ImplementsContext
