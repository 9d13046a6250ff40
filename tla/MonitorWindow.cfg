\* One initialisation, no failures, and the file changes once.
SPECIFICATION Spec
CONSTANTS
    Apps = {a1}
    Monitors = {m1}
    Contents <- Sound
    Missing = Missing
    None = None
    Names = {"path"}
    MaxCalls = 1
    MaxInits = 1
    MaxWrites = 1
    Sets = {}
    CanFail = FALSE
    Signals = FALSE
INVARIANTS
    LevelMonitored
CHECK_DEADLOCK FALSE
