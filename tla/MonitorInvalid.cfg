\* A configuration file without a value for log-level.
SPECIFICATION Spec
CONSTANTS
    Apps = {a1}
    Monitors = {m1}
    Contents <- Invalid
    Missing = Missing
    None = None
    Names = {"path"}
    MaxCalls = 1
    MaxInits = 1
    MaxWrites = 1
    Sets = {}
    CanFail = FALSE
    Signals = FALSE
INVARIANTS
    InvalidFileTolerated
CHECK_DEADLOCK FALSE
