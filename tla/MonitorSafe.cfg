\* Initialised twice, so that two monitors may run and race; the file changes while
\* the application sets the level itself and stops the monitors; everything may fail.
SPECIFICATION FairSpec
CONSTANTS
    Apps = {a1}
    Monitors = {m1, m2}
    Contents <- Sound
    Missing = Missing
    None = None
    Names = {"path", "root", "plain"}
    MaxCalls = 3
    MaxInits = 2
    MaxWrites = 2
    Sets = {3}
    CanFail = TRUE
    Signals = TRUE
INVARIANTS
    TypeOK
    NoLostChange
PROPERTIES
    CatchesUp
    MonitorsStop
CHECK_DEADLOCK FALSE
