\* A tower and a device behind it: two handler threads, or one handler at a time
\* with a fault or an edit.
SPECIFICATION Spec
CONSTANTS
    Devices = {1, 2}
    Parents <- Star
    Threads = {t1, t2}
    NoThread = NoThread
    Observed = {"lost", "good"}
    MaxOutages = 2
    MaxUpsets = 1
    UpsetsApart = TRUE
    DownConsecutive = 1
    DegradedConsecutive = 1
    RecoverConsecutive = 1
    StreakCap = 1
SYMMETRY ThreadSymmetry
INVARIANTS
    LedgerAgrees
    OnlyRootCausesPage
    OpenOutagesAreSeenTo
PROPERTIES
    ImplementsLedger
CHECK_DEADLOCK FALSE
