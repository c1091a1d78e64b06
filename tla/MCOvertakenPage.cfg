\* A tower and a device behind it, two handler threads, nothing that fails.
SPECIFICATION Spec
CONSTANTS
    Devices = {1, 2}
    Parents <- Star
    Threads = {t1, t2}
    NoThread = NoThread
    Observed = {"lost", "good"}
    MaxOutages = 3
    MaxUpsets = 0
    UpsetsApart = FALSE
    DownConsecutive = 1
    DegradedConsecutive = 1
    RecoverConsecutive = 1
    StreakCap = 1
SYMMETRY ThreadSymmetry
INVARIANT PagedOutageIsProven
CHECK_DEADLOCK FALSE
