\* One device, one handler at a time, two faults or edits, under the fairness of
\* the program.
SPECIFICATION FairSpec
CONSTANTS
    Devices = {1}
    Parents <- Star
    Threads = {t1}
    NoThread = NoThread
    Observed = {"lost", "good"}
    MaxOutages = 2
    MaxUpsets = 2
    UpsetsApart = FALSE
    DownConsecutive = 1
    DegradedConsecutive = 1
    RecoverConsecutive = 1
    StreakCap = 1
PROPERTIES
    ResolvedEscalationsEnd
    DownOutageIsPagedInTheEnd
CHECK_DEADLOCK FALSE
