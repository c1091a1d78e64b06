\* Every acyclic topology of three devices, edited at will; no bound on the
\* number of cycles, since the streaks saturate.  Two ping sessions of a packet each.
SPECIFICATION WatchSpec
CONSTANTS
    Devices = {1, 2, 3}
    Observed = {"lost", "good"}
    DownConsecutive = 2
    DegradedConsecutive = 1
    RecoverConsecutive = 2
    StreakCap = 2
    MaxSessions = 2
    MaxPackets = 1
    MaxFaults = 1
INVARIANTS
    WalkIsTheCycle
    BlameIsExact
    SuppressionIsNeutral
    EventsTellTheState
    NothingSkipped
PROPERTIES
    OverIsOver
CHECK_DEADLOCK FALSE
