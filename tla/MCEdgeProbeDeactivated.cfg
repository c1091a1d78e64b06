\* One device that never dies, of a daemon that need not know it; the organisation
\* is deactivated.
SPECIFICATION Spec
CONSTANTS
    Devices = {1}
    MaxChanges = 0
    MaxEdits = 2
    DownConsecutive = 3
    DegradedConsecutive = 1
    RecoverConsecutive = 2
    StreakCap = 3
PROPERTY DeactivatedOpensNoOutage
CHECK_DEADLOCK FALSE
