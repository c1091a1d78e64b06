\* One node that loses its uplink; two probed devices; six releases, one that
\* exits at once, one that cannot even tell its version and one that cannot be
\* executed; two nodes, some with a newer release installed by hand, that update
\* themselves to a release, or operators arm two rollouts of it with any canaries.
SPECIFICATION Spec
CONSTANTS
    UplinkNodes = {n1}
    MaxUplinkLosses = 3
    MaxRebuilds = 2
    Probed = {1, 2}
    MaxChanges = 2
    MaxEdits = 1
    DownConsecutive = 3
    DegradedConsecutive = 1
    RecoverConsecutive = 2
    StreakCap = 3
    MaxRelease = 6
    Works = {1, 3, 6}
    Speaks = {1, 2, 3, 6}
    Starts = {1, 2, 3, 4, 6}
    MaxLosses = 2
    Fleet = {n1, n2}
    FleetReleases = 1
    ByHand = {2}
    MaxTroubles = 1
    MaxUpsets = 2
    Modes = {TRUE, FALSE}
    Mixed = FALSE
INVARIANTS
    OnePagePerUplinkLoss
    RecheckSettles
    DiskIsSound
    CanariesGoFirst
PROPERTIES
    FlagRecovers
    ChangesAreNoticed
    WorkingAgentComesBack
    RolloutEnds
CHECK_DEADLOCK FALSE
