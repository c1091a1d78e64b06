\* Two builds and two pages, all chunks whole; four days in two months, one
\* payment; two payment attempts.
SPECIFICATION Spec
CONSTANTS
    Routes = {"map", "survey"}
    Broken = {}
    MaxVersion = 2
    MaxDeploys = 1
    MaxVisits = 0
    MaxReloads = 1
    LastDay = 3
    DaysPerMonth = 2
    Rates = {0, 1}
    BannerDays = 0
    BackfillMax = 2
    PaymentIds = {p1}
    Admins = {a1}
    MaxEdits = 1
    MaxCrashes = 1
    Attempts = {p1, p2}
    MaxTicks = 1
PROPERTIES
    ViewCatchesUp
    PaidUpUnlocks
    WaitingEnds
CHECK_DEADLOCK FALSE
