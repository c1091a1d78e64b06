\* Small instances of the parts of the dashboard, one after the other.
SPECIFICATION DashSpec
CONSTANTS
    None = None
    Routes = {"map", "survey"}
    Broken = {}
    MaxVersion = 2
    MaxDeploys = 2
    MaxVisits = 1
    MaxReloads = 1
    Owners = {o1}
    Supers = {s1}
    Orgs = {g1, g2}
    FirstOrg = g1
    NoUser = NoUser
    NoOrg = NoOrg
    MaxSessions = 2
    Pinned = {d1}
    Boxes = {d1}
    MaxModes = 2
    MaxCalls = 1
    Pins = {p1}
    Ground = {g1}
    Near = {g1}
    MaxPoints = 2
    MaxCables = 1
    Listed = {1, 2, 3}
    Plant = {3}
    MaxMoves = 1
    Targets = {t1, t2}
    MaxValues = 2
    Views = {home, network, orgs, settings}
    Home = home
    SuperOnly = {orgs}
    AccountOnly = {settings}
    MainOnly = {triage}
    Roles = {"worker", "superadmin"}
    Floor = 2
    Grip = 1
    Parts = 12
    MaxLayouts = 5
INVARIANTS
    NoReloadLoop
    ReplayStandsApart
    RowsAccountForAll
    SplitStands
PROPERTIES
    LogoutIsFinal
    ClosuresStandAtTheEnds
    TypingIsKept
CHECK_DEADLOCK FALSE
