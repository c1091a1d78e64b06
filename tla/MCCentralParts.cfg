\* Every topology over three devices; the shipped thresholds over seven polls;
\* four days of a ledger that only adjustments pay; a history of two outages; a closure
\* where two trunks meet; a drum of three cores in tubes of two.
SPECIFICATION PartsSpec
CONSTANTS
    Devices = {1, 2, 3}
    None = None
    DownConsecutive = 3
    DegradedConsecutive = 2
    RecoverConsecutive = 2
    StreakCap = 4
    MaxSamples = 7
    MaxRebuilds = 2
    LastDay = 3
    DaysPerMonth = 2
    Rates = {0, 1}
    BannerDays = 0
    BackfillMax = 2
    PaymentIds = {}
    Admins = {a1, a2}
    MaxFlagEdits = 2
    MaxCrashes = 1
    MaxCalls = 1
    MaxMoves = 1
    EndOfTime = 3
    Grace = 1
    Day = 2
    Early = 1
    MaxRows = 2
    Cabinets = {b1, b2}
    Closures = {c1, c2}
    Splitters = {b2}
    Ports = {in1}
    Inlet = in1
    MaxCount = 2
    MaxLaid = 3
    MaxChanges = 3
    DrumCores = 3
    TubeSize = 2
    MinRun = 2
    MinPortRun = 2
    InTheBox = InTheBox
    MaxFacts = 2
    Gear = {e1}
    Onus = {u1}
    Spots = {x1}
    Details = {n1}
    MaxFixes = 1
    MaxDesk = 1
    Managed = {m1}
    WebPorts = {80}
    Tabs = {w1}
    Workers = {k1, k2}
    Slots = 1
    MaxInflight = 1
    MaxSids = 2
    MaxRequests = 2
    Attempts = {p1, p2}
    MaxTicks = 1
    MaxReloads = 1
INVARIANTS
    OrderIsTopological
    RunsAreHeeded
    InvoiceIsTheSumOfItsDays
    PictureIsTheMoment
    FibresMeet
    TrayTellsAll
    RecordsAreTheirOwn
    AnswersAreTheirOwn
    NotAskedTwice
CHECK_DEADLOCK FALSE
