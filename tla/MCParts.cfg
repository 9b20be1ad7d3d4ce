\* The buffer: capacity 3, every sequence of up to six pushes between drains.
\* The limiter: a token takes two and a half ticks and the bucket holds two, so that
\* refusals, partial refills and the ceiling are all met.
\* Signed requests: time in units of 30 s, as in the code a window of 2 and a
\* retention of 4; clocks one unit ahead, stalls of one unit.
\* Scans: two scans with room for one, so that every start prunes.
\* The history: room for three rows, a chart of two points, four requests.
\* The key setup: two setups, an ordinary key of the operator and one whose line
\* mentions Pulse's comment, one edit and one fault.
SPECIFICATION PartsSpec
CONSTANTS
    Cap = 3
    Priorities <- MCPriorities
    MaxPushes = 6
    Keys = {k1, k2}
    Rate = 2
    Burst = 10
    Cost = 5
    MaxClock = 7
    Requests = {r1, r2}
    Verifiers = {v1, v2}
    Window = 2
    Retention = 4
    Ahead = 1
    Stall = 1
    MinDuration <- MCMinDuration
    MaxTime = 7
    Servers = {h1, h2}
    NumChecks = 2
    Passive <- MCPassive
    Category <- MCCategory
    Modes = {"passive", "active", "full"}
    Filters <- MCFilters
    MaxJobs = 1
    MaxScans = 2
    Counter <- MCCounter
    MaxRows = 3
    MaxChart = 2
    Backends = {"memory", "postgres"}
    Ingesters = {i1, i2}
    MaxInstant = 3
    MaxArrivals = 4
    Setups = {s1, s2}
    OwnKeys = {o1, o2}
    Mentioning = {o2}
    MaxEdits = 1
    MaxFaults = 1
SYMMETRY Symmetric
CHECK_DEADLOCK FALSE
INVARIANTS
    RingTypeOK
    KeptInPushOrder
    KeepsTheBest
    NeverOverAdmits
    RefusalsAreFree
    LimiterIInv
    IInv
    AcceptedOnce
    LatestRetained
    ProgressIsTrue
    ChartCountsOnce
    ChartKeepsItsEnds
    
    OneKeyPerLabel
