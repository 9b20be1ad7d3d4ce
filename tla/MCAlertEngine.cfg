SPECIFICATION FairSpec
CONSTANTS
    Rules = {r1}
    Servers = {s1}
    Pollers = {p1, p2}
    Durations = {0, 1}
    MaxLag = 1
    MaxFaults = 1
PROPERTIES
    PersistentBreachFires
    RecoveredAlertsEnd
