\* Four special hosts, one of which turns into another while detectors run, and thirty-two
\* regular ones; two of a change, a fault and a deletion.
SPECIFICATION FairSpec
CONSTANTS
    Content <- MCContent
    KnownDatabases <- MCKnownDatabases
    Essential = {"docker.service", "pulse-api"}
    MaxGroup = 2
    MaxStorageRows = 1
    Plans <- MCPlans
    Others = {"metrics", "heartbeat"}
    Later = {1}
INVARIANTS
    NoOrphanData
PROPERTIES
    
    NoPortLost
    Settles
