\* The same hosts, without changes, faults or deletions.
SPECIFICATION InventorySpec
CONSTANTS
    Content <- MCContent
    KnownDatabases <- MCKnownDatabases
    Essential = {"docker.service", "pulse-api"}
    MaxGroup = 2
    MaxStorageRows = 1
    Plans <- Undisturbed
    Others = {"metrics", "heartbeat"}
    Later = {}
PROPERTIES
    NothingInvented
