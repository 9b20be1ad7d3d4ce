\* A buffer of two; a cycle has room for one sample behind its own.
SPECIFICATION FairSpec
CONSTANTS
    Cap = 2
    MaxSamples = 5
    MaxAttempts = 2
    Room = 2
    MaxFaults = 3
    MaxCrashes = 1
INVARIANTS
    EverySampleAccountedFor
    BacklogInOrder
PROPERTIES
    BacklogDelivered
CHECK_DEADLOCK FALSE
