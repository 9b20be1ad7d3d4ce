\* Two samples are buffered and their flush is interrupted.
SPECIFICATION FairSpec
CONSTANTS
    Cap = 2
    MaxSamples = 4
    MaxAttempts = 1
    Room = 3
    MaxFaults = 3
    MaxCrashes = 0
INVARIANT InterruptedFlushIsPutBack
CHECK_DEADLOCK FALSE
