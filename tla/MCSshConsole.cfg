SPECIFICATION FairSpec
CONSTANTS
    Users = {u1}
    MaxOpens = 1
    Tabs = {a, b}
    Transports = {"ws", "sse"}
    MaxPerUser = 1
    MaxTotal = 2
INVARIANTS
    NoConnectionForgotten
    OneTransport
PROPERTIES
    KeepsContract
    EveryConnectionEnds
    ShellExitEndsStream
CHECK_DEADLOCK FALSE
