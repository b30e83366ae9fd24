CONSTANTS
    Servers = {s1, s2}
    Clients = {c1}
    Signalled = {s1, s2}
    MaxFails = 2
    MaxCrashes = 2
SPECIFICATION FairSpec
INVARIANTS NoReleaseLost NoNameLeft
PROPERTIES ServerStops
CHECK_DEADLOCK FALSE
