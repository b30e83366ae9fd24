CONSTANTS
    Servers = {s1, s2}
    Clients = {c1, c2}
    NoOne = NoOne
    MessageLen = 2
    MaxStarts = 2
    MaxFaults = 2
SPECIFICATION Spec
INVARIANTS
    LogIsComplete
    NoSocketLeft
PROPERTY
    ClientIsLogged
CHECK_DEADLOCK FALSE
