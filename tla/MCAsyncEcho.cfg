CONSTANTS
    Clients = {c1,c2}
    Server = server
    Proc = {c1, c2, server}
    Chars = {a, newline}
    Registration = newline
    MaxAttempts = 2
    MaxTyped = 1
    SendMayFail = TRUE
    Realtime = TRUE
    Nothing = Nothing
SPECIFICATION FairSpec
INVARIANTS PrintedWasSent AckedWasRead RegistrationAgrees
CHECK_DEADLOCK FALSE
