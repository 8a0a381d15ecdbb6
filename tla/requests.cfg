\* Two callers that read, write and stream through either authenticator.  Deadlock
\* is not checked: every caller has made its request.
SPECIFICATION FairSpec
CONSTANTS
    Callers = {c1, c2}
    NoCaller = NoCaller
    Modes = {"oauth2", "session"}
    Classes = {"read", "write", "stream"}
    Passwords = {"kept"}
    MaxRetries = 1
    MaxTickets = 2
    MaxEvents = 1
    Faults = {"lost", "busy", "refuse", "edge", "forget"}
INVARIANTS
    TypeOK
    AtMostOnce
PROPERTY
    RequestsEnd
CHECK_DEADLOCK FALSE
