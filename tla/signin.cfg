\* Renewals, a login and a logout that overlap, with a store that fails and a crash.
\* Deadlock is not checked: every caller has made its request.
SPECIFICATION Spec
CONSTANTS
    Callers = {c1, c2}
    NoCaller = NoCaller
    Modes = {"oauth2", "session"}
    Classes = {"read", "chunk", "status", "fresh", "login", "logout"}
    Passwords = {"kept", "none"}
    MaxRetries = 1
    MaxTickets = 3
    MaxEvents = 2
    Faults = {"lost", "forget", "password", "age", "store", "crash"}
INVARIANTS
    RotatedOnce
    SessionStopsDead
    StoreLeads
    SpentIsExcused
CHECK_DEADLOCK FALSE
