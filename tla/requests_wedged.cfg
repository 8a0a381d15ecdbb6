\* One caller, whose renewal is refused ambiguously.  Deadlock is not checked: that
\* is how it ends, and the property says so.
SPECIFICATION FairSpec
CONSTANTS
    Callers = {c1}
    NoCaller = NoCaller
    Modes = {"oauth2"}
    Classes = {"read"}
    Passwords = {"kept"}
    MaxRetries = 1
    MaxTickets = 2
    MaxEvents = 1
    Faults = {"odd", "age"}
PROPERTY
    RequestsEnd
CHECK_DEADLOCK FALSE
