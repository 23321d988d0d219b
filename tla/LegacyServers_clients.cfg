SPECIFICATION Spec
CONSTANTS
    c1 = c1
    c2 = c2
    a1 = a1
    a2 = a2
    Clients = {c1, c2}
    Addrs = {a1, a2}
    None = None
    Protocols <- MCProtocols
    Lines <- MCLines
    Segments = 2
    Seats <- MCSeats
    MaxLines <- MCMaxLines
    Databases = {0, 1}
    SessionTimeout = 0
    MaxClock = 1
INVARIANTS TypeOK LoginBeforeCommands LogComplete
PROPERTY ClientsAnswered
CHECK_DEADLOCK FALSE
