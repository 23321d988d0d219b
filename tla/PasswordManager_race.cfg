\* Two threads of one address and one without address, any interleaving; early success is off, so that an acceptance must be earned.
CONSTANTS
    c1 = c1  c2 = c2  c3 = c3  ip1 = ip1  ip2 = ip2
    master = master  short1 = short1  short2 = short2  long1 = long1
    NoIP = NoIP  NoPassword = NoPassword
    Conns = {c1, c2, c3}
    IPs = {ip1}
    ClientIP <- NoAddress
    Passwords = {master, short1, long1}
    Configured = {master}
    Long = {long1}
    MinAttempts = 2
    MaxAttempts = 2
    EarlySuccess = FALSE
    SerialClients = FALSE
    MaxTries = 2
SPECIFICATION Spec
INVARIANTS TypeOK BlacklistNeverAccepted Earned CountNeverAhead
CHECK_DEADLOCK FALSE
