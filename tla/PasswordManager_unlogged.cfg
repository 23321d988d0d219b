\* Two threads of one address are accepted at the same time.
CONSTANTS
    c1 = c1  c2 = c2  c3 = c3  ip1 = ip1  ip2 = ip2
    master = master  short1 = short1  short2 = short2  long1 = long1
    NoIP = NoIP  NoPassword = NoPassword
    Conns = {c1, c2}
    IPs = {ip1}
    ClientIP <- TwoThreads
    Passwords = {master, short1, short2, long1}
    Configured = {master}
    Long = {long1}
    MinAttempts = 2
    MaxAttempts = 3
    EarlySuccess = FALSE
    SerialClients = FALSE
    MaxTries = 2
SPECIFICATION Spec
INVARIANT EveryAttemptLogged
CHECK_DEADLOCK FALSE
