\* Clients that wait for their answers; two connections share an address.
CONSTANTS
    c1 = c1  c2 = c2  c3 = c3  ip1 = ip1  ip2 = ip2
    master = master  short1 = short1  short2 = short2  long1 = long1
    NoIP = NoIP  NoPassword = NoPassword
    Conns = {c1, c2, c3}
    IPs = {ip1, ip2}
    ClientIP <- SharedAddress
    Passwords = {master, short1, short2}
    Configured = {master}
    Long = {}
    MinAttempts = 2
    MaxAttempts = 3
    EarlySuccess = FALSE
    SerialClients = TRUE
    MaxTries = 2
SPECIFICATION Spec
INVARIANTS AttemptsKept
PROPERTY ImplementsDeferredAuth
CHECK_DEADLOCK FALSE
