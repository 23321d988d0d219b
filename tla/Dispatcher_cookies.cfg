\* A visitor with two connections, two backends of which one cannot answer.
CONSTANTS
    Visitors = {v1}
    Conns = {c1, c2}
    Backends = {"php", "ssh"}
    Front = "front"
    Answering = {"php", "front"}
    Paths = {"/", "/php"}
    Route <- TheRoute
    Unknown = Unknown
    Listed = None
    None = None
    MaxRequests = 3
    MaxRestarts = 1
SYMMETRY Perms
CHECK_DEADLOCK FALSE
SPECIFICATION Spec
INVARIANTS TypeOK LogTruthful
PROPERTY PinKept
