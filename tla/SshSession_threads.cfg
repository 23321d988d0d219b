\* One connection with two channels, the second with a thread of its own; one password, one line or file.
CONSTANTS
    None = None  Main = Main  Transport = Transport  Builtin = Builtin
    Channels = {1, 2}
    Kinds <- HandlerAndThread
    FakeFS = TRUE
    MaxAuths = 1
    MaxJobs = 1
SPECIFICATION Spec
INVARIANTS TypeOK SeqsComplete LogIsTrue
PROPERTY SessionEnds
CHECK_DEADLOCK FALSE
