\* A session of two events, one of them long, and a row of the usage table.
CONSTANTS
    None = None
    Events = {"start", "end"}
    Large = {"start"}
    LastDay = 1
    Newline = Newline
    UsageRows = {"row"}
    Usage = 2
    Sids = {"sid", "unknown"}
    Unknown = "unknown"
    SidOf <- TheSidOf
    TypeOf <- TheTypeOf
    BatchSize = 2
    MaxFailures = 1
    MaxCrashes = 1
SPECIFICATION ProcessorSpec
INVARIANTS ProcessorTypeOK Delivery EndedIsForgotten
PROPERTY EventsPushed
