\* Two POSTs, a GET and a DELETE race; writes fail; the server restarts.
CONSTANTS
    j1 = j1  j2 = j2  g1 = g1  d1 = d1
    None = None
    Jobs = {j1, j2}
    Gets = {g1}
    Cancels = {d1}
    DbErrors = TRUE
    MaxRestarts = 1
SPECIFICATION Spec
INVARIANTS TypeOK RegistrySound DoneIsGenuine
PROPERTY JobsSettle
CHECK_DEADLOCK FALSE
