\* Two short events and a long one, a midnight; the writer restarts once, anywhere.
CONSTANTS
    e1 = e1  e2 = e2  e3 = e3  s1 = s1  s2 = s2
    a1 = a1  a2 = a2  url = url  c1 = c1  c2 = c2  hassh = hassh
    Newline = Newline
    Events = {e1, e2, e3}
    Large = {e3}
    LastDay = 2
    Sessions = {s1, s2}
    Values = {a1, a2, url}
    Commands = {c1, c2}
    Signals = {hassh}
    SessionOf <- EventSession
    AddressOf <- SessionAddress
    Indicators <- EventIndicators
    CommandOf <- EventCommand
    SignalsOf <- SameTool
    MaxSids = 1
    MaxCommands = 2
    MaxRestarts = 1
SPECIFICATION Spec
INVARIANTS TypeOK CursorExact
PROPERTIES DatabaseGrows DataArrives
