\* One document, two requests, one scan worker, three contents, one fault.
SPECIFICATION Safety
CONSTANTS
    c1 = c1  c2 = c2  c3 = c3
    h1 = h1  h2 = h2  w1 = w1  w2 = w2
    NoKey = NoKey
    Contents = {c1, c2, c3}
    Malware = {c2}
    TooBig = {}
    Handlers = {h1, h2}
    Workers = {w1}
    Keep = 1
    Quota = 3
    Faults = {"crash", "storage", "database", "overrun", "reply"}
    MaxFaults = 1
SYMMETRY HandlerSymmetry
INVARIANTS BytesKept ChargeExact NoOrphans
CHECK_DEADLOCK FALSE
