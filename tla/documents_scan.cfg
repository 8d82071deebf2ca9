\* One request and two workers, which may overrun their lease.
SPECIFICATION SpecAll
CONSTANTS
    c1 = c1  c2 = c2  c3 = c3
    h1 = h1  w1 = w1  w2 = w2
    NoKey = NoKey
    Contents = {c1, c2, c3}
    Malware = {c2}
    TooBig = {c3}
    Handlers = {h1}
    Workers = {w1, w2}
    Keep = 1
    Quota = 3
    Direct = {c1}
    Opaque = {}
    First = {c1}
    MaxContents = 2
    Rounds = 2
    MaxPictures = 3
    Faults = {"crash", "storage", "overrun"}
    MaxFaults = 1
INVARIANTS VerdictsEarned DerivedSound
PROPERTIES FileServed
CHECK_DEADLOCK FALSE
