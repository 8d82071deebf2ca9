\* A job and a request that tell one person, two passes, one browser tab.
SPECIFICATION InboxSafety
CONSTANTS
    e1 = e1  e2 = e2  k1 = k1  k2 = k2
    Events = {e1, e2}
    Durable = {e1}
    Essential = {e2}
    MaxTries = 2
    Passes = {k1, k2}
    MaxLoads = 2
SYMMETRY Symmetry
INVARIANTS DigestExact BellSound
CHECK_DEADLOCK FALSE
