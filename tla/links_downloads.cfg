\* Two visitors and a manager, limits of one download or none; two networks,
\* two writers, a threshold of two viewers.
SPECIFICATION ViewersSafety
CONSTANTS
    v1 = v1  v2 = v2  m1 = m1  n1 = n1  n2 = n2  w1 = w1  w2 = w2
    Visitors = {v1, v2}
    Managers = {m1}
    Limits = {0, 1}
    MaxCount = 2
    Networks = {n1, n2}
    Writers = {w1, w2}
    Threshold = 2
    MaxViews = 2
    MaxWindows = 1
SYMMETRY Symmetry
INVARIANTS LimitKept HistoryExact
PROPERTIES TrashEndsLinks
CHECK_DEADLOCK FALSE
