\* Three folders nested at most two deep, a document, six requests, two at a time.
SPECIFICATION TreeSpec
CONSTANTS
    f1 = f1  f2 = f2  f3 = f3  d1 = d1  d2 = d2  h1 = h1  h2 = h2
    Root = Root  None = None
    Folders = {f1, f2, f3}
    Docs = {d1}
    Handlers = {h1, h2}
    MaxDepth = 2
    WalkGuard = 4
    MaxFiles = 1
    Attempts = 1
    MaxRequests = 6
SYMMETRY Symmetry
INVARIANTS TreeSound CountersExact
PROPERTIES ClosedTakesNothing
CHECK_DEADLOCK FALSE
