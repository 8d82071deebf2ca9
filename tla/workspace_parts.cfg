\* Access: two people, two invitations, one link, two requests at a time.
\* Archives: two documents of one name, one slot, a member and a link's visitor.
\* Events: two categories, pages of two rows, five rows, three loads, two of them at a time.
\* Upkeep: two instances, three connections, a limit of one request in two ticks.
\* Panels: two rows, two clicks at a time, three in all, one change of a row and one by others.
SPECIFICATION PartsSpec
CONSTANTS
    l1 = l1  l2 = l2
    Users = {o, a}
    Creator = o
    Invites = {i1, i2}
    Links = {l1}
    KindOf <- Kinds
    Handlers = {h1, h2}
    Free = Free
    Docs = {d1, d2}
    base = base
    Names <- Alike
    Requests = {r1, r2}
    LinkRequests = {r2}
    Capacity = 1
    MaxFiles = 2
    MaxVersions = 2
    MaxChanges = 2
    Categories = {i1, i2}
    All = All  None = None
    PageLimit = 2
    MaxKey = 5
    MaxRequests = 3
    Fetches = {h1, h2}
    Instances = {h1, h2}
    Connections = {k1, k2, k3}
    Steps = 3
    Sweep = 2
    Limit = 1
    Window = 2
    MaxTime = 4
    MaxCalls = 3
    MaxPasses = 3
    MaxFaults = 1
    Panels = {"share", "folder", "request", "webhook", "token", "members", "versions", "comments"}
    PanelRows = {i1, i2}
    Clicks = {h1, h2}
    MaxEdits = 1
    MaxClicks = 3
    MaxElsewhere = 1
    MaxErrors = 0
SYMMETRY PartsSymmetry
INVARIANTS AlwaysAnOwner SlotsExact ZipSound HistoryRead PassesSound PanelsSound
PROPERTIES AccessSteps
CHECK_DEADLOCK FALSE
