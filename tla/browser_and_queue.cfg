\* Queue: three rows, two workers, one fault of any kind.
\* Page: a document that is there and one that is uploaded later, pages of one row.
\* Uploads: a file of two parts, two workers, two runs, one failure.
SPECIFICATION PartsSpec
CONSTANTS
    j1 = j1  j2 = j2  j3 = j3
    w1 = w1  w2 = w2
    email = email  slot = slot
    NoKey = NoKey  NoJob = NoJob
    Jobs = {j1, j2, j3}
    Workers = {w1, w2}
    Keys = {email, slot}
    OnceKeys = {slot}
    MaxAttempts = 2
    Faults = {"crash", "overrun", "lostAck"}
    MaxFaults = 1
    d1 = d1  d2 = d2
    r1 = r1  r2 = r2
    None = None
    Docs = {d1, d2}
    CreatedAt <- OlderFirst
    Later = {d2}
    Scanned = {d2}
    Mine = {d2}
    Owner = TRUE
    PageSize = 1
    MaxRequests = 2
    MaxHandlers = 1
    MaxDeletions = 2
    MaxTroubles = 1
    Parts = {1, 2}
    SignBatch = 2
    PartAttempts = 2
    Runs = {r1, r2}
    MaxFailures = 1
SYMMETRY WorkerSymmetry
INVARIANTS DedupeUnique SlotScheduledOnce PageSound UploaderSound
CHECK_DEADLOCK FALSE
