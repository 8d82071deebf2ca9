\* Two rows, two workers that only crash, up to two times; a fair clock.
SPECIFICATION TimelySpec
CONSTANTS
    j1 = j1  j2 = j2  j3 = j3
    w1 = w1  w2 = w2
    email = email  slot = slot
    NoKey = NoKey  NoJob = NoJob
    Jobs = {j1, j2}
    Workers = {w1, w2}
    Keys = {email, slot}
    OnceKeys = {slot}
    MaxAttempts = 2
    Faults = {"crash"}
    MaxFaults = 2
INVARIANTS ReservationExclusive AttemptsBounded
PROPERTIES ImplementsLedger
