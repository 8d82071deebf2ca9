\* Two requests and the maintenance run on two uploads, one fault of any kind.
SPECIFICATION Spec
CONSTANTS
    u1 = u1  u2 = u2  r1 = r1  r2 = r2
    Janitor = Janitor
    Uploads = {u1, u2}
    Requests = {r1, r2}
    SizeOf <- Sizes
    Quota = 4
    Faults = {"crash", "storage", "database"}
    MaxFaults = 1
INVARIANTS ReservationsExact EndedHoldsNothing
PROPERTIES ReservationReturns
CHECK_DEADLOCK FALSE
