\* Two writers, three events, a webhook that is switched off after two failures.
SPECIFICATION Spec
CONSTANTS
    w1 = w1  w2 = w2  Free = Free
    Writers = {w1, w2}
    MaxEvents = 3
    PageSize = 2
    MaxAttempts = 2
    DisableAfter = 2
    MaxSwitches = 1
INVARIANTS ChainSound DeliveriesMatchEvents
PROPERTIES EndsForAReason 
CHECK_DEADLOCK FALSE
