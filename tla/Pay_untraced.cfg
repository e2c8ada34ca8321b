SPECIFICATION Spec
CHECK_DEADLOCK FALSE
CONSTANTS
    Families = {smith}
    Workers = {w1, w2}
    Charges = {star}
    Stars = {star}
    Nobody = nobody
    MaxUses = 1
    Horizon = 1
    MaxGrants = 0
    MaxFaults = 1
    MaxCrashes = 0
    MaxEvents = 1
INVARIANTS FailuresLeaveATrace
