SPECIFICATION Spec
CHECK_DEADLOCK FALSE
CONSTANTS
    Families = {smith}
    Parents = {mother}
    Students = {ann}
    Invites = {inv}
    Workers = {w1}
    Nobody = nobody
    NoChild = nochild
    NoInvite = noinvite
    MaxChildren = 1
    MaxAdds = 0
    MaxFaults = 0
    MaxEvents = 0
INVARIANTS DeletionsSucceed
