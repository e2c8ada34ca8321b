SPECIFICATION Spec
CHECK_DEADLOCK FALSE
CONSTANTS
    Families = {smith}
    Parents = {mother, father}
    Students = {ann, ben}
    Invites = {inv}
    Workers = {w1, w2}
    Nobody = nobody
    NoChild = nochild
    NoInvite = noinvite
    MaxChildren = 1
    MaxAdds = 1
    MaxFaults = 1
    MaxEvents = 1
SYMMETRY Symmetry
INVARIANTS TypeOK HeadIsMember MembersSeeChildren RemovedMeansGone OneGuestPerInvite ChildrenWithinLimit
