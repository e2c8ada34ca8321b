SPECIFICATION Spec
CONSTANTS
    Subjects = {maths, physics}
    Parents = {mother}
    NoParent = nobody
    MaxTicks = 2
    MaxWrites = 2
    MaxErasures = 0
    MaxFaults = 0
    MaxEvents = 0
PROPERTIES QueuedReachesParents
