SPECIFICATION FairSpec
CONSTANTS
    Subjects = {maths, physics}
    Parents = {mother}
    NoParent = nobody
    MaxTicks = 2
    MaxWrites = 2
    MaxErasures = 1
    MaxFaults = 1
    MaxEvents = 1
INVARIANTS TypeOK
PROPERTIES NightReachesParents PostedBeforeDeleted QueuesDrain KeepsDailyPromise
