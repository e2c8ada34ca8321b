SPECIFICATION HFairSpec
CONSTANTS
    Students = {1}
    Subjects = {maths, physics}
    Parents = {mother, father}
    Cells <- ShortCells
    Garbage = garbage
    NoStudent = nobody
    Unreachable = {}
    Ttl = 2
    SweepLimit = 1
    MaxEdits = 3
    MaxFaults = 2
    MaxEvents = 4
INVARIANTS TypeOK SettledMeansTold RepeatsNeedAFailure
PROPERTIES WrittenOnSecondSighting KeepsPromise OutboxDrains EventuallyMirrorsTheDiary
