SPECIFICATION HSpec
CONSTANTS
    Students = {1}
    Subjects = {maths}
    Parents = {mother, father}
    Cells <- OneCell
    Garbage = garbage
    NoStudent = nobody
    Unreachable = {father}
    Ttl = 2
    SweepLimit = 1
    MaxEdits = 1
    MaxFaults = 0
    MaxEvents = 1
INVARIANTS SweptOnce
