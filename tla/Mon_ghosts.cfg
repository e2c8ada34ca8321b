SPECIFICATION GSpec
CONSTANTS
    Students = {1}
    Subjects = {maths}
    Parents = {mother}
    Cells <- OneCell
    Garbage = garbage
    NoStudent = nobody
    Unreachable = {}
    Ttl = 3
    SweepLimit = 1
    MaxEdits = 3
    MaxFaults = 0
    MaxEvents = 3
CHECK_DEADLOCK FALSE
PROPERTIES GhostsAreForgotten
