SPECIFICATION RecordsSpec
CHECK_DEADLOCK FALSE
CONSTANTS
    old = old
    new = new
    Sheets = {old, new}
    SheetYear <- TwoYears
    FirstDay <- September
    LastDay <- November
    MaxRelinks = 1
    MaxFaults = 1
    Cells = {m1, m2}
    Values = {four, five}
    Blank = blank
    Adults = {mum}
    MaxEdits = 2
    MaxImports = 1
    MaxLosses = 1
    Todays = {k1, k2}
    Earlier = {k3}
    Aged = {k3}
    p1 = p1
    f1 = f1
    Profiles = {p1, p2}
    Faces = {f1, f2}
    ServerIsUtc = TRUE
    QuarterCells = {q1, q2}
    Nothing = nothing
    MaxStamps = 2
    MaxUnits = 6
    Subjects = {algebra, physics}
    Points = {3, 5}
    Text = text
    None = none
    MinSample = 2
    GrowthSample = 3
    ListLimit = 1
    MaxRecords = 4
    autumn = autumn
    winter = winter
    Grades = {autumn, winter}
    Given <- TwoDates
    Importers = {i1, i2}
    ArchiveAfter = 1
    LastDate = 3
INVARIANTS RecordsTypeOK LastYearStaysQuiet HistoryDatesAreTrue EachGradeOnce
    QuartersAreKnown NotModifiedIsTrue ScreensAgree
PROPERTIES WrongYearHeals
