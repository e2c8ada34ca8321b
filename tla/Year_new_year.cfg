SPECIFICATION Spec
CHECK_DEADLOCK FALSE
CONSTANTS
    old = old
    new = new
    Sheets = {old, new}
    SheetYear <- TwoYears
    FirstDay <- November
    LastDay <- January
    MaxRelinks = 0
    MaxFaults = 0
INVARIANT LastYearNeverAnnounced
