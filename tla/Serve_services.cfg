SPECIFICATION ServicesSpec
CHECK_DEADLOCK FALSE
CONSTANTS
    Families = {smith}
    Workers = {w1, w2}
    Charges = {star}
    Stars = {star}
    Nobody = nobody
    MaxUses = 1
    Horizon = 1
    MaxGrants = 1
    MaxFaults = 2
    MaxCrashes = 1
    MaxEvents = 2
    Homes = {smiths}
    BotWorkers = {b1}
    WebWorkers = {v1}
    HistoryLimit = 2
    ToolLimit = 1
    MaxQuestions = 2
    MaxRetries = 1
    MaxMishaps = 1
    Callers = {c1, c2}
    RateMax = 2
    RateWindow = 3
    GcInterval = 4
    GcWindows = 2
    MaxDelay = 1
    MaxClock = 16
INVARIANTS ServicesTypeOK LedgerExplainsEnd PaidMonthsAreKept
    RefundedNotCredited ConversationIsSound WindowIsKept
PROPERTIES MoneyIsAccountedFor QuestionsEnd
