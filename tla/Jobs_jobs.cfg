SPECIFICATION JobsSpec
CHECK_DEADLOCK FALSE
CONSTANTS
    Recipients = {mother, father}
    Children = {ann}
    NoUnit = nounit
    WarnDays = {1, 2}
    AlertCooldown = 2
    AiThreshold = 2
    JobTicks = 2
    MaxDay = 3
    MaxTroubles = 1
INVARIANTS JobsTypeOK DoneMeansEverybody WarnedBeforeTheEnd OutagesAreReported
PROPERTIES WindowsAreServed KeepsDailyPromise
