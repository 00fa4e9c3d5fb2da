\* The collector and a logo thread share a budget of two requests by five ticks.
SPECIFICATION Spec
CONSTANTS
    Collector = collector
    Logos = {logo}
    MinDelay = 1
    MaxDelay = 2
    Window = 5
    Budget = 2
    BrowserBudget = 1
    Cooldown = 1
    MaxPause = 2
    RetryAfters = {0, 2}
    MaxTime = 7
INVARIANTS
    TypeOK
    BudgetsKept
PROPERTIES
    PausesKept
    RequestsAreSpaced
    StreakCountsServedPauses
