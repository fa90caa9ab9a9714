CONSTANTS
    heatPump = heatPump
    statistics = statistics
    heating = heating
    timer = timer
    hand = hand
    low = low
    high = high
    PageOrder <- OnePage
    Heating = heating
    Interval <- OneInterval
    FirstRetry = 1
    LongestRetry = 1
    Debounce = 1
    Rounds = {timer}
    Targets = {low, high}
    Limit = 1
    MaxAsks = 2
    MaxVisits = 0
    MaxDay = 1
    MaxPanel = 1
    NoPage = NoPage
    Free = Free
SPECIFICATION Spec
INVARIANTS
    DailyLimitHolds
PROPERTIES
    QuietIsKept
    BurstsKeepTheirWord
CHECK_DEADLOCK FALSE
