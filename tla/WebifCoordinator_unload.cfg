CONSTANTS
    heatPump = heatPump
    statistics = statistics
    heating = heating
    timer = timer
    hand = hand
    low = low
    high = high
    PageOrder <- OnePage
    Heating = heating
    Interval <- OneInterval
    FirstRetry = 2
    LongestRetry = 3
    Debounce = 1
    Rounds = {timer}
    Targets = {low, high}
    Limit = 0
    MaxAsks = 1
    MaxVisits = 0
    MaxDay = 0
    MaxPanel = 0
    NoPage = NoPage
    Free = Free
SPECIFICATION Spec
INVARIANTS
    NoNoticeOfAnUnloadedEntry
CHECK_DEADLOCK FALSE
