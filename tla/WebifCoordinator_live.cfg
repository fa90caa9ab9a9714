CONSTANTS
    heatPump = heatPump
    statistics = statistics
    heating = heating
    timer = timer
    hand = hand
    low = low
    high = high
    PageOrder <- TwoPages
    Heating = heating
    Interval <- TwoIntervals
    FirstRetry = 2
    LongestRetry = 3
    Debounce = 1
    Rounds = {timer}
    Targets = {low, high}
    Limit = 0
    MaxAsks = 1
    MaxVisits = 0
    MaxDay = 0
    MaxPanel = 0
    NoPage = NoPage
    Free = Free
SPECIFICATION FairSpec
PROPERTIES
    NothingIsForgotten
CHECK_DEADLOCK FALSE
