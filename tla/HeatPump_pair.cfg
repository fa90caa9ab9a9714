CONSTANTS
    NumBands = 3
    SystemBand = 1
    low = low
    high = high
    Rows = {low, high}
    OffRows = {}
    BandOf <- OneBandOf
    DynMin <- PairDynMin
    DynMax <- PairDynMax
    FixedMin <- PairMin
    FixedMax <- PairMax
    Kept <- PairKept
    FirstWords <- PairFirst
    Step = 2
    Callers = {c1, c2}
    Limit = 1
    PanelWords = {}
    MaxPanel = 0
    MaxCalls = 2
    MaxDay = 1
    None = None
    Off = Off
    NoSensor = NoSensor
    Odd = Odd
    Free = Free
    Poller = Poller
SPECIFICATION Spec
INVARIANTS
    PairsStayInOrder
    DailyLimitHolds
SYMMETRY CallerSymmetry
