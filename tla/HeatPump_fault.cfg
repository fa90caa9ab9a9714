CONSTANTS
    NumBands = 2
    SystemBand = 1
    low = low
    high = high
    Rows = {low}
    OffRows = {}
    BandOf <- OneBandOf
    DynMin <- OneDynMin
    DynMax <- OneDynMax
    FixedMin <- OneMin
    FixedMax <- OneMax
    Kept <- OneKept
    FirstWords <- OneFirst
    Step = 1
    Callers = {c1}
    Limit = 0
    PanelWords = {}
    MaxPanel = 0
    MaxCalls = 1
    MaxDay = 0
    None = None
    Off = Off
    NoSensor = NoSensor
    Odd = Odd
    Free = Free
    Poller = Poller
SPECIFICATION Spec
INVARIANT UnchangedEndsQuietly
