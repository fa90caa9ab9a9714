CONSTANTS
    NumBands = 3
    SystemBand = 1
    low = low
    high = high
    Rows = {low}
    OffRows = {low}
    BandOf <- OneBandOf
    DynMin <- OneDynMin
    DynMax <- OneDynMax
    FixedMin <- OneMin
    FixedMax <- OneMax
    Kept <- OneKept
    FirstWords <- OneFirst
    Step = 1
    Callers = {c1, c2}
    Limit = 0
    PanelWords = {1, NoSensor, Odd}
    MaxPanel = 1
    MaxCalls = 2
    MaxDay = 0
    None = None
    Off = Off
    NoSensor = NoSensor
    Odd = Odd
    Free = Free
    Poller = Poller
SPECIFICATION Spec
INVARIANTS
    TypeOK
    EveryArrivalIsCounted
PROPERTIES
    RowsNeverRegress
    OnlyAWholePollPublishes
    SuccessMeansHeld
    SwitchOnRestoresTheNewest
SYMMETRY CallerSymmetry
