\* The rules' inputs, a visit that ended and a household at rest stop.
CONSTANTS
    Pumps = {p1, p2, p3}
    Webs = {w1, w2}
    Flows = {f1, f2}
    Hosts = {"h1", "h2"}
    Postfixes = {"", "x"}
    Own = Own
    None = None
    MaxReloads = 1
    MaxHiccups = 4
SPECIFICATION Spec
INVARIANTS
    TypeOK
    EntriesStayApart
    WebFollowsItsPump
    VisitTellsTheFamily
    GivesUpInProportion
    TableHoldsTogether
    CalculatedValuesAreHonest
    MigrationLosesNothing
PROPERTIES
    OnlyTheUserTakesAway
SYMMETRY EntrySymmetry
CHECK_DEADLOCK FALSE
