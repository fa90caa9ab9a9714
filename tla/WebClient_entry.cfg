CONSTANTS
    entry = entry
    dialog = dialog
    Clients = {entry}
    Dialogs = {}
    Gap = 1
    Life = 2
    MaxSaves = 1
    Modbus = Modbus
    Free = Free
SPECIFICATION FairSpec
INVARIANTS
    TypeOK
    SavesAreCountedOnce
PROPERTIES
    RefusedPasswordNotResent
    OutcomesAreHonest
    EveryCallEnds
