CONSTANTS
    entry = entry
    dialog = dialog
    Clients = {entry, dialog}
    Dialogs = {dialog}
    Gap = 1
    Life = 2
    MaxSaves = 0
    Modbus = Modbus
    Free = Free
SPECIFICATION Spec
INVARIANT CloseFreesTheSession
PROPERTIES
    GapIsKept
    ClosedIsQuiet
