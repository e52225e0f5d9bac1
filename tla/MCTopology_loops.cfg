SPECIFICATION Spec
CONSTANTS
    MaxDevices = 4
    MaxLinks = 4
    Cables <- Trunks
CHECK_DEADLOCK FALSE
INVARIANTS AllLoopsFound
