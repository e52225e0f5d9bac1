SPECIFICATION Spec
CONSTANTS
    MaxDevices = 5
    MaxLinks = 5
    Cables <- TrunksAndPatches
CHECK_DEADLOCK FALSE
INVARIANTS TypeOK GraphExact AlarmMeansLoop RingFound
