SPECIFICATION Spec
CONSTANTS
    HDR = 1
    BUF = 4
    Size <- MCSize
    Garbage = {}
    MaxSwitches = 3
    Cables <- Triangle
    Talk <- Quiet
    MaxTalk <- Nobody
    Leavers = {}
    Interrupts = FALSE
    Replies <- MCReplies
    Hello <- MCHello
    SndBuf = 2
CHECK_DEADLOCK FALSE
INVARIANTS DisabledIsCabled
