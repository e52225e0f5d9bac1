SPECIFICATION Spec
CONSTANTS
    HDR = 1
    BUF = 4
    Size <- MCSize
    Garbage = {}
    MaxSwitches = 3
    Cables <- Triangle
    Talk <- Echo
    MaxTalk <- First
    Leavers = {}
    Interrupts = FALSE
    Replies <- MCReplies
    Hello <- MCHello
    SndBuf = 1
CHECK_DEADLOCK FALSE
INVARIANTS LiveBuffersKept
