SPECIFICATION FairSpec
CONSTANTS
    HDR = 1
    BUF = 4
    Size <- MCSize
    Garbage = {}
    MaxSwitches = 2
    Cables <- Apart
    Talk <- Quiet
    MaxTalk <- Nobody
    Leavers = {}
    Interrupts = FALSE
    Replies <- MCReplies
    Hello <- MCOldHello
    SndBuf = 2
CHECK_DEADLOCK FALSE
PROPERTIES OldHelloHarmless
