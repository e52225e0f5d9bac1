SPECIFICATION FairSpec
CONSTANTS
    HDR = 1
    BUF = 4
    Size <- MCSize
    Garbage = {}
    MaxSwitches = 2
    Cables <- Pair
    Talk <- EchoOrStray
    MaxTalk <- Second
    Leavers = {1}
    Interrupts = TRUE
    Replies <- MCReplies
    Hello <- MCHello
    SndBuf = 1
CHECK_DEADLOCK FALSE
INVARIANTS TypeOK GraphIsNetwork SearchStays NoFalseAlarm
PROPERTIES EverySlotASession LinksFound OthersServed InterruptObeyed
