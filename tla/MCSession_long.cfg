SPECIFICATION Spec
CONSTANTS
    HDR = 2
    BUF = 8
    Size <- MCSize
    Garbage = {}
    SwitchFd = 1
    SwitchMsg <- LongTalk
    Replies <- MCReplies
    Hello <- MCHello
    MaxSaid = 1
CHECK_DEADLOCK FALSE
INVARIANTS NoOverflow
