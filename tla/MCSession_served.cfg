SPECIFICATION FairSpec
CONSTANTS
    HDR = 2
    BUF = 8
    Size <- MCSize
    Garbage = {}
    SwitchFd = 1
    SwitchMsg <- AllTalk
    Replies <- MCReplies
    Hello <- MCHello
    MaxSaid = 2
CHECK_DEADLOCK FALSE
INVARIANTS TypeOK OutboundFraming InboundFraming ExpectationExact NoOverflow SetupInOrder EchoesInOrder
PROPERTIES SetupCompletes EchoAnswered ImplementsFairServer
