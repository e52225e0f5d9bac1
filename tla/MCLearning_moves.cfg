SPECIFICATION FairSpec
CONSTANTS
    a = a
    b = b
    Broadcast = Broadcast
    Host <- MCHost
    Port <- MCPort
    MaxMoves = 3
    MaxWaiting = 3
INVARIANTS TypeOK NeverRefused WayBack
PROPERTIES Converges Reached
CHECK_DEADLOCK FALSE
