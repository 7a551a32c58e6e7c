\* One parser and no traffic: the signal alone.
SPECIFICATION FairSpec
CONSTANTS
    Parser = {p1}
    MaxMsg = 0
    MaxPkt = 0
    MsgLimit = 1
    PktLimit = 1
PROPERTY SignalEndsProcess
CHECK_DEADLOCK FALSE
