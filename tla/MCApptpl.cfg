\* Signals at any time, every failure of the start-up.  No symmetry: it is not
\* sound for liveness.
SPECIFICATION FairSpec
CONSTANTS
    Parser = {p1, p2}
    MaxMsg = 1
    MaxPkt = 2
    MsgLimit = 1
    PktLimit = 2
INVARIANTS
    ReleasesInOrder
    MessagesAccounted
PROPERTIES
    SentWhileHeard
    ShutdownCompletes
    PacketsGetParsed
\* The process ends.
CHECK_DEADLOCK FALSE
