SPECIFICATION Spec
CONSTANTS
    Items <- MCPaths
    NoItem = "none"
    KeyOf <- MCKeyOf
    HashOf <- MCHashOf
    Rank <- MCRank
    InitialBuckets = 2
    Threshold = 2
    Clients = {"c1", "c2"}
    NoClient = "nobody"
    Requests <- MCRequests
    MaxAsked = 1
INVARIANTS
    AnsweredOnce
    ReleasedOnce
    RoutesLive
PROPERTIES
    AllServed
\* The program ends.
CHECK_DEADLOCK FALSE
