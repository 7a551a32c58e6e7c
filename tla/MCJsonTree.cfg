SPECIFICATION Spec
CONSTANTS
    N = 5
    Lower <- MCLower
    MaxDepth = 1
    Callers <- MCCallers
INVARIANTS
    ListsClosed
    EverythingOwned
    CompareIsEquality
PROPERTIES
    CallsMean
\* A caller makes so many calls.
CHECK_DEADLOCK FALSE
