SPECIFICATION ClockSpec
CONSTANTS
    Instants <- MCInstants
    Timeouts <- MCTimeouts
INVARIANTS
    DeadlineExact
    EarlyOnlyAtFullSecond
\* The clock stops at the last instant.
CHECK_DEADLOCK FALSE
