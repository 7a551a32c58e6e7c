\* Every call may fail, a thread may fault anywhere outside the logger, and
\* the process may be killed anywhere and started again.
SPECIFICATION FairSpec
CONSTANTS
    Thread = {t1, t2}
    Flusher = {t1}
    Nobody = Nobody
    LineLen = 2
    MaxFileSize = 2
    MaxBackup = 2
    MaxLines = 4
    MaxRestarts = 1
    MayFail = {"open", "remove", "rename"}
INVARIANTS
    OneLog
    LimitsKept
PROPERTIES
    FaultEndsProcess
\* The process ends, or hangs in its handler.
CHECK_DEADLOCK FALSE
