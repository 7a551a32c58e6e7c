\* No symmetry: it is not sound for liveness.
SPECIFICATION FairSpec
CONSTANTS
    Reader = {r1, r2}
    MaxSend = 5
    Spurious = TRUE
INVARIANTS
    TypeOK
    RingHoldsBacklog
    NoLostWakeup
PROPERTIES
    ImplementsFifo
    ReadersServed
\* After an abort, or with the sends spent and every reader in cchan_wait,
\* nothing is left to do.
CHECK_DEADLOCK FALSE
