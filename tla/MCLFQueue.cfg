\* No symmetry: it is not sound for liveness.
SPECIFICATION FairSpec
CONSTANTS
    Producer = {t1, t2}
    Consumer = {t1, t2}
    MaxEnq = 2
    Grace = 1
    Delay = 1
    MaxTick = 2
INVARIANTS
    NodesAndSize
PROPERTIES
    ImplementsFifo
    CallsReturn
\* The process may stop on freed memory, and ends with lfqueue_destroy.
CHECK_DEADLOCK FALSE
