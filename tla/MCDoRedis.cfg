\* Everything may go wrong at any time.
SPECIFICATION FairSpec
CONSTANTS
    MaxCtx = 3
    MaxMsg = 3
    Faults = {"attach", "drop", "error"}
INVARIANTS
    OneLinkAtATime
    EachMessageOnce
PROPERTIES
    ChainGoesOn
\* The program ends.
CHECK_DEADLOCK FALSE
