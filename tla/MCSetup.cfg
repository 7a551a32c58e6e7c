SPECIFICATION FairSpec
CONSTANTS
    Item <- MCItem
    Template <- MCTemplate
    Given <- MCGiven
    MaxStart = 2
INVARIANTS
    ConfigRight
    RulesAreTheLines
    FailureIsClean
PROPERTIES
    StartEnds
\* A process that is down, after the last start, stays down.
CHECK_DEADLOCK FALSE
