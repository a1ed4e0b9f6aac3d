SPECIFICATION FairSpec
CONSTANTS
    MaxLines = 3
    Modes <- MCModes
INVARIANTS TimedOutCountsAsNoTrigger
