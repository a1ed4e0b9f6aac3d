SPECIFICATION FairSpec
CONSTANTS
    NEvals = 3
    Jobs = 2
    Stale <- MCStale
    Judged <- MCJudged
INVARIANTS NoVerdictFromInterrupt
