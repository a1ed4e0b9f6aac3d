SPECIFICATION FairSpec
CONSTANTS
    NQueries = 2
    Runs = 2
    Jobs = 3
    ShouldTrigger <- MCShouldTrigger
INVARIANTS TypeOK TallyExact VerdictFromAllRuns ReturnSound
PROPERTIES ImplementsUnitRun Terminates
