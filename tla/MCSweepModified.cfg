SPECIFICATION Spec
CONSTANTS
    Models = {m1}
    Queries = {q1}
    Evals = {e1, e2}
    AnyEval = AnyEval
    Agent = FALSE
    ReportsUsage = TRUE
    MaxContent = 3
    Frontmatter <- MCFrontmatter
    MaxSpec = 2
    MaxSweeps = 2
    MaxEdits = 1
    Commands <- MCCommands
INVARIANTS ModifiedFindsChanged
CHECK_DEADLOCK FALSE
