SPECIFICATION Spec
CONSTANTS
    Models = {m1}
    Queries = {q1, q2}
    Evals = {e1}
    AnyEval = AnyEval
    Agent = FALSE
    ReportsUsage = TRUE
    MaxContent = 3
    Frontmatter <- MCFrontmatter
    MaxSpec = 2
    MaxSweeps = 2
    MaxEdits = 2
    Commands <- MCCommands
INVARIANTS TypeOK FreshMeansCurrent NewSettles
PROPERTIES UntouchedPreserved BaselineCached
CHECK_DEADLOCK FALSE
