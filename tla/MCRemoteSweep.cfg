SPECIFICATION Spec
CONSTANTS
    Extensions <- MCExtensions
    Models <- MCModels
    NoModels <- MCNoModels
    Units <- MCUnits
    Cases <- MCCases
    Plans <- MCPlans
    Firsts <- MCFirsts
    Formats = {"json", "jsonc", "yaml"}
    Outcomes <- MCOutcomes
    Large <- MCLarge
    MaxSweeps = 3
INVARIANTS TypeOK ReturnExact InterruptCancels ReportedIsDurable
PROPERTIES LandingPreserves Returns
