SPECIFICATION Spec
CONSTANTS
    ma = ma
    mb = mb
    mold = mold
    h1 = h1
    h2 = h2
    t1 = t1
    e1 = e1
    e2 = e2
    t2 = t2
    t0 = t0
    e0 = e0
    Catalog <- MCCatalog
    ModelOrder <- MCModelOrder
    ProviderOf <- MCProviderOf
    Builtins <- MCBuiltins
    HarnessOrder <- MCHarnessOrder
    Supports <- MCSupports
    Preferred <- MCPreferred
    Installed = {h1, h2}
    Offered <- MCOffered
    EvalRunners = {h1}
    AnyEval = AnyEval
    AllModels = AllModels
    MinRate <- MCMinRate
    ThresholdModels = {}
    Retired = {mold}
    VersionOf <- MCVersionOf
    GatedLevels = {"stable", "unstable", "prerelease"}
    StrictConfig = FALSE
    PageStep = 3
    Jobs = 2
    Starts <- MCStarts
INVARIANTS
    TypeOK
    RunsWhatWasShown
    LiveRowsExact
    VerdictsAgree
PROPERTIES
    SelectionFollows
    Returns
CHECK_DEADLOCK FALSE
