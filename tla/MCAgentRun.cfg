SPECIFICATION FairSpec
CONSTANTS
    MaxLines = 3
    Modes <- MCModes
INVARIANTS TypeOK HitMeansActivation ActivationCounted
PROPERTIES ImplementsAgentCall Terminates
