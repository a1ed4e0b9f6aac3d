SPECIFICATION Spec
CONSTANTS
    Declared = {"pick"}
    Bodies <- MCBodies
    Scripts <- MCScripts
    MaxRuns = 2
    Timed = TRUE
INVARIANTS TypeOK ErrorSurfaces CompletedMeansAnswered AnsweredIsCarried
PROPERTIES TranscriptExact ImplementsDialogue Terminates
