SPECIFICATION Spec

CONSTANTS
    Built <- MCBuilt
    Analyses <- MCAnalyses
    Edits <- MCEdits
    MaxUpdates = 3
    MaxEdits = 3

INVARIANTS
    EditsKept
    RepeatChangesNothing
PROPERTY
    UnitsKept

CHECK_DEADLOCK FALSE
