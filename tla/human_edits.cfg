SPECIFICATION Spec

CONSTANTS
    Built <- MCBuilt
    Analyses <- MCAnalyses
    Edits <- MCEdits
    MaxUpdates = 3
    MaxEdits = 2

INVARIANT
    HumanEditKept

CHECK_DEADLOCK FALSE
