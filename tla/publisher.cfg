SPECIFICATION FairSpec

CONSTANT MaxOps = 3

INVARIANTS
    TypeOK
    RenameTargetAbsent
    PublishedVisible
    FailureRestores
    RollbackReversible
    ReleasedKept
    NeverLeftEmpty
    PointerAgrees
    
PROPERTIES
    ImplementsReleaseSlot
    ServiceResumes
