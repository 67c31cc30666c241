SPECIFICATION FairUSpec

CONSTANT MaxOps = 4

INVARIANTS
    
    CompensationRestores
    
    SkillStays
PROPERTIES
    CommittedKept
    UpdateResolves
