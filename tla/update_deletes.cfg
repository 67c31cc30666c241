SPECIFICATION USpec

CONSTANT MaxOps = 4

INVARIANT BuiltSkillStays
