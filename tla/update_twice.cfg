SPECIFICATION USpec

CONSTANT MaxOps = 4

INVARIANT PublicationWithdrawn
