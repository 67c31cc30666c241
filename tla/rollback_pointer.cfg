SPECIFICATION Spec

CONSTANT MaxOps = 3

INVARIANT CompletedNeverLost
