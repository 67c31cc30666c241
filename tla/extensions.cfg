SPECIFICATION FairSpec
CONSTANTS
    MaxVersion = 2
    MaxTx = 3
    MaxFailures = 2
INVARIANTS
    RegistryKept
    LoadedIsActive
PROPERTIES
    NothingUnverifiedRuns
    RecoveryEnds
