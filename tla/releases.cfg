SPECIFICATION Spec
CONSTANTS
  p1 = p1
  p2 = p2
  r1 = r1
  r2 = r2
  Procs = {p1, p2}
  Skills = {r1, r2}
  PackSkill = r1
  Hosts <- MCHosts
  Batches <- MCBatches
  Seed <- MCSeed
  MaxVersion = 3
  Starts <- MCStarts
  MaxCommands = 2
  MaxFaults = 2
  MaxCrashes = 1
SYMMETRY MCSymmetry
CHECK_DEADLOCK FALSE
INVARIANT PacksKept
INVARIANT BoundTogether
INVARIANT TreesSettled
INVARIANT InstalledVerified
