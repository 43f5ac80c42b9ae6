SPECIFICATION ChainFairSpec
CONSTANTS
  x = x  y = y
  Missing = Missing  None = None
  Bytes <- MCBytes  Images <- MCImages  Targets <- MCTargets
  ChunkSize = 2  Sizes = {1, 3, 4}
  MaxEdits = 1  MaxDamage = 1  MaxRuns = 2
INVARIANTS TypeOK ProvenMeansEqual LoadedIsGenuine MismatchIsExact SealedIsProven
PROPERTIES ChainTerminates
CHECK_DEADLOCK FALSE
