SPECIFICATION ChainSpec
CONSTANTS
  x = x  y = y
  Missing = Missing  None = None
  Bytes <- MCBytes  Images <- MCImages  Targets <- MCTargets
  ChunkSize = 2  Sizes = {1, 3, 4}
  MaxEdits = 1  MaxDamage = 0  MaxRuns = 1
INVARIANTS ProvenIsTheSealedImage
CHECK_DEADLOCK FALSE
