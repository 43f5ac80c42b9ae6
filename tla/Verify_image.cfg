SPECIFICATION VerifyFairSpec
CONSTANTS
  x = x  y = y  z = z  old = old  junk = junk
  d1 = d1  d2 = d2  d3 = d3  twin = twin  other = other
  RegularFile = RegularFile  Missing = Missing
  Bytes <- MCBytes  Zero = z  Junk = junk
  Images <- TwoImages
  Devices <- NoDisks  Ident <- MCIdent
  SystemDisks <- NoDisks  ReadOnlyDisks <- NoDisks
  InitialMedia <- FileMedia
  Options <- FileOptions
  DevicePath = FALSE  Posix = TRUE
  Sector = 2  Buffer = 2  SampleBlock = 1  Samples = 1  WriteRetries = 2
  MaxSourceEdits = 1  MaxSwaps = 0  MaxRot = 1  MaxMounts = 0  MaxRuns = 3
INVARIANTS VerifiedIsOnMedia VerifyAgreesWithWrite
PROPERTIES EvidenceNeverRetreats Terminates
CHECK_DEADLOCK FALSE
