SPECIFICATION AttestedFairSpec
CONSTANTS
  x = x  y = y  z = z  old = old  junk = junk
  d1 = d1  d2 = d2  d3 = d3  twin = twin  other = other
  RegularFile = RegularFile  Missing = Missing
  Bytes <- MCBytes  Zero = z  Junk = junk
  Images <- MCImages
  Devices <- MCDevices  Ident <- MCIdent
  SystemDisks <- NoDisks  ReadOnlyDisks <- NoDisks
  InitialMedia <- SmallDriveMedia
  Options <- ModeOptions
  DevicePath = TRUE  Posix = TRUE
  Sector = 2  Buffer = 2  SampleBlock = 1  Samples = 1  WriteRetries = 2
  MaxSourceEdits = 2  MaxSwaps = 2  MaxRot = 0  MaxMounts = 0
INVARIANTS SuccessIsSealed NothingWithoutSeal SealedDriveTouched
PROPERTIES ImplementsContract AttestedTerminates
CONSTANT NoPlan = NoPlan
CHECK_DEADLOCK FALSE
