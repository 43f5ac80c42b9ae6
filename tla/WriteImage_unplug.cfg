SPECIFICATION Spec
CONSTANTS
  x = x  y = y  z = z  old = old  junk = junk
  d1 = d1  d2 = d2  d3 = d3  twin = twin  other = other
  RegularFile = RegularFile  Missing = Missing
  Bytes <- MCBytes  Zero = z  Junk = junk
  Images <- OneImage
  Devices <- MCDevices  Ident <- MCIdent
  SystemDisks <- NoDisks  ReadOnlyDisks <- NoDisks
  InitialMedia <- DriveMedia
  Options <- FullOptions
  DevicePath = TRUE  Posix = FALSE
  Sector = 2  Buffer = 2  SampleBlock = 1  Samples = 1  WriteRetries = 2
  MaxSourceEdits = 0  MaxSwaps = 1  MaxRot = 0  MaxMounts = 0
INVARIANTS FailedBeforeWriteIsUntouched
CHECK_DEADLOCK FALSE
