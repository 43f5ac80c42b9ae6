SPECIFICATION Spec
CONSTANTS
  x = x  y = y  z = z  old = old  junk = junk
  d1 = d1  d2 = d2  d3 = d3  twin = twin  other = other
  RegularFile = RegularFile  Missing = Missing
  Bytes <- MCBytes  Zero = z  Junk = junk
  Images <- ThreeImages
  Devices <- MCDevices  Ident <- MCIdent
  SystemDisks <- SystemDisk  ReadOnlyDisks <- NoDisks
  InitialMedia <- DriveMedia
  Options <- DriveOptions
  DevicePath = TRUE  Posix = TRUE
  Sector = 2  Buffer = 2  SampleBlock = 1  Samples = 1  WriteRetries = 2
  MaxSourceEdits = 1  MaxSwaps = 1  MaxRot = 1  MaxMounts = 1
SYMMETRY Twins
INVARIANTS IInv SuccessIsOnMedia SuccessIsAnImage FullReadbackCatchesRot OnlyConfirmedDrivesTouched
PROPERTIES DrivesChangeUnderTheImage
CHECK_DEADLOCK FALSE
