SPECIFICATION FairSpec
CONSTANTS
  a = a  b = b  c = c  twin = twin
  raw = raw  mbr = mbr  gpt = gpt
  Missing = Missing  Raw = raw  Unknown = unknown  unknown = unknown
  Disks <- MCDisks  Ident <- MCIdent
  UsbDisks <- MCDisks  SystemDisk = c  ReadOnlyDisks <- NoDisks  ProgramDisk = b
  Layouts <- MCLayouts  Summary <- MCSummary  InitialLayouts <- MCInitial
  MaxLetter = 3  WindowsLetter = 1  Opaque <- LastLetter
  Confirmation <- MCConfirmation  LockTries = 2  Attempts = 2
  MaxSwaps = 1  MaxMounts = 1  MaxRepartitions = 1
INVARIANTS TypeOK OnlyConfirmedDisksCleaned VolumesAreReleased SuccessIsRaw
PROPERTIES DeletesUnderLocks DeletesThePlannedLayout Terminates
CHECK_DEADLOCK FALSE
