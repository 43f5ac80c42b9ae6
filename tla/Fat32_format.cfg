SPECIFICATION FairSpec
CONSTANTS
  d1 = d1  d2 = d2  d3 = d3  twin = twin  other = other
  RegularFile = RegularFile  Missing = Missing
  PartitionStart = 2048  MinSectors = 131072  MaxSectors = 2147480000
  MinClusters = 65525  MaxClusters = 268435445
  Devices <- MCDevices  Ident <- MCIdent  Size <- MCSize  FileSizes <- MCFileSizes
  SystemDisks <- SystemDisk  ReadOnlyDisks <- NoDisks
  Options <- AllOptions
  Posix = TRUE  Chunk = 2048
  Foreign = Foreign  ZeroSector = ZeroSector  EarlierVolume <- Earlier
  MaxSwaps = 1  MaxMounts = 1  MaxRuns = 2
INVARIANTS RegionsFit SuccessIsDurable AcceptedIsOneVolume CompleteIsRead OnlyConfirmedDrivesFormatted
PROPERTIES Terminates
CHECK_DEADLOCK FALSE
