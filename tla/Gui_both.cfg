SPECIFICATION Spec
CONSTANTS
  a = a  b = b  c = c  Missing = Missing
  Disks <- AllDisks  Numbers = 2  Ident <- MCIdent
  SystemDisks <- SystemDisk  ReadOnlyDisks <- NoDisks  MountedDisks <- NoDisks
  SmallDisks <- NoDisks  UsbDisks <- Sticks
  InitialDisks <- BothSticks  MaxPlugs = 0  MaxLost = 0  MaxClicks = 5
INVARIANTS OneDestructiveWorker
CHECK_DEADLOCK FALSE
