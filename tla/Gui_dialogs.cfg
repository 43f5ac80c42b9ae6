SPECIFICATION FairSpec
CONSTANTS
  a = a  b = b  c = c  Missing = Missing
  Disks <- AllDisks  Numbers = 2  Ident <- MCIdent
  SystemDisks <- SystemDisk  ReadOnlyDisks <- NoDisks  MountedDisks <- OneStick
  SmallDisks <- NoDisks  UsbDisks <- Sticks
  InitialDisks <- BothSticks  MaxPlugs = 1  MaxLost = 1  MaxClicks = 4
INVARIANTS TypeOK WritesTheConfirmedPlan WindowOutlivesWork GreenMeansProven IdleMeansUsable
PROPERTIES WorkSettles
CHECK_DEADLOCK FALSE
