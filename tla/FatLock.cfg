CONSTANTS
  Task = {t1, t2}
  Null = Null
  System = System
  Volume <- Volumes
  File <- Places
  VolumeOf <- VolumeOfPlace
  Slots = 1
  MaxMounts = 2
SYMMETRY Symmetry
SPECIFICATION FatSpec
INVARIANTS OneInside NoLockLeft CheckStillHolds EntriesMatch
PROPERTY ImplementsNameTable
VIEW View
