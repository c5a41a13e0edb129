\* Three RIPs, one of which cannot be compiled until a store and one not after it.
CONSTANTS
  Rips = {0, 1, 2}
  Compilable <- ByContents
  Lens = {1, 2}
  PageSize = 4
  VersionsLen = 1
  VersionMod = 4
  SnapshotLen = 2
  MaxSnapshotPages = 1
  MaxBlocks = 1
  MaxBytes = 1
  Threshold = 2
  Capacity = 2
  CountMax = 2
  Jobs = {j1}
  MaxStores = 1
  MaxResets = 0
SPECIFICATION Spec
INVARIANT RequestedIsCompiling
