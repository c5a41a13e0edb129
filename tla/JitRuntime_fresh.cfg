\* Two RIPs, the block of one across two pages, over a cache of one block and a
\* profile of one counter; two stores (the page version wraps at 2) and a reset.
CONSTANTS
  Rips = {1, 2}
  Compilable <- ByContents
  Lens = {2}
  PageSize = 2
  VersionsLen = 2
  VersionMod = 2
  SnapshotLen = 3
  MaxSnapshotPages = 2
  MaxBlocks = 1
  MaxBytes = 0
  Threshold = 2
  Capacity = 1
  CountMax = 2
  Jobs = {j1}
  MaxStores = 2
  MaxResets = 1
SPECIFICATION Spec
INVARIANTS TypeOK PreparedIsFresh ProfileWithinCapacity RequestedIsBacked
