\* Two hot RIPs whose blocks evict each other from a cache of three bytes, two
\* compilations in flight, a store and a reset; the first RIP cannot be compiled
\* until its page is stored to.
CONSTANTS
  Rips = {0, 2}
  Compilable <- ByContents
  Lens = {2}
  PageSize = 4
  VersionsLen = 1
  VersionMod = 4
  SnapshotLen = 2
  MaxSnapshotPages = 1
  MaxBlocks = 2
  MaxBytes = 3
  Threshold = 1
  Capacity = 2
  CountMax = 1
  Jobs = {j1, j2}
  MaxStores = 1
  MaxResets = 1
SPECIFICATION FairSpec
INVARIANT CacheWithinLimits
PROPERTY HotBlocksGetCompiled
