\* One RIP and one compilation across WasmTieredVm::reset_real_mode.
CONSTANTS
  Rips = {1}
  Compilable <- ByContents
  Lens = {1, 2}
  PageSize = 2
  VersionsLen = 2
  VersionMod = 2
  SnapshotLen = 3
  MaxSnapshotPages = 2
  MaxBlocks = 1
  MaxBytes = 0
  Threshold = 1
  Capacity = 1
  CountMax = 1
  Jobs = {j1}
  MaxStores = 2
  MaxResets = 1
SPECIFICATION TieredVmSpec
INVARIANT PreparedIsFresh
