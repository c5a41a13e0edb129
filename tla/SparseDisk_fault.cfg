\* One access fails during a write to the copy-on-write disk.
CONSTANTS
  Stacks = {"cow"}
  NumBlocks = 2
  BlockCells = 2
  Values = {0, 1}
  BaseValue = 2
  MaxCalls = 3
  MaxFaults = 1
  MaxCrashes = 0
SPECIFICATION Spec
INVARIANT ExistingBlocksKeepTheirBytes
