\* A crash at any step of a call on the bare disk.
CONSTANTS
  Stacks = {"sparse"}
  NumBlocks = 2
  BlockCells = 2
  Values = {0, 1}
  BaseValue = 2
  MaxCalls = 3
  MaxFaults = 0
  MaxCrashes = 1
SPECIFICATION Spec
INVARIANT ImageOpens
