\* A disk of two blocks of two cells.  Directly used, bare and as an overlay:
\* three calls.  Bare, behind a cache of one block of three cells, so
\* that the blocks of cache and disk overlap in every way: three calls.  Two
\* accesses may fail, and a crash may interrupt at any step.
CONSTANTS
  Stacks = {"sparse", "cow"}
  CachedStacks = {"sparse"}
  NumBlocks = 2
  BlockCells = 2
  CacheCells = 3
  MaxCached = 1
  Values = {0, 1}
  BaseValue = 2
  MaxCalls = 3
  MaxRequests = 3
  MaxFaults = 2
  MaxCrashes = 1
SPECIFICATION CachedSpec
INVARIANTS TypeOK SlotsNotShared TableSurvivesCrash IdleImageOpens ReadsReturnWrites SpaceIsReclaimed CachedReadsReturnWrites FlushedSurvivesCrash
