\* Two writers, one of which may die in an update, one reader, two payload
\* words; the generation wraps at 3, after three completed updates.
CONSTANTS
  w1 = w1
  w2 = w2
  r1 = r1
  Writers = {w1, w2}
  Readers = {r1}
  FragileWriters = {w1}
  NumFields = 2
  GenMod = 3
  MaxSpins = 2
  MaxPublishes = 2
SPECIFICATION FairSpec
INVARIANTS TypeOK WritersExclude SnapshotCoherent
PROPERTIES SnapshotsMonotonic CallsReturn
