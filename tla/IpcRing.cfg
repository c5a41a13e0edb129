\* p1 drops when the ring is full, p2 retries; cursors wrap at 32, the ring
\* holds 16 bytes; records of 8, 12 and, too large for the ring, 20 bytes.
\* 8 is in FittingLens; above MaxPop a record is reported as too large.  One
\* producer may die in the middle of a push.
CONSTANTS
  p1 = p1
  p2 = p2
  Producers = {p1, p2}
  SpinningProducers = {p2}
  Cap = 16
  CursorMod = 32
  Lens = {3, 8, 13}
  MaxPop = 4
  MaxPush = 2
  MaxCrashes = 1
SPECIFICATION FairSpec
INVARIANTS TypeOK Exclusive RecordFits DeliversInOrder NeverCorrupt CursorsOrdered
PROPERTIES ImplementsQueue SpinningPushReturns CommittedIsDelivered
