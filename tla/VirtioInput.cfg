\* A queue of one buffer whose indices wrap at 2; one injection of three events
\* with room for two, the second of which waits for the buffer; one move out of
\* D0 and back, one snapshot restored.
CONSTANTS
  QueueSize = 1
  IdxMod = 2
  MaxPending = 2
  Burst = 3
  MaxInjects = 1
  MaxExits = 1
  MaxRestores = 1
SPECIFICATION FairSpec
INVARIANTS TypeOK OwnedOnce ReceivedInOrder ReleaseIsLast UsedNotForgotten
PROPERTY EventsArrive
