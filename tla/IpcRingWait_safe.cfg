\* A ring of two records, used by one producer with a timeout and a consumer in
\* pop_blocking, or by two producers that drop when full and a polling consumer.
CONSTANTS
  p1 = p1
  p2 = p2
  Producers = {p1, p2}
  Consumer = c
  Timeouts = TRUE
  Cap = 2
  Uses <- SafeUses
SPECIFICATION FairSpec
INVARIANTS TypeOK ConsumerNotForgotten TurnNotForgotten
PROPERTIES CommittedIsPopped PushBlockingReturns TryPushReturns
