\* One producer in push_blocking without a timeout, a consumer in pop_blocking.
CONSTANTS
  p1 = p1
  p2 = p2
  Producers = {p1, p2}
  Consumer = c
  Timeouts = FALSE
  Cap = 1
  Uses <- BlockingUses
CHECK_DEADLOCK FALSE
SPECIFICATION FairSpec
PROPERTY PushBlockingReturns
