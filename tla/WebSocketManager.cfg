\* Callers against the event loop, and a network that ends connections.
SPECIFICATION FairSpec
CONSTANTS
  c1 = c1
  c2 = c2
  r1 = r1
  r2 = r2
  Callers <- MCCallers
  Requests <- MCRequests
  Valid <- MCValid
  QueueSize = 1
  MaxConnects = 2
  MaxDisconnects = 1
  MaxLosses = 2
INVARIANTS
  EachRequestOnce
PROPERTIES
  SubscriptionsAreFlushed
  LostIsRetried
\* A connection that was refused, or closed by hand, stays closed.
CHECK_DEADLOCK FALSE
