SPECIFICATION FairSpec
CONSTANTS
  run = run
  r1 = r1
  r2 = r2
  Messages = {m1, m2, m3}
  Subscriptions = {run}
  Receivers = {r1, r2}
  SubOf <- MCSubOf
  MaxNacks = 2
  MaxCancels = 1
INVARIANTS OnePlace NoneOverlooked
PROPERTIES ImplementsContract QueuedIsDelivered CloseReleases
CHECK_DEADLOCK FALSE
