CONSTANTS
  Requests = {a, b}
  Capacity = 2
  Consumers = {c1, c2, c3}
  MaxPushes = 5
SPECIFICATION QueueSpec
INVARIANTS
  QueueTypeOK
  NewestKept
  NoLostWakeup
PROPERTY Served
CHECK_DEADLOCK FALSE
