CONSTANTS
  Panel = {p1}
  Watchdogs = {w1}
  Executors = {e1}
  Client = client
  Queue = queue_loop
  Waypath = waypath
  Poller = poller
  None = none
  Orders = {}
  HasScene = FALSE
  MaxFaults = 2
  MaxCrashes = 0
  MaxOrders = 0
  MaxEvents = 2
SPECIFICATION Spec
INVARIANT RunHasDeadline
CHECK_DEADLOCK FALSE
