CONSTANTS
  Panel = {p1}
  Watchdogs = {w1}
  Executors = {}
  Client = client
  Queue = queue_loop
  Waypath = waypath
  Poller = poller
  None = none
  Orders = {"launch", "home", "park", "run_policy", "wrist", "waypath", "stop", "hold", "on", "off"}
  HasScene = FALSE
  MaxFaults = 0
  MaxCrashes = 0
  MaxOrders = 2
  MaxEvents = 2
SPECIFICATION Spec
INVARIANT StopBeatsLatePark
CHECK_DEADLOCK FALSE
