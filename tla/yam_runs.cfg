CONSTANTS
  Panel = {p1}
  Watchdogs = {w1, w2}
  Executors = {e1}
  Client = client
  Queue = queue_loop
  Waypath = waypath
  Poller = poller
  None = none
  Orders = {"launch", "home", "park", "run_policy", "wrist", "waypath", "stop", "hold", "on", "off"}
  HasScene = FALSE
  MaxFaults = 1
  MaxCrashes = 1
  MaxOrders = 1
  MaxEvents = 1
SPECIFICATION Spec
INVARIANTS SessionMotionIsLeased ParkingExcludesRuns
CHECK_DEADLOCK FALSE
SYMMETRY Symmetry
