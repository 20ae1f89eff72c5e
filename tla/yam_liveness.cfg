CONSTANTS
  Panel = {p1}
  Watchdogs = {w1}
  Executors = {e1}
  Client = client
  Queue = queue_loop
  Waypath = waypath
  Poller = poller
  None = none
  Orders = {"launch", "home", "park", "run_policy", "wrist", "waypath", "stop", "hold", "on", "off"}
  HasScene = FALSE
  MaxFaults = 0
  MaxCrashes = 0
  MaxOrders = 1
  MaxEvents = 1
SPECIFICATION FairSpec
PROPERTIES RunsEnd HandoffEnded StopIsLast
CHECK_DEADLOCK FALSE
