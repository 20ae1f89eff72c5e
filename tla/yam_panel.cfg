CONSTANTS
  Panel = {p1, p2}
  Watchdogs = {w1}
  Executors = {}
  Client = client
  Queue = queue_loop
  Waypath = waypath
  Poller = poller
  None = none
  Orders = {"launch", "home", "park", "run_policy", "wrist", "waypath", "stop", "hold", "on", "off"}
  HasScene = TRUE
  MaxFaults = 1
  MaxCrashes = 1
  MaxOrders = 2
  MaxEvents = 2
SPECIFICATION Spec
INVARIANTS TypeOK ReceiptIsTrue GrantIsAtHome
SYMMETRY Symmetry
CHECK_DEADLOCK FALSE
