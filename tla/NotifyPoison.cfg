SPECIFICATION Spec
CONSTANTS
  Leads = {l1}
  MaxEvents = 2
  Posts <- PoisonPosts
  ThrottleSecs = 1
  DebounceSecs = 1
  WindowEnd = 3
  MonitorLimit = 2
  DMResults = {TRUE}
  Reaped = {}
  MaxTime = 2
  MaxCrashes = 0
INVARIANT CompletedNeverFails
CHECK_DEADLOCK FALSE
