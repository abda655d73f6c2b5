SPECIFICATION FairSpec
CONSTANTS
  Leads = {l1}
  MaxEvents = 2
  Posts <- LivePosts
  ThrottleSecs = 1
  DebounceSecs = 1
  WindowEnd = 3
  MonitorLimit = 1
  DMResults = {TRUE}
  Reaped = {l1}
  MaxTime = 2
  MaxCrashes = 1
PROPERTIES UrgentIsSettled CompletedFlushes ExpiredIsClosed
CHECK_DEADLOCK FALSE
