SPECIFICATION Spec
CONSTANTS
  Leads = {l1}
  MaxEvents = 2
  Posts <- AttentionPosts
  ThrottleSecs = 1
  DebounceSecs = 1
  WindowEnd = 3
  MonitorLimit = 2
  DMResults = {TRUE}
  Reaped = {l1}
  MaxTime = 3
  MaxCrashes = 1
INVARIANTS TimeoutDMOnlyIfTimedOut ProactiveSpacing UrgentIsCarried
PROPERTIES ClosedIsFinal SilencedByDeath
CHECK_DEADLOCK FALSE
