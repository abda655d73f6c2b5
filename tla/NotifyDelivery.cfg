SPECIFICATION Spec
CONSTANTS
  Leads = {l1}
  MaxEvents = 3
  Posts <- FlushPosts
  ThrottleSecs = 1
  DebounceSecs = 1
  WindowEnd = 3
  MonitorLimit = 2
  DMResults = {TRUE, FALSE}
  Reaped = {}
  MaxTime = 1
  MaxCrashes = 1
INVARIANTS DeliveryInv CompletedSettlesMilestones
PROPERTY ImplementsContract
CHECK_DEADLOCK FALSE
