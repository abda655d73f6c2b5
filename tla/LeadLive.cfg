SPECIFICATION FairSpec
CONSTANTS
  Leads = {"l1"}
  Remote = {"l1"}
  Tools = {"t1"}
  Ops <- AllOps
  Cap = 1
  MaxAttempts = 2
  Big = {}
  KillResults <- AllKills
  TmuxErrors = FALSE
  Timers = {"watchdog"}
  MaxDeaths = 1
  MaxErrors = 1
INVARIANTS LifecycleInv GiveUpSentOnce
PROPERTY DeadIsNotDropped
