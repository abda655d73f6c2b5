SPECIFICATION Spec
CONSTANTS
  Leads = {"l1"}
  Remote = {}
  Tools = {"t1"}
  Ops <- AllOps
  Cap = 1
  MaxAttempts = 2
  Big = {}
  KillResults <- Kills
  TmuxErrors = FALSE
  Timers = {"watchdog"}
  MaxDeaths = 0
  MaxErrors = 0
PROPERTY KilledIsNeverRevived
