SPECIFICATION Spec
CONSTANTS
  Leads = {"l1"}
  Remote = {}
  Tools = {"t1"}
  Ops <- AllOps
  Cap = 1
  MaxAttempts = 1
  Big = {"l1"}
  KillResults <- Kills
  TmuxErrors = TRUE
  Timers = {"watchdog","reaper"}
  MaxDeaths = 0
  MaxErrors = 0
INVARIANTS VerdictsAreEarned
PROPERTY StoppedIsLeftAlone
