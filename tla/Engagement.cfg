SPECIFICATION Spec
CONSTANTS
  Drafts = {1, 2, 3, 4}
  Info <- MCInfo
  Files <- MCFiles
  Users = {"user"}
  Commands <- AllCommands
  Threshold = 1
  MaxHour = 2
  MaxCalls = 1
  MaxDeaths = 1
INVARIANTS EngTypeOK AnnouncedOnce ScreenedIsNew PostedOnRecord HourNotSilent
PROPERTIES NoStepBack
CHECK_DEADLOCK FALSE
