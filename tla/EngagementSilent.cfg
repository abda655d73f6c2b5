SPECIFICATION Spec
CONSTANTS
  Drafts = {1, 2, 3, 4}
  Info <- MCInfo
  Files <- MCFiles
  Users = {"user"}
  Commands <- AllCommands
  Threshold = 1
  MaxHour = 2
  MaxCalls = 1
  MaxDeaths = 0
INVARIANT HourSpeaks
CHECK_DEADLOCK FALSE
