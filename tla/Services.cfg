SPECIFICATION MCSpec
CONSTANTS
  Accounts <- MCAccounts
  Seeds <- MCSeeds
  States = {"s1", "s2"}
  Life = 3
  Window = 2
  MaxDay = 3
  Prompts <- MCPrompts
  PromptInfo <- MCPromptInfo
  Modes <- MCModes
  MaxSends = 2
  MaxTurns = 2
  Messages <- MCMessages
  Limit = 4
  NoteLength = 1
  AlarmLeads = {"a"}
  Debounce = 1
  MaxTime = 4
  MaxCalls = 2
  TypesOf <- MCTypesOf
  ToolCalls = {1, 2}
  MaxOutages = 1
  Events = {1, 2}
  Wants = {1, 2}
  Batch = 1
  MaxPrompts = 2
  MaxKills = 1
INVARIANTS
  ServicesTypeOK
  StateSpentOnce SweptIsFresh
  BlockedOnce NotSilent RelayedOnce DeniedOnce
  ToldWhole SwitchHonoured AlarmHushed
  DegradedIfUnanswered StoredIsSound
  RestartedOnce HookFiresOnce
PROPERTY NoReturnToSeed
CHECK_DEADLOCK FALSE
