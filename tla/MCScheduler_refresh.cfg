SPECIFICATION FairSpec
CONSTANTS
  SlotCount = 3
  Commands <- RefreshCommands
  HookCommands = {}
  Removable = {}
  PromptSends = 1
  ColdCycles = 1
  ColdMaxCycles = 3
  UnsentLimit = 8
INVARIANT UnsentBound
PROPERTY EveryRefreshSent
