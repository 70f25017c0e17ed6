SPECIFICATION FairSpec
CONSTANTS
  SlotCount = 2
  Commands <- AliasingCommands
  HookCommands = {}
  Removable = {3, 112}
  PromptSends = 2
  ColdCycles = 2
  ColdMaxCycles = 3
  UnsentLimit = 6
PROPERTY EveryRefreshSent
