SPECIFICATION FairSpec
CONSTANTS
  SlotCount = 2
  Commands <- TwoCommands
  HookCommands <- HookInserts
  Removable = {3}
  PromptSends = 1
  ColdCycles = 1
  ColdMaxCycles = 2
  UnsentLimit = 2
  ByteBits = 2
  CutoutWired = TRUE
  MaxRefCount = 2
  Balanced = TRUE
INVARIANTS TypeOK NoTornRead TimerFollowsTracks
PROPERTIES ImplementsScheduler PacketsKeepComing
