SPECIFICATION Spec
CONSTANTS
  SlotCount = 2
  Commands <- MixedCommands
  HookCommands <- HookInserts
  Removable = {3, 112}
  PromptSends = 2
  ColdCycles = 2
  ColdMaxCycles = 3
  UnsentLimit = 4
INVARIANTS TypeOK UniqueKeys NoDeadOneShot Handoff
PROPERTY AliasSpacing
