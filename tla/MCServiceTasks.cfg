SPECIFICATION FairSpec
CONSTANTS
  Bits = 2
  AddressBits = 2
  CVs <- SomeCVs
  FactoryValue = 2
  FactoryDefaults <- SomeDefaults
  Memories <- SomeMemories
  Values = {0, 2}
  Decoders <- SomeDecoders
  MaxStarts = 2
  MaxLost = 1
INVARIANTS TypeOK OnlyOwnerActs SuccessIsTrue UndisturbedIsExact
PROPERTIES OtherBitsKept EveryTaskReports
