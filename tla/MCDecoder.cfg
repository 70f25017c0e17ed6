SPECIFICATION Spec
CONSTANTS
  Defaults <- FactoryCvs
  Unsupported = {1}
  ResetsForService = 2
  Packets <- MixedPackets
  ApplicationWrites <- FewWrites
  Depth = 3
  TimeoutUnit = 1
  AckTicks = 1
  Forever = 1
  MaxPackets = 4
  NoPacket = NoPacket
CHECK_DEADLOCK FALSE
INVARIANTS CacheFollowsCvs RepliesAnswer
PROPERTIES LockHolds QueueIsFifo NoTripWhileHeard
