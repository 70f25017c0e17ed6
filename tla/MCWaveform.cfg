SPECIFICATION FairSpec
CONSTANTS
  Packets <- TwoPackets
  ByteBits = 8
  CutoutWired = TRUE
  PreambleMin = 10
  CounterSize = 32
  MaxBytes = 3
  RailcomBuild = TRUE
  CutoutTicks = 7
INVARIANTS TypeOK FramesAreThePackets CutoutOnLastEdge HalvesMatch
PROPERTY LoadedIsSent
