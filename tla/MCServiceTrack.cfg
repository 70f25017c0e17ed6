SPECIFICATION FairSpec
CONSTANTS
  ResetPreCount = 3
  ResetPostCount = 6
  BlankPackets = 2
  Retries = 1
  MinSamples = 2
  MaxSamples = 3
  DropoutSamples = 1
  Operations <- VerifyAndWrite
  ExitsMidOperation = FALSE
INVARIANTS TypeOK PacketHandshake
PROPERTIES CommandAfterResets ReportAfterResets SuccessWasAcked OperationCompletes
