------------------------ MODULE DccServiceTrack_proofs ------------------------
(***************************************************************************)
(* Theorems about the service track, for any packet counts, sampling       *)
(* constants and operations, and with or without the application leaving   *)
(* service mode in the middle of an operation.                             *)
(***************************************************************************)
EXTENDS DccServiceTrack, TLAPS

\* The packet on its way: what the run and the encoder know of it.
HandshakeInv ==
  /\ first_packet_sent \in BOOLEAN /\ packet_complete_flag \in BOOLEAN
  /\ loaded \in {"none", "reset", "command"} /\ sending \in BOOLEAN
  /\ state \in States /\ at \in {"start", "acting"}
  /\ loaded # "none" => first_packet_sent /\ ~packet_complete_flag
  /\ first_packet_sent /\ ~packet_complete_flag => loaded # "none"
  /\ packet_complete_flag => first_packet_sent
  /\ sending => loaded # "none"
  /\ state = "IDLE" => loaded = "none"
  /\ at = "acting" => ~first_packet_sent /\ state \in {"COMMAND", "RECOVERY"}

\* Where the packet count of each phase stands against what went out.
PhaseInv ==
  /\ packet_count \in Nat /\ retry_count \in Nat
  /\ resets \in 0..MostResets /\ commands \in Nat
  /\ state = "RESET_PRE" =>
       commands = 0 /\ (resets >= packet_count \/ resets = MostResets)
  /\ state = "COMMAND" =>
       commands = packet_count /\ (commands = 0 => resets >= ResetPreCount)
  /\ state = "RESET_POST" => resets >= packet_count \/ resets = MostResets

\* What the run may still take for an acknowledgement is one of this attempt.
\* Success is not set before it is due, and is not taken back.
AckInv ==
  /\ state \in {"COMMAND", "RECOVERY"} /\ ack_detected => acked
  /\ state \in {"RESET_PRE", "COMMAND", "RECOVERY"} => result # "SUCCESS"
  /\ state = "RESET_POST" /\ result = "SUCCESS" => acked
  /\ state \in States

-----------------------------------------------------------------------------
\* No packet is on its way before the first operation.
LEMMA HandshakeInit == Init => HandshakeInv
<1> SUFFICES ASSUME Init PROVE HandshakeInv
  OBVIOUS
<1>1. /\ ~first_packet_sent /\ first_packet_sent \in BOOLEAN
      /\ ~packet_complete_flag /\ packet_complete_flag \in BOOLEAN
      /\ ~sending /\ sending \in BOOLEAN
      /\ loaded = "none" /\ state = "IDLE" /\ at = "start"
  BY DEF Init, CoreInit
<1> QED
  BY <1>1 DEF HandshakeInv, States

\* Every step keeps what the run and the encoder know of the packet.
LEMMA HandshakeStep ==
  ASSUME HandshakeInv, [Next]_vars
  PROVE  HandshakeInv'
<1> USE DEF HandshakeInv, States
<1>1. CASE UNCHANGED <<coreVars>>
  BY <1>1 DEF coreVars, handshake, encoder
<1>2. CASE EnterServiceMode
  BY <1>2 DEF EnterServiceMode, Enter, handshake
<1>3. CASE ExitServiceMode
  BY <1>3 DEF ExitServiceMode, Exit, handshake
<1>4. CASE Begin
  <2>1. /\ ~first_packet_sent' /\ first_packet_sent' \in BOOLEAN
        /\ ~packet_complete_flag' /\ packet_complete_flag' \in BOOLEAN
        /\ state = "IDLE" /\ state' = "RESET_PRE" /\ at' = "start"
        /\ UNCHANGED <<loaded, sending>>
    BY <1>4 DEF Begin, BeginOperation, encoder
  <2> QED
    BY <2>1
<1>5. CASE RunStep
  <2> USE DEF Ready, Load, Consume, EnterPhase, IsEncoderIdle, encoder,
              handshake
  <2>1. CASE SendLeadingReset
    BY <2>1 DEF SendLeadingReset
  <2>2. CASE StartCommand
    BY <2>2 DEF StartCommand
  <2>3. CASE SeeAck
    BY <2>3 DEF SeeAck
  <2>4. CASE SeeNoAck
    BY <2>4 DEF SeeNoAck
  <2>5. CASE SendCommand
    BY <2>5 DEF SendCommand
  <2>6. CASE StartRecovery
    BY <2>6 DEF StartRecovery
  <2>7. CASE SendRecovery
    BY <2>7 DEF SendRecovery
  <2>8. CASE RetryOrFail
    BY <2>8 DEF RetryOrFail
  <2>9. CASE SendTrailingReset
    BY <2>9 DEF SendTrailingReset
  <2>10. CASE StepCallback
    BY <2>10 DEF StepCallback
  <2> QED
    BY <1>5, <2>1, <2>2, <2>3, <2>4, <2>5, <2>6, <2>7, <2>8, <2>9, <2>10
    DEF RunStep, Run
<1>6. CASE Sample
  BY <1>6 DEF Sample, AckSample, handshake, encoder
<1>7. CASE Transmit
  <2>1. CASE PickUp
    BY <2>1 DEF PickUp, handshake
  <2>2. CASE OnPacketComplete
    <3>1. /\ loaded' = "none" /\ ~sending' /\ sending' \in BOOLEAN
          /\ packet_complete_flag' = TRUE /\ UNCHANGED first_packet_sent
          /\ UNCHANGED <<state, at>>
      BY <2>2 DEF OnPacketComplete
    <3>2. sending /\ first_packet_sent /\ at = "start" /\ state # "IDLE"
      BY <2>2 DEF OnPacketComplete
    <3> QED
      BY <3>1, <3>2
  <2> QED
    BY <1>7, <2>1, <2>2 DEF Transmit
<1> QED
  BY <1>1, <1>2, <1>3, <1>4, <1>5, <1>6, <1>7 DEF Next, vars

\* The double handshake of dcc_service_mode_common.c (first_packet_sent and
\* packet_complete_flag) and the encoder's buffer stay in step.
THEOREM ServicePacketHandshake == Spec => []PacketHandshake
<1>1. HandshakeInv => PacketHandshake
  BY DEF HandshakeInv, PacketHandshake
<1> QED
  BY <1>1, HandshakeInit, HandshakeStep, PTL DEF Spec
-----------------------------------------------------------------------------
(***************************************************************************)
(* Phases.                                                                 *)
(***************************************************************************)

\* How the history follows a step of the run that hands no packet over, and
\* one that does.
LEMMA QuietRun ==
  ASSUME RunStep, packet_count \in Nat,
         packet_count' = 0 \/ packet_count' = packet_count
  PROVE  /\ UNCHANGED resets
         /\ commands' = IF AttemptOver THEN 0 ELSE commands
<1>1. packet_count' # packet_count + 1
  OBVIOUS
<1>2. ~HandsOver
  BY <1>1 DEF HandsOver
<1> QED
  BY <1>2 DEF RunStep

\* The steps of the run that hand a packet over.
LEMMA LoadingRun ==
  ASSUME RunStep, NEW packet \in {"reset", "command"}, Load(packet)
  PROVE  IF packet = "command" THEN resets' = 0 /\ commands' = commands + 1
         ELSE /\ resets' = IF resets < MostResets THEN resets + 1 ELSE resets
              /\ UNCHANGED commands
<1>1. HandsOver /\ loaded' = packet
  BY DEF Load, HandsOver
<1> QED
  BY <1>1 DEF RunStep

\* The cap on the counted resets lies above every count compared with it.
LEMMA MostResetsType == MostResets \in Nat /\ MostResets >= ResetPreCount
                        /\ MostResets >= ResetPostCount
BY CountsAssumption DEF MostResets

\* No phase has sent anything at first.
LEMMA PhaseInit == Init => PhaseInv
BY MostResetsType DEF Init, CoreInit, PhaseInv

\* Every step keeps the packet counts in line with what went out.
LEMMA PhaseStep ==
  ASSUME PhaseInv, [Next]_vars
  PROVE  PhaseInv'
<1> USE CountsAssumption, MostResetsType DEF PhaseInv
<1>1. CASE UNCHANGED <<state, packet_count, retry_count, resets, commands>>
  BY <1>1
<1>2. CASE EnterServiceMode \/ ExitServiceMode \/ Sample \/ Transmit
  <2>1. UNCHANGED <<state, packet_count, retry_count, resets, commands>>
    BY <1>2 DEF EnterServiceMode, Enter, ExitServiceMode, Exit, Sample,
                AckSample, Transmit, PickUp, OnPacketComplete, progress,
                history
  <2> QED
    BY <1>1, <2>1
<1>3. CASE Begin
  <2>1. /\ state' = "RESET_PRE" /\ packet_count' = 0 /\ retry_count' = 0
        /\ resets' = 0 /\ commands' = 0
    BY <1>3 DEF Begin, BeginOperation
  <2> QED
    BY <2>1
<1>4. CASE RunStep
  <2>1. CASE SendLeadingReset
    <3>1. Load("reset") /\ state = "RESET_PRE"
          /\ UNCHANGED <<state, retry_count>>
          /\ packet_count' = packet_count + 1
      BY <2>1 DEF SendLeadingReset, Load
    <3>2. /\ resets' = IF resets < MostResets THEN resets + 1 ELSE resets
          /\ UNCHANGED commands
      BY <1>4, <3>1, LoadingRun
    <3> QED
      BY <3>1, <3>2
  <2>2. CASE StartCommand
    <3>1. /\ state = "RESET_PRE" /\ packet_count >= ResetPreCount
          /\ state' = "COMMAND" /\ packet_count' = 0 /\ UNCHANGED retry_count
      BY <2>2 DEF StartCommand, EnterPhase
    <3>2. UNCHANGED resets /\ commands' \in {0, commands}
      BY <1>4, <3>1, QuietRun
    <3> QED
      BY <3>1, <3>2
  <2>3. CASE SeeAck
    <3>1. state' = "RESET_POST" /\ packet_count' = 0 /\ UNCHANGED retry_count
      BY <2>3 DEF SeeAck, EnterPhase
    <3>2. UNCHANGED resets /\ commands' \in {0, commands}
      BY <1>4, <3>1, QuietRun
    <3> QED
      BY <3>1, <3>2
  <2>4. CASE SeeNoAck
    <3>1. UNCHANGED <<state, packet_count, retry_count>> /\ ~AttemptOver
      BY <2>4 DEF SeeNoAck, progress, Ready, AttemptOver
    <3>2. UNCHANGED <<resets, commands>>
      BY <1>4, <3>1, QuietRun
    <3> QED
      BY <1>1, <3>1, <3>2
  <2>5. CASE SendCommand
    <3>1. Load("command") /\ state = "COMMAND"
          /\ UNCHANGED <<state, retry_count>>
          /\ packet_count' = packet_count + 1
      BY <2>5 DEF SendCommand, Load
    <3>2. resets' = 0 /\ commands' = commands + 1
      BY <1>4, <3>1, LoadingRun
    <3> QED
      BY <3>1, <3>2
  <2>6. CASE StartRecovery
    <3>1. state' = "RECOVERY" /\ packet_count' = 0 /\ UNCHANGED retry_count
      BY <2>6 DEF StartRecovery, EnterPhase
    <3>2. UNCHANGED resets /\ commands' \in {0, commands}
      BY <1>4, <3>1, QuietRun
    <3> QED
      BY <3>1, <3>2
  <2>7. CASE SendRecovery
    <3>1. Load("reset") /\ state = "RECOVERY"
          /\ UNCHANGED <<state, retry_count>>
          /\ packet_count' = packet_count + 1
      BY <2>7 DEF SendRecovery, Load
    <3>2. /\ resets' = IF resets < MostResets THEN resets + 1 ELSE resets
          /\ UNCHANGED commands
      BY <1>4, <3>1, LoadingRun
    <3> QED
      BY <3>1, <3>2
  <2>8. CASE RetryOrFail
    <3>1. packet_count' = 0
          /\ \/ state' = "RESET_POST" /\ UNCHANGED retry_count
             \/ state' = "RESET_PRE" /\ retry_count' = retry_count + 1
          /\ AttemptOver
      BY <2>8 DEF RetryOrFail, EnterPhase, AttemptOver
    <3>2. UNCHANGED resets /\ commands' = 0
      BY <1>4, <3>1, QuietRun
    <3> QED
      BY <3>1, <3>2
  <2>9. CASE SendTrailingReset
    <3>1. Load("reset") /\ state = "RESET_POST"
          /\ UNCHANGED <<state, retry_count>>
          /\ packet_count' = packet_count + 1
      BY <2>9 DEF SendTrailingReset, Load
    <3>2. /\ resets' = IF resets < MostResets THEN resets + 1 ELSE resets
          /\ UNCHANGED commands
      BY <1>4, <3>1, LoadingRun
    <3> QED
      BY <3>1, <3>2
  <2>10. CASE StepCallback
    <3>1. state' = "IDLE" /\ UNCHANGED <<packet_count, retry_count>>
      BY <2>10 DEF StepCallback, progress
    <3>2. UNCHANGED resets /\ commands' \in {0, commands}
      BY <1>4, <3>1, QuietRun
    <3> QED
      BY <3>1, <3>2
  <2> QED
    BY <1>4, <2>1, <2>2, <2>3, <2>4, <2>5, <2>6, <2>7, <2>8, <2>9, <2>10
    DEF RunStep, Run
<1> QED
  BY <1>1, <1>2, <1>3, <1>4 DEF Next, vars, coreVars, progress, history

\* Reset packets before commands (S-9.2.3; _run_command_state and
\* _retry_or_fail): no attempt, first or retried, sends a command before the
\* leading reset packets.
THEOREM ServiceCommandAfterResets == Spec => CommandAfterResets
<1>1. ASSUME PhaseInv, [Next]_vars
      PROVE  [commands = 0 /\ commands' = 1 => resets >= ResetPreCount]_vars
  <2> SUFFICES ASSUME commands = 0, commands' = 1, RunStep
               PROVE  resets >= ResetPreCount
    BY <1>1 DEF Next, vars, history, EnterServiceMode, ExitServiceMode, Begin,
                Sample, Transmit
  <2>1. CASE SendCommand
    BY <1>1, <2>1 DEF SendCommand, PhaseInv
  <2>2. CASE SendLeadingReset \/ SendRecovery \/ SendTrailingReset
    <3>1. Load("reset")
      BY <2>2 DEF SendLeadingReset, SendRecovery, SendTrailingReset
    <3>2. UNCHANGED commands
      BY <3>1, LoadingRun
    <3> QED
      BY <3>2
  <2>3. CASE StartCommand \/ SeeAck \/ SeeNoAck \/ StartRecovery
             \/ RetryOrFail \/ StepCallback
    <3>1. packet_count' = 0 \/ packet_count' = packet_count
      BY <2>3 DEF StartCommand, SeeAck, SeeNoAck, StartRecovery, RetryOrFail,
                  StepCallback, EnterPhase, progress
    <3>2. commands' \in {0, commands}
      BY <1>1, <3>1, QuietRun DEF PhaseInv
    <3> QED
      BY <3>2
  <2> QED
    BY <2>1, <2>2, <2>3 DEF RunStep, Run
<1> QED
  BY <1>1, PhaseInit, PhaseStep, PTL DEF Spec, CommandAfterResets

\* A result is reported only when the trailing reset packets have gone out
\* whole (the RESET_POST state of DccServiceModeCommon_run).
THEOREM ServiceReportAfterResets == Spec => ReportAfterResets
<1>1. ASSUME PhaseInv, HandshakeInv, [Next]_vars
      PROVE  [state # "IDLE" /\ state' = "IDLE" =>
                resets >= ResetPostCount /\ loaded = "none" /\ ~sending]_vars
  <2> SUFFICES ASSUME state # "IDLE", state' = "IDLE"
               PROVE  resets >= ResetPostCount /\ loaded = "none" /\ ~sending
    OBVIOUS
  <2>1. StepCallback
    BY <1>1 DEF Next, vars, coreVars, EnterServiceMode, Enter, ExitServiceMode,
                Exit, Begin, BeginOperation, Sample, AckSample, Transmit,
                PickUp, OnPacketComplete, RunStep, Run, SendLeadingReset,
                StartCommand, SeeAck, SeeNoAck, SendCommand, StartRecovery,
                SendRecovery, RetryOrFail, SendTrailingReset, EnterPhase
  <2>2. resets >= ResetPostCount
    BY <1>1, <2>1, CountsAssumption, MostResetsType DEF StepCallback, PhaseInv
  <2>3. loaded = "none" /\ ~sending
    BY <1>1, <2>1 DEF StepCallback, Ready, IsEncoderIdle, HandshakeInv
  <2> QED
    BY <2>2, <2>3
<1> QED
  BY <1>1, PhaseInit, PhaseStep, HandshakeInit, HandshakeStep, PTL
  DEF Spec, ReportAfterResets
-----------------------------------------------------------------------------
(***************************************************************************)
(* Types.                                                                  *)
(***************************************************************************)

\* The byte counters: a packet is counted only below a count that is itself a
\* byte, and commands are counted with it.
CountTypes ==
  /\ operation \in Operations \cup {NoOperation}
  /\ state # "IDLE" => operation \in Operations
  /\ packet_count \in 0..255 /\ retry_count \in 0..Retries
  /\ commands \in 0..255

\* The span counters: a span of more than MaxSamples has overrun, and is counted
\* no further, so the sample that took it there was its last.
SpanTypes ==
  /\ ack_high_count \in 0..MaxSamples + DropoutSamples + 1
  /\ ~ack_overrun => ack_high_count <= MaxSamples
  /\ ack_low_run \in 0..DropoutSamples

FlagTypes ==
  /\ in_service_mode \in BOOLEAN /\ result \in Results
  /\ ack_detected \in BOOLEAN /\ ack_overrun \in BOOLEAN
  /\ ack_window_open \in BOOLEAN /\ signal \in BOOLEAN /\ acked \in BOOLEAN

\* An operation in progress has its counts in a byte.
LEMMA OperationCounts ==
  ASSUME CountTypes, state # "IDLE"
  PROVE  operation.command_repeat \in 1..255 /\ operation.recovery_count \in 0..255
<1>1. operation \in Operation
  BY OperationsAssumption DEF CountTypes
<1> QED
  BY <1>1 DEF Operation

LEMMA CountTypesStep ==
  ASSUME CountTypes, PhaseInv, HandshakeInv, [Next]_vars
  PROVE  CountTypes'
<1> USE CountsAssumption
<1>1. CASE UNCHANGED <<state, operation, packet_count, retry_count, commands>>
  BY <1>1 DEF CountTypes
<1>2. CASE EnterServiceMode \/ ExitServiceMode \/ Sample \/ Transmit
  <2>1. UNCHANGED <<state, operation, packet_count, retry_count, commands>>
    BY <1>2 DEF EnterServiceMode, Enter, ExitServiceMode, Exit, Sample,
                AckSample, Transmit, PickUp, OnPacketComplete, progress,
                history
  <2> QED
    BY <1>1, <2>1
<1>3. CASE Begin
  <2>1. /\ operation' \in Operations
        /\ packet_count' = 0 /\ retry_count' = 0 /\ commands' = 0
    BY <1>3 DEF Begin, BeginOperation
  <2> QED
    BY <2>1 DEF CountTypes
<1>4. CASE RunStep
  <2>1. UNCHANGED operation /\ state # "IDLE"
    BY <1>4
    DEF RunStep, Run, SendLeadingReset, StartCommand, SeeAck, SeeNoAck,
        SendCommand, StartRecovery, SendRecovery, RetryOrFail,
        SendTrailingReset, StepCallback, ScanOver
  <2>2. operation.command_repeat \in 1..255 /\ operation.recovery_count \in 0..255
    BY <2>1, OperationCounts
  <2>3. CASE SendLeadingReset \/ SendRecovery \/ SendTrailingReset
    <3>1. Load("reset") /\ UNCHANGED retry_count
      BY <2>3 DEF SendLeadingReset, SendRecovery, SendTrailingReset, Load
    <3>2. packet_count < 255
      <4>1. \/ packet_count < ResetPreCount \/ packet_count < ResetPostCount
            \/ packet_count < operation.recovery_count
        BY <2>3 DEF SendLeadingReset, SendRecovery, SendTrailingReset
      <4>2. packet_count \in 0..255
        BY DEF CountTypes
      <4> QED
        BY <2>2, <4>1, <4>2, CountsAssumption
    <3>3. packet_count' = packet_count + 1 /\ UNCHANGED commands
      BY <1>4, <3>1, LoadingRun DEF Load
    <3> QED
      BY <2>1, <3>1, <3>2, <3>3 DEF CountTypes
  <2>4. CASE SendCommand
    <3>1. Load("command") /\ UNCHANGED retry_count /\ state = "COMMAND"
      BY <2>4 DEF SendCommand, Load
    <3>2. packet_count < 255 /\ commands = packet_count
      BY <2>2, <2>4 DEF SendCommand, CountTypes, PhaseInv
    <3>3. packet_count' = packet_count + 1 /\ commands' = commands + 1
      BY <1>4, <3>1, LoadingRun DEF Load
    <3> QED
      BY <2>1, <3>1, <3>2, <3>3 DEF CountTypes
  <2>5. CASE StartCommand \/ SeeAck \/ SeeNoAck \/ StartRecovery
             \/ RetryOrFail \/ StepCallback
    <3>1. packet_count' = 0 \/ packet_count' = packet_count
      BY <2>5 DEF StartCommand, SeeAck, SeeNoAck, StartRecovery, RetryOrFail,
                  StepCallback, EnterPhase, progress
    <3>2. commands' \in {0, commands}
      BY <1>4, <3>1, QuietRun DEF PhaseInv
    <3>3. \/ UNCHANGED retry_count
          \/ retry_count < Retries /\ retry_count' = retry_count + 1
      BY <2>5 DEF StartCommand, SeeAck, SeeNoAck, StartRecovery, RetryOrFail,
                  StepCallback, progress
    <3> QED
      BY <2>1, <3>1, <3>2, <3>3 DEF CountTypes
  <2> QED
    BY <1>4, <2>3, <2>4, <2>5 DEF RunStep, Run
<1> QED
  BY <1>1, <1>2, <1>3, <1>4 DEF Next, vars, coreVars, progress, history

LEMMA SpanTypesStep ==
  ASSUME SpanTypes, [Next]_vars
  PROVE  SpanTypes'
<1> USE SamplesAssumption
<1>1. CASE UNCHANGED span
  BY <1>1 DEF SpanTypes, span
<1>2. CASE ack_high_count' = 0 /\ ack_low_run' \in {0, ack_low_run}
  BY <1>2 DEF SpanTypes
<1>3. CASE Sample
  <2>1. CASE SampleElevated
    <3>1. CASE ack_overrun
      BY <2>1, <3>1 DEF SampleElevated, SpanTypes
    <3>2. CASE ~ack_overrun
      <4>1. /\ ack_high_count' = ack_high_count + ack_low_run + 1
            /\ ack_low_run' = 0
            /\ ack_overrun' <=> ack_high_count' > MaxSamples
        BY <2>1, <3>2 DEF SampleElevated
      <4>2. /\ ack_high_count' \in 0..MaxSamples + DropoutSamples + 1
            /\ ack_low_run' \in 0..DropoutSamples
        BY <3>2, <4>1 DEF SpanTypes
      <4>3. ack_high_count' > MaxSamples \/ ack_high_count' <= MaxSamples
        BY <4>2
      <4> QED
        BY <4>1, <4>2, <4>3 DEF SpanTypes
    <3> QED
      BY <3>1, <3>2
  <2>2. CASE SampleDropout
    <3>1. CASE ack_low_run + 1 > DropoutSamples
      BY <1>2, <2>2, <3>1 DEF SampleDropout
    <3>2. CASE ~(ack_low_run + 1 > DropoutSamples)
      <4>1. UNCHANGED <<ack_high_count, ack_overrun>>
            /\ ack_low_run' = ack_low_run + 1
        BY <2>2, <3>2 DEF SampleDropout
      <4> QED
        BY <3>2, <4>1 DEF SpanTypes
    <3> QED
      BY <3>1, <3>2
  <2> QED
    BY <1>3, <2>1, <2>2 DEF Sample, AckSample
<1>4. CASE EnterServiceMode \/ ExitServiceMode \/ Transmit
  BY <1>1, <1>4
  DEF EnterServiceMode, Enter, ExitServiceMode, Exit, Transmit, PickUp,
      OnPacketComplete, ack
<1>5. CASE Begin
  BY <1>2, <1>5 DEF Begin, BeginOperation
<1>6. CASE RunStep
  <2>1. CASE StartCommand
    BY <1>2, <2>1 DEF StartCommand
  <2>2. CASE ~StartCommand
    BY <1>1, <1>6, <2>2
    DEF RunStep, Run, SendLeadingReset, SeeAck, SeeNoAck, SendCommand,
        StartRecovery, SendRecovery, RetryOrFail, SendTrailingReset,
        StepCallback, ack
  <2> QED
    BY <2>1, <2>2
<1> QED
  BY <1>1, <1>3, <1>4, <1>5, <1>6 DEF Next, vars, coreVars, ack

LEMMA FlagTypesStep ==
  ASSUME FlagTypes, [Next]_vars
  PROVE  FlagTypes'
<1> USE DEF FlagTypes, Results, ack, span
<1>1. CASE UNCHANGED vars
  BY <1>1 DEF vars, coreVars, history
<1>2. CASE EnterServiceMode \/ ExitServiceMode
  BY <1>2 DEF EnterServiceMode, Enter, ExitServiceMode, Exit, history
<1>3. CASE Begin
  BY <1>3 DEF Begin, BeginOperation
<1>4. CASE Sample
  <2>1. /\ UNCHANGED <<in_service_mode, result, ack_window_open, signal>>
        /\ acked' = (acked \/ Acknowledges)
    BY <1>4 DEF Sample, AckSample
  <2>2. \/ UNCHANGED <<ack_detected, ack_overrun>>
        \/ UNCHANGED ack_detected /\ ack_overrun' = (ack_high_count' > MaxSamples)
        \/ /\ ack_detected' = (~ack_overrun /\ ack_high_count >= MinSamples)
           /\ ack_overrun' = FALSE
    BY <1>4, Zenon DEF Sample, AckSample, SampleElevated, SampleDropout
  <2> DEFINE long   == ack_high_count' > MaxSamples
             enough == ~ack_overrun /\ ack_high_count >= MinSamples
  <2>3. long \in BOOLEAN /\ enough \in BOOLEAN
    OBVIOUS
  <2> HIDE DEF long, enough
  <2>4. \/ UNCHANGED <<ack_detected, ack_overrun>>
        \/ UNCHANGED ack_detected /\ ack_overrun' = long
        \/ ack_detected' = enough /\ ack_overrun' = FALSE
    BY <2>2, Zenon DEF long, enough
  <2>5. ack_detected' \in BOOLEAN /\ ack_overrun' \in BOOLEAN
    BY <2>3, <2>4, Zenon
  <2> QED
    BY <2>1, <2>5
<1>5. CASE RunStep
  <2>1. /\ UNCHANGED <<in_service_mode, signal>>
        /\ acked' = (acked /\ ~AttemptOver)
        /\ result' \in {result, "SUCCESS", "NO_ACK"}
        /\ ack_detected' \in {FALSE, ack_detected}
        /\ ack_overrun' \in {FALSE, ack_overrun}
        /\ ack_window_open' \in
             {ack_window_open, ack_window_open \/ packet_count + 1 > BlankPackets}
    BY <1>5
    DEF RunStep, Run, SendLeadingReset, StartCommand, SeeAck, SeeNoAck,
        SendCommand, StartRecovery, SendRecovery, RetryOrFail,
        SendTrailingReset, StepCallback
  <2> QED
    BY <2>1
<1>6. CASE Transmit
  BY <1>6 DEF Transmit, PickUp, OnPacketComplete, history
<1> QED
  BY <1>1, <1>2, <1>3, <1>4, <1>5, <1>6 DEF Next

LEMMA TypesInit == Init => CountTypes /\ SpanTypes /\ FlagTypes
<1> SUFFICES ASSUME Init PROVE CountTypes /\ SpanTypes /\ FlagTypes
  OBVIOUS
<1>1. CountTypes
  BY CountsAssumption DEF Init, CoreInit, CountTypes
<1>2. SpanTypes
  BY SamplesAssumption DEF Init, CoreInit, SpanTypes
<1>3. FlagTypes
  BY DEF Init, CoreInit, FlagTypes, Results
<1> QED
  BY <1>1, <1>2, <1>3

\* Type correctness of the service track: the byte counters of
\* dcc_service_mode_common.c never wrap, and the span counters stay within what
\* an overrun span can reach.
THEOREM ServiceTypes == Spec => []TypeOK
<1>1. CountTypes /\ SpanTypes /\ FlagTypes /\ PhaseInv /\ HandshakeInv => TypeOK
  BY DEF CountTypes, SpanTypes, FlagTypes, PhaseInv, HandshakeInv, TypeOK,
         CoreTypeOK
<1> QED
  BY <1>1, TypesInit, CountTypesStep, SpanTypesStep, FlagTypesStep,
     PhaseInit, PhaseStep, HandshakeInit, HandshakeStep, PTL DEF Spec
-----------------------------------------------------------------------------
(***************************************************************************)
(* Acknowledgements.                                                       *)
(***************************************************************************)
LEMMA AckInit == Init => AckInv
BY DEF Init, CoreInit, AckInv, States

\* A sample latches nothing but a span of legal length: one that is too long
\* has overrun, and an overrun span is not latched.
LEMMA LatchedSpan ==
  ASSUME SpanTypes, AckSample, ack_detected'
  PROVE  ack_detected \/ Acknowledges
<1> USE SamplesAssumption
<1>1. CASE SampleElevated
  BY <1>1 DEF SampleElevated
<1>2. CASE SampleDropout
  <2>1. CASE ack_low_run + 1 > DropoutSamples
    <3>1. ~ack_overrun /\ ack_high_count >= MinSamples
      BY <1>2, <2>1 DEF SampleDropout
    <3> QED
      BY <3>1 DEF SpanTypes, Acknowledges
  <2>2. CASE ~(ack_low_run + 1 > DropoutSamples)
    BY <1>2, <2>2 DEF SampleDropout
  <2> QED
    BY <2>1, <2>2
<1> QED
  BY <1>1, <1>2 DEF AckSample

\* Every step remembers an acknowledgement as long as it can still be reported,
\* and no longer.
LEMMA AckStep ==
  ASSUME AckInv, SpanTypes, CountTypes, PhaseInv, [Next]_vars
  PROVE  AckInv'
<1> USE DEF AckInv, States
<1>1. CASE UNCHANGED vars
  BY <1>1 DEF vars, coreVars, ack, history
<1>2. CASE EnterServiceMode \/ ExitServiceMode \/ Transmit
  <2>1. UNCHANGED <<ack_detected, acked, state, result>>
    BY <1>2 DEF EnterServiceMode, Enter, ExitServiceMode, Exit, Transmit,
                PickUp, OnPacketComplete, ack, history
  <2> QED
    BY <2>1
<1>3. CASE Begin
  BY <1>3 DEF Begin, BeginOperation
<1>4. CASE Sample
  <2>1. AckSample /\ acked' = (acked \/ Acknowledges)
    BY <1>4 DEF Sample
  <2>2. UNCHANGED <<state, result>>
    BY <2>1 DEF AckSample
  <2>3. ack_detected' => ack_detected \/ Acknowledges
    BY <2>1, LatchedSpan
  <2> QED
    BY <2>1, <2>2, <2>3
<1>5. CASE RunStep
  <2>1. acked' = (acked /\ ~AttemptOver)
    BY <1>5 DEF RunStep
  <2>2. CASE StartCommand
    BY <2>2 DEF StartCommand, EnterPhase
  <2>3. CASE SeeAck
    BY <2>1, <2>3 DEF SeeAck, EnterPhase, Ready, AttemptOver, ack
  <2>4. CASE RetryOrFail
    BY <2>4 DEF RetryOrFail, ScanOver, EnterPhase
  <2>5. CASE StepCallback
    BY <2>5 DEF StepCallback
  <2>6. CASE SendLeadingReset \/ SeeNoAck \/ SendCommand \/ StartRecovery
             \/ SendRecovery \/ SendTrailingReset
    <3>1. UNCHANGED <<ack_detected, result>>
      BY <2>6 DEF SendLeadingReset, SeeNoAck, SendCommand, StartRecovery,
                  SendRecovery, SendTrailingReset, ack
    <3>2. \/ state' = state
          \/ state = "COMMAND" /\ state' = "RECOVERY"
      BY <2>6 DEF SendLeadingReset, SeeNoAck, SendCommand, StartRecovery,
                  SendRecovery, SendTrailingReset, EnterPhase
    <3>3. ~AttemptOver
      <4>1. CASE state \in {"COMMAND", "RECOVERY"}
        <5>1. /\ operation.command_repeat \in Nat /\ packet_count \in Nat
              /\ operation.recovery_count \in Nat
          BY <4>1, OperationCounts DEF PhaseInv
        <5> QED
          BY <2>6, <4>1, <5>1
          DEF SendLeadingReset, SeeNoAck, SendCommand, StartRecovery,
              SendRecovery, SendTrailingReset, AttemptOver, ScanOver, Ready
      <4>2. CASE state \notin {"COMMAND", "RECOVERY"}
        BY <4>2 DEF AttemptOver, ScanOver
      <4> QED
        BY <4>1, <4>2
    <3> QED
      BY <2>1, <3>1, <3>2, <3>3
  <2> QED
    BY <1>5, <2>2, <2>3, <2>4, <2>5, <2>6 DEF RunStep, Run
<1> QED
  BY <1>1, <1>2, <1>3, <1>4, <1>5 DEF Next

\* Success needs an acknowledgement of legal length in the attempt it ends with
\* (ack_sample, begin_operation, _run_command_state and _retry_or_fail).
THEOREM ServiceSuccessWasAcked == Spec => SuccessWasAcked
<1>1. AckInv => (state # "IDLE" /\ state' = "IDLE" /\ result = "SUCCESS" => acked)
  BY DEF AckInv, States
<1> QED
  BY <1>1, AckInit, AckStep, TypesInit, CountTypesStep, SpanTypesStep,
     PhaseInit, PhaseStep, HandshakeInit, HandshakeStep, PTL
  DEF Spec, SuccessWasAcked
=============================================================================
