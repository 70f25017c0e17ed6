------------------------ MODULE DccServiceModeCommon ------------------------
(***************************************************************************)
(* The service-mode core, src/src/dcc/dcc_service_mode_common.c: one       *)
(* operation at a time goes through reset packets, command packets, on a   *)
(* write recovery packets, and trailing reset packets, while the timer ISR *)
(* looks for the decoder's acknowledgement current pulse.                  *)
(*                                                                         *)
(* DccServiceModeCommon_run() reads ack_detected and acts on it in two     *)
(* steps, because the ISR can latch an acknowledgement between them.       *)
(***************************************************************************)
EXTENDS Integers

CONSTANTS
  ResetPreCount,    \* DCC_SERVICE_MODE_RESET_PRE_COUNT
  ResetPostCount,   \* DCC_SERVICE_MODE_RESET_POST_COUNT
  BlankPackets,     \* DCC_SERVICE_MODE_ACK_BLANK_PACKETS
  Retries,          \* USER_DEFINED_DCC_SERVICE_MODE_RETRIES
  MinSamples,       \* DCC_ACK_MIN_SAMPLES
  MaxSamples,       \* DCC_ACK_MAX_SAMPLES
  DropoutSamples,   \* DCC_ACK_DROPOUT_SAMPLES
  Operations        \* the operations the primitives begin

Operation == [is_write : BOOLEAN, command_repeat : 1..255,
              recovery_count : 0..255]

ASSUME CountsAssumption ==
  /\ ResetPreCount \in 1..255 /\ ResetPostCount \in 1..255
  /\ BlankPackets \in 0..255 /\ Retries \in 0..255
ASSUME SamplesAssumption ==
  /\ MinSamples \in Nat /\ MaxSamples \in Nat /\ DropoutSamples \in Nat
  /\ MinSamples <= MaxSamples
ASSUME OperationsAssumption == Operations \subseteq Operation

VARIABLES
  state, in_service_mode, result, operation,
  packet_count, retry_count,
  ack_detected, ack_high_count, ack_low_run, ack_overrun, ack_window_open,
  packet_complete_flag, first_packet_sent,
  at,        \* "acting": the run has read ack_detected and found it false
  loaded,    \* what the encoder's buffer holds
  sending    \* the encoder has picked it up

progress  == <<packet_count, retry_count>>
span      == <<ack_high_count, ack_low_run, ack_overrun>>
ack       == <<ack_detected, span, ack_window_open>>
handshake == <<packet_complete_flag, first_packet_sent>>
encoder   == <<loaded, sending>>
coreVars  == <<state, in_service_mode, result, operation, progress, ack,
               handshake, at, encoder>>

States  == {"IDLE", "RESET_PRE", "COMMAND", "RECOVERY", "RESET_POST"}
Results == {"SUCCESS", "NO_ACK"}

NoOperation == [is_write |-> FALSE, command_repeat |-> 0, recovery_count |-> 0]

CoreInit ==
  /\ state = "IDLE" /\ in_service_mode = FALSE
  /\ result = "NO_ACK" /\ operation = NoOperation
  /\ packet_count = 0 /\ retry_count = 0
  /\ ack_detected = FALSE /\ ack_high_count = 0 /\ ack_low_run = 0
  /\ ack_overrun = FALSE /\ ack_window_open = FALSE
  /\ packet_complete_flag = FALSE /\ first_packet_sent = FALSE
  /\ at = "start" /\ loaded = "none" /\ sending = FALSE
-----------------------------------------------------------------------------
(***************************************************************************)
(* Entering, leaving and beginning an operation.                           *)
(***************************************************************************)
Enter ==
  /\ in_service_mode' = TRUE
  /\ UNCHANGED <<state, result, operation, progress, ack, handshake, at>>

\* Ignored while an operation is in progress.
Exit ==
  /\ in_service_mode' = (in_service_mode /\ state # "IDLE")
  /\ UNCHANGED <<state, result, operation, progress, ack, handshake, at>>

BeginOperation(op) ==
  /\ in_service_mode /\ state = "IDLE" /\ at = "start"
  /\ state' = "RESET_PRE"
  /\ operation' = op
  /\ result' = "NO_ACK"
  /\ packet_count' = 0 /\ retry_count' = 0
  /\ ack_detected' = FALSE /\ ack_high_count' = 0 /\ ack_low_run' = 0
  /\ ack_overrun' = FALSE /\ ack_window_open' = FALSE
  /\ packet_complete_flag' = FALSE /\ first_packet_sent' = FALSE
  /\ UNCHANGED <<in_service_mode, at, encoder>>
-----------------------------------------------------------------------------
(***************************************************************************)
(* DccServiceModeCommon_run().                                             *)
(***************************************************************************)
IsEncoderIdle == ~sending

Ready == /\ at = "start" /\ in_service_mode
         /\ first_packet_sent => packet_complete_flag
         /\ IsEncoderIdle

\* The packet sent last is done with; nothing is loaded in this step.
Consume ==
  /\ packet_complete_flag' = (packet_complete_flag /\ ~first_packet_sent)
  /\ first_packet_sent' = FALSE
  /\ UNCHANGED encoder

\* Mutant: the run does not note that a packet is on its way.
Load_NotNoted(packet) ==
  /\ loaded' = packet
  /\ packet_count' = packet_count + 1
  /\ UNCHANGED <<sending, retry_count, handshake>>

Load(packet) ==
  /\ loaded' = packet
  /\ packet_complete_flag' = (packet_complete_flag /\ ~first_packet_sent)
  /\ first_packet_sent' = TRUE
  /\ packet_count' = packet_count + 1
  /\ UNCHANGED <<sending, retry_count>>

\* Mutant: the packet count runs on from phase to phase.
EnterPhase_KeepsCount(phase) == state' = phase /\ UNCHANGED packet_count

EnterPhase(phase) == state' = phase /\ packet_count' = 0

SendLeadingReset ==
  /\ Ready /\ state = "RESET_PRE" /\ packet_count < ResetPreCount
  /\ Load("reset")
  /\ UNCHANGED <<state, in_service_mode, result, operation, ack, at>>

\* Mutant: an acknowledgement latched before the attempt is not forgotten.
StartCommand_KeepsAck ==
  /\ Ready /\ state = "RESET_PRE" /\ packet_count >= ResetPreCount
  /\ EnterPhase("COMMAND")
  /\ ack_high_count' = 0 /\ ack_overrun' = FALSE
  /\ Consume
  /\ UNCHANGED <<in_service_mode, result, operation, retry_count, ack_low_run,
                 ack_detected, ack_window_open, at>>

\* The acknowledgement scan restarts, but not its blanking.
StartCommand ==
  /\ Ready /\ state = "RESET_PRE" /\ packet_count >= ResetPreCount
  /\ EnterPhase("COMMAND")
  /\ ack_detected' = FALSE /\ ack_high_count' = 0 /\ ack_overrun' = FALSE
  /\ Consume
  /\ UNCHANGED <<in_service_mode, result, operation, retry_count, ack_low_run,
                 ack_window_open, at>>

SeeAck ==
  /\ Ready /\ state \in {"COMMAND", "RECOVERY"} /\ ack_detected
  /\ result' = "SUCCESS"
  /\ EnterPhase("RESET_POST")
  /\ Consume
  /\ UNCHANGED <<in_service_mode, operation, retry_count, ack, at>>

SeeNoAck ==
  /\ Ready /\ state \in {"COMMAND", "RECOVERY"} /\ ~ack_detected
  /\ at' = "acting"
  /\ Consume
  /\ UNCHANGED <<state, in_service_mode, result, operation, progress, ack>>

SendCommand ==
  /\ at = "acting" /\ state = "COMMAND"
  /\ packet_count < operation.command_repeat
  /\ Load("command")
  /\ ack_window_open' = (ack_window_open \/ packet_count + 1 > BlankPackets)
  /\ at' = "start"
  /\ UNCHANGED <<state, in_service_mode, result, operation, ack_detected, span>>

StartRecovery ==
  /\ at = "acting" /\ state = "COMMAND" /\ operation.is_write
  /\ packet_count >= operation.command_repeat
  /\ EnterPhase("RECOVERY")
  /\ at' = "start"
  /\ UNCHANGED <<in_service_mode, result, operation, retry_count, ack,
                 handshake, encoder>>

SendRecovery ==
  /\ at = "acting" /\ state = "RECOVERY"
  /\ packet_count < operation.recovery_count
  /\ Load("reset")
  /\ at' = "start"
  /\ UNCHANGED <<state, in_service_mode, result, operation, ack>>

\* A verify has sent its commands, or a write its recovery packets.
ScanOver ==
  \/ /\ state = "COMMAND" /\ ~operation.is_write
     /\ packet_count >= operation.command_repeat
  \/ /\ state = "RECOVERY"
     /\ packet_count >= operation.recovery_count

\* Mutant: a retry goes straight back to the command packets.
RetryOrFail_NoResets ==
  /\ at = "acting" /\ ScanOver
  /\ IF retry_count < Retries
     THEN EnterPhase("COMMAND") /\ retry_count' = retry_count + 1
                                /\ UNCHANGED result
     ELSE EnterPhase("RESET_POST") /\ result' = "NO_ACK"
                                   /\ UNCHANGED retry_count
  /\ at' = "start"
  /\ UNCHANGED <<in_service_mode, operation, ack, handshake, encoder>>

\* Mutant: retries are not counted.
RetryOrFail_Endless ==
  /\ at = "acting" /\ ScanOver
  /\ EnterPhase("RESET_PRE")
  /\ at' = "start"
  /\ UNCHANGED <<in_service_mode, result, operation, retry_count, ack,
                 handshake, encoder>>

RetryOrFail ==
  /\ at = "acting" /\ ScanOver
  /\ IF retry_count < Retries
     THEN EnterPhase("RESET_PRE") /\ retry_count' = retry_count + 1
                                  /\ UNCHANGED result
     ELSE EnterPhase("RESET_POST") /\ result' = "NO_ACK"
                                   /\ UNCHANGED retry_count
  /\ at' = "start"
  /\ UNCHANGED <<in_service_mode, operation, ack, handshake, encoder>>

SendTrailingReset ==
  /\ Ready /\ state = "RESET_POST" /\ packet_count < ResetPostCount
  /\ Load("reset")
  /\ UNCHANGED <<state, in_service_mode, result, operation, ack, at>>

\* The core is idle again when the step callback is called with the result.
StepCallback ==
  /\ Ready /\ state = "RESET_POST" /\ packet_count >= ResetPostCount
  /\ state' = "IDLE"
  /\ Consume
  /\ UNCHANGED <<in_service_mode, result, operation, progress, ack, at>>

Run ==
  \/ SendLeadingReset \/ StartCommand
  \/ SeeAck \/ SeeNoAck
  \/ SendCommand \/ StartRecovery \/ SendRecovery \/ RetryOrFail
  \/ SendTrailingReset \/ StepCallback
-----------------------------------------------------------------------------
(***************************************************************************)
(* The timer ISR: DccServiceModeCommon_ack_sample() and the encoder's      *)
(* on_packet_complete hook.                                                *)
(***************************************************************************)
Scanning == /\ ~ack_detected
            /\ state \in {"COMMAND", "RECOVERY"}
            /\ ack_window_open

\* Mutant: a span one sample too long is not an over-current.
SampleElevated_OffByOne ==
  /\ Scanning
  /\ ack_low_run' = 0
  /\ IF ack_overrun
     THEN UNCHANGED <<ack_high_count, ack_overrun>>
     ELSE /\ ack_high_count' = ack_high_count + ack_low_run + 1
          /\ ack_overrun' = (ack_high_count' > MaxSamples + 1)
  /\ UNCHANGED ack_detected

\* Dropouts inside a span count towards its length.
SampleElevated ==
  /\ Scanning
  /\ ack_low_run' = 0
  /\ IF ack_overrun
     THEN UNCHANGED <<ack_high_count, ack_overrun>>
     ELSE /\ ack_high_count' = ack_high_count + ack_low_run + 1
          /\ ack_overrun' = (ack_high_count' > MaxSamples)
  /\ UNCHANGED ack_detected

\* Mutant: low samples are counted past the tolerance.
SampleDropout_NeverCloses ==
  /\ Scanning /\ ack_high_count > 0
  /\ ack_low_run' = ack_low_run + 1
  /\ UNCHANGED <<ack_detected, ack_high_count, ack_overrun>>

SampleDropout ==
  /\ Scanning /\ ack_high_count > 0
  /\ IF ack_low_run + 1 > DropoutSamples
     THEN /\ ack_detected' = (~ack_overrun /\ ack_high_count >= MinSamples)
          /\ ack_high_count' = 0 /\ ack_low_run' = 0 /\ ack_overrun' = FALSE
     ELSE /\ ack_low_run' = ack_low_run + 1
          /\ UNCHANGED <<ack_detected, ack_high_count, ack_overrun>>

AckSample ==
  /\ SampleElevated \/ SampleDropout
  /\ UNCHANGED <<state, in_service_mode, result, operation, progress,
                 ack_window_open, handshake, at, encoder>>

PickUp ==
  /\ loaded # "none" /\ ~sending
  /\ sending' = TRUE
  /\ UNCHANGED <<state, in_service_mode, result, operation, progress, ack,
                 handshake, at, loaded>>

OnPacketComplete ==
  /\ sending
  /\ sending' = FALSE /\ loaded' = "none"
  /\ packet_complete_flag' = TRUE
  /\ UNCHANGED <<state, in_service_mode, result, operation, progress, ack,
                 first_packet_sent, at>>

CoreTypeOK ==
  /\ state \in States /\ in_service_mode \in BOOLEAN
  /\ result \in Results /\ operation \in Operations \cup {NoOperation}
  /\ packet_count \in 0..255 /\ retry_count \in 0..Retries
  /\ ack_detected \in BOOLEAN /\ ack_overrun \in BOOLEAN
  /\ ack_high_count \in 0..MaxSamples + DropoutSamples + 1
  /\ ack_low_run \in 0..DropoutSamples /\ ack_window_open \in BOOLEAN
  /\ packet_complete_flag \in BOOLEAN /\ first_packet_sent \in BOOLEAN
  /\ at \in {"start", "acting"}
  /\ loaded \in {"none", "reset", "command"} /\ sending \in BOOLEAN
=============================================================================
