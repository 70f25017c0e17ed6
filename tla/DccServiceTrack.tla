-------------------------- MODULE DccServiceTrack ---------------------------
(***************************************************************************)
(* The service track: the core with the application layer that switches    *)
(* its signal (src/src/dcc/                                                *)
(* dcc_application_command_station_service_track.c) and the decoder on the *)
(* programming track, which draws current whenever it likes.               *)
(***************************************************************************)
EXTENDS DccServiceModeCommon

CONSTANT ExitsMidOperation   \* the application may leave service mode while
                             \* an operation is in progress

VARIABLES
  signal,     \* the encoder runs and the track is powered
  acked,      \* an acknowledgement was latched in this attempt
  resets,     \* reset packets handed over since the last command packet
  commands    \* command packets handed over in this attempt

history == <<acked, resets, commands>>
vars    == <<coreVars, signal, history>>

Init == CoreInit /\ signal = FALSE /\ acked = FALSE /\ resets = 0 /\ commands = 0

\* power, timer and encoder first, then the core.
EnterServiceMode ==
  /\ at = "start"
  /\ ExitsMidOperation \/ ~signal
  /\ Enter
  /\ signal' = TRUE
  /\ sending' = FALSE
  /\ UNCHANGED <<loaded, history>>

\* The core first, which may ignore it; the signal stops in any case, and the
\* packet in the encoder stays loaded.
ExitServiceMode ==
  /\ at = "start" /\ in_service_mode
  /\ ExitsMidOperation \/ state = "IDLE"
  /\ Exit
  /\ signal' = FALSE
  /\ sending' = FALSE
  /\ UNCHANGED <<loaded, history>>

Begin ==
  /\ \E op \in Operations : BeginOperation(op)
  /\ acked' = FALSE /\ resets' = 0 /\ commands' = 0
  /\ UNCHANGED signal

\* A packet was handed over in this step.
HandsOver == first_packet_sent' /\ packet_count' = packet_count + 1

\* The run finds no acknowledgement to an attempt and retries or fails.
AttemptOver == at = "acting" /\ ScanOver

\* resets is capped where no property looks any further.
MostResets == ResetPreCount + ResetPostCount

RunStep ==
  /\ Run
  /\ resets' = IF ~HandsOver THEN resets
               ELSE IF loaded' = "command" THEN 0
               ELSE IF resets < MostResets THEN resets + 1 ELSE resets
  /\ commands' = IF HandsOver
                 THEN IF loaded' = "command" THEN commands + 1 ELSE commands
                 ELSE IF AttemptOver THEN 0 ELSE commands
  /\ acked' = (acked /\ ~AttemptOver)
  /\ UNCHANGED signal

\* S-9.2.3: the span just closed is neither too short nor an over-current.
Acknowledges == ack_detected' /\ ack_high_count \in MinSamples..MaxSamples

Sample ==
  /\ AckSample
  /\ acked' = (acked \/ Acknowledges)
  /\ UNCHANGED <<signal, resets, commands>>

\* The encoder clocks a packet out only while it runs.
Transmit ==
  /\ signal
  /\ PickUp \/ OnPacketComplete
  /\ UNCHANGED <<signal, history>>

Next == \/ EnterServiceMode \/ ExitServiceMode \/ Begin \/ RunStep
        \/ Sample \/ Transmit

Spec == Init /\ [][Next]_vars

\* The main loop keeps polling, and the timer keeps clocking packets out while
\* the signal is on.
FairSpec == Spec /\ WF_vars(RunStep) /\ WF_vars(Transmit)
-----------------------------------------------------------------------------
TypeOK ==
  /\ CoreTypeOK
  /\ signal \in BOOLEAN /\ acked \in BOOLEAN
  /\ resets \in 0..MostResets /\ commands \in 0..255

\* The core never finds the encoder's buffer full or its own packet
\* overwritten: with an operation in progress a packet is in the buffer, or
\* its completion is waiting, or the next run is free to load one.
PacketHandshake ==
  /\ loaded # "none" => first_packet_sent /\ ~packet_complete_flag
  /\ first_packet_sent => (loaded # "none") # packet_complete_flag
  /\ state = "IDLE" => loaded = "none"

\* S-9.2.3: every attempt, the first and each retry, is led in by the reset
\* packets that put the decoder into service mode, whatever ended the attempt
\* before.
CommandAfterResets ==
  [][commands = 0 /\ commands' = 1 => resets >= ResetPreCount]_vars

\* A result is reported only when the trailing resets have gone out whole, so
\* the next operation, or the end of the session, cannot cut one short.
ReportAfterResets ==
  [][state # "IDLE" /\ state' = "IDLE" =>
       resets >= ResetPostCount /\ loaded = "none" /\ ~sending]_vars

\* Success is reported only for an acknowledgement of the right length in the
\* attempt the operation ended with: one left over from the operation before is
\* forgotten, and so is one the ISR latches for an attempt that the run has
\* already given up.
SuccessWasAcked ==
  [][state # "IDLE" /\ state' = "IDLE" /\ result = "SUCCESS" => acked]_vars

\* An operation, once begun, is reported.
OperationCompletes == state # "IDLE" ~> state = "IDLE"
=============================================================================
