----------------------------- MODULE DccRailcom -----------------------------
(***************************************************************************)
(* RailCom in the command station: the cutout sequence driven by the       *)
(* one-shot timer (dcc_railcom_cutout.c), the receiver the main loop runs  *)
(* (dcc_railcom_command_station.c), and the bridge that tells it whose     *)
(* cutout it was (dcc_config.c).                                           *)
(*                                                                         *)
(* Four actors: the 58 microsecond ISR ends packets and begins cutouts, the *)
(* one-shot ISR takes the cutout through its phases, the UART collects what *)
(* decoders answer, and the main loop loads packets, drains the UART and   *)
(* serves the application.  A run of the receiver and a cancel are split at *)
(* their accesses to what the ISRs share.                                  *)
(*                                                                         *)
(* A reply is the channel it came in and the address of the packet it      *)
(* answers; the bytes of one window are one reply, and a decoded datagram  *)
(* is that address.                                                        *)
(***************************************************************************)
EXTENDS Integers, Sequences

CONSTANTS
  Addresses,    \* addresses of packets on the track
  BufferDepth,  \* USER_DEFINED_DCC_RAILCOM_BUFFER_DEPTH
  MaxReads      \* DCC_RAILCOM_MAX_READS_PER_CUTOUT, in replies

ASSUME BufferDepthAssumption == BufferDepth \in Nat \ {0}
\* Room for the replies of one cutout; the code has room for those of two.
ASSUME MaxReadsAssumption    == MaxReads \in Nat /\ MaxReads >= 2

VARIABLES
  powered,           \* the main encoder is running
  sending,           \* a packet is loaded and not yet complete
  arm_pending,       \* railcom_cutout_arm_pending of the encoder
  loaded_address,    \* _main_railcom_loaded_address
  completed_address, \* _main_railcom_completed_address
  answering,         \* history: whose packet the last cutout follows
  state,             \* of the cutout
  timer,             \* the one-shot timer runs
  tristated,         \* the H-bridge is off
  uart_rx,           \* the UART accepts bytes
  uart,              \* replies received and not read
  heard,             \* channels heard in this cutout
  at,                \* where the main loop has got to
  cutout_address, cutout_pending,
  ch1, ch2,          \* the drain's local buffers
  buffer, buffer_head, buffer_tail, buffer_count,
  unread,            \* history: the datagrams the application has not read
  late,              \* history: a cutout began before the last was drained
  cancelled          \* history: the last cutout was cancelled

encVars  == <<powered, sending, arm_pending, loaded_address, answering>>
cutVars  == <<state, timer, tristated, uart_rx>>
uartVars == <<uart, heard>>
tag      == <<cutout_address, cutout_pending>>
ring     == <<buffer, buffer_head, buffer_tail, buffer_count, unread>>
drain    == <<ch1, ch2>>
past     == <<late, cancelled>>
vars     == <<encVars, completed_address, cutVars, uartVars, at, tag, drain,
              ring, past>>

Channels  == {"CH1", "CH2"}
Phases    == {"IDLE", "DELAY", "SETTLING", "CH1", "GAP", "CH2"}
InCutout  == {"SETTLING", "CH1", "GAP", "CH2"}   \* past T_CS
NoAddress == 0
Reply     == [channel : Channels, from : Addresses \cup {NoAddress}]

Draining   == at \in {"draining", "ch1", "ch2"}
Cancelling == at \in {"stopping", "restoring"}

Init ==
  /\ powered = FALSE /\ sending = FALSE /\ arm_pending = FALSE
  /\ loaded_address = NoAddress /\ completed_address = NoAddress
  /\ answering = NoAddress
  /\ state = "IDLE" /\ timer = FALSE /\ tristated = FALSE /\ uart_rx = FALSE
  /\ uart = <<>> /\ heard = {}
  /\ at = "start"
  /\ cutout_address = NoAddress /\ cutout_pending = FALSE
  /\ ch1 = <<>> /\ ch2 = <<>>
  /\ buffer = [i \in 0..BufferDepth - 1 |-> NoAddress]
  /\ buffer_head = 0 /\ buffer_tail = 0 /\ buffer_count = 0
  /\ unread = <<>> /\ late = FALSE /\ cancelled = FALSE
-----------------------------------------------------------------------------
(***************************************************************************)
(* The 58 microsecond ISR: the encoder.                                    *)
(***************************************************************************)
\* A packet lasts several milliseconds, a cutout less than half of one and a
\* cancel a few instructions: both are over when the next packet ends.
PacketEnds ==
  /\ powered /\ sending /\ ~arm_pending
  /\ state = "IDLE" /\ ~Cancelling
  /\ sending' = FALSE
  /\ arm_pending' = TRUE
  /\ completed_address' = loaded_address
  /\ answering' = loaded_address
  /\ UNCHANGED <<powered, loaded_address, cutVars, uartVars, at, tag, drain,
                 ring, past>>

\* The tick after it, whose toggle is the packet's last edge.
CutoutBegins ==
  /\ powered /\ arm_pending
  /\ arm_pending' = FALSE
  /\ state' = "DELAY" /\ timer' = TRUE
  /\ UNCHANGED <<powered, sending, loaded_address, completed_address, answering,
                 tristated, uart_rx, uartVars, at, tag, drain, ring, past>>
-----------------------------------------------------------------------------
(***************************************************************************)
(* The one-shot ISR.  The timer has expired, and runs again only if the    *)
(* phase entered starts it.  Its case for IDLE is not needed: the timer    *)
(* never runs then (BridgeFollowsState).                                   *)
(***************************************************************************)
\* The application flushes the UART in begin_railcom_cutout.
BridgeOff ==
  /\ state = "DELAY"
  /\ tristated' = TRUE
  /\ state' = "SETTLING"
  /\ uart' = <<>> /\ heard' = {}
  /\ late' = (cutout_pending \/ Draining)
  /\ cancelled' = FALSE
  /\ UNCHANGED <<timer, uart_rx, tag>>

WindowOpens(phase, window) ==
  /\ state = phase
  /\ uart_rx' = TRUE
  /\ state' = window
  /\ UNCHANGED <<timer, tristated, uartVars, tag, past>>

WindowCloses ==
  /\ state = "CH1"
  /\ uart_rx' = FALSE
  /\ state' = "GAP"
  /\ UNCHANGED <<timer, tristated, uartVars, tag, past>>

\* Mutant: the tag is the address of the packet dispatched last.
CutoutComplete_OneStage ==
  /\ state = "CH2"
  /\ uart_rx' = FALSE /\ tristated' = FALSE
  /\ state' = "IDLE" /\ timer' = FALSE
  /\ cutout_address' = loaded_address
  /\ cutout_pending' = TRUE
  /\ UNCHANGED <<uartVars, past>>

CutoutComplete ==
  /\ state = "CH2"
  /\ uart_rx' = FALSE /\ tristated' = FALSE
  /\ state' = "IDLE" /\ timer' = FALSE
  /\ cutout_address' = completed_address
  /\ cutout_pending' = TRUE
  /\ UNCHANGED <<uartVars, past>>

OneShotIsr ==
  /\ timer
  /\ \/ BridgeOff
     \/ WindowOpens("SETTLING", "CH1")
     \/ WindowCloses
     \/ WindowOpens("GAP", "CH2")
     \/ CutoutComplete
  /\ UNCHANGED <<encVars, completed_address, at, drain, ring>>

\* The UART (external): the decoder addressed answers in an open window.
Answer ==
  /\ uart_rx /\ state \in Channels \ heard
  /\ uart' = Append(uart, [channel |-> state, from |-> answering])
  /\ heard' = heard \cup {state}
  /\ UNCHANGED <<encVars, completed_address, cutVars, at, tag, drain, ring, past>>
-----------------------------------------------------------------------------
(***************************************************************************)
(* DccConfig_run in the main loop: the scheduler, then the receiver.       *)
(***************************************************************************)
\* The scheduler loads a packet only when the last one is complete
\* (DccMainTrack shows it); 0 is a packet that addresses no locomotive.
RunScheduler ==
  /\ at = "start"
  /\ \/ /\ ~sending
        /\ sending' = TRUE
        /\ loaded_address' \in Addresses \cup {NoAddress}
     \/ UNCHANGED <<sending, loaded_address>>
  /\ at' = "railcom"
  /\ UNCHANGED <<powered, arm_pending, completed_address, answering, cutVars,
                 uartVars, tag, drain, ring, past>>

RunRailcom ==
  /\ at = "railcom"
  /\ at' = IF cutout_pending THEN "draining" ELSE "start"
  /\ cutout_pending' = FALSE
  /\ ch1' = <<>> /\ ch2' = <<>>
  /\ UNCHANGED <<encVars, completed_address, cutVars, uartVars, cutout_address,
                 ring, past>>

Reads == Len(ch1) + Len(ch2)

Drain ==
  /\ at = "draining"
  /\ uart # <<>> /\ Reads < MaxReads
  /\ uart' = Tail(uart)
  /\ IF Head(uart).channel = "CH1"
     THEN ch1' = Append(ch1, Head(uart).from) /\ UNCHANGED ch2
     ELSE ch2' = Append(ch2, Head(uart).from) /\ UNCHANGED ch1
  /\ UNCHANGED <<encVars, completed_address, cutVars, heard, at, tag, ring, past>>

DrainEnds ==
  /\ at = "draining"
  /\ uart = <<>> \/ Reads = MaxReads
  /\ at' = "ch1"
  /\ UNCHANGED <<encVars, completed_address, cutVars, uartVars, tag, drain, ring,
                 past>>

After(i) == (i + 1) % BufferDepth

\* Mutant: the tail stays when the oldest datagram is overwritten.
_buffer_push_TailStays(datagram) ==
  /\ buffer' = [buffer EXCEPT ![buffer_head] = datagram]
  /\ buffer_head' = After(buffer_head)
  /\ buffer_count' = IF buffer_count < BufferDepth THEN buffer_count + 1
                     ELSE buffer_count
  /\ UNCHANGED buffer_tail

\* A full buffer loses its oldest datagram.
_buffer_push(datagram) ==
  /\ buffer' = [buffer EXCEPT ![buffer_head] = datagram]
  /\ buffer_head' = After(buffer_head)
  /\ \/ /\ buffer_count >= BufferDepth
        /\ buffer_tail' = After(buffer_tail)
        /\ UNCHANGED buffer_count
     \/ /\ buffer_count < BufferDepth
        /\ buffer_count' = buffer_count + 1
        /\ UNCHANGED buffer_tail

\* The last of the datagrams that fit.
Newest(seq) == IF Len(seq) > BufferDepth THEN Tail(seq) ELSE seq

\* Whether the bytes of a window decode to a datagram depends on the bytes.
_report_channel(replies) ==
  \/ /\ replies # <<>>
     /\ _buffer_push(replies[1])
     /\ unread' = Newest(Append(unread, replies[1]))
  \/ UNCHANGED ring

ReportCh1 ==
  /\ at = "ch1"
  /\ _report_channel(ch1)
  /\ ch1' = <<>>
  /\ at' = "ch2"
  /\ UNCHANGED <<encVars, completed_address, cutVars, uartVars, tag, ch2, past>>

\* Mutant: the flag is cleared when the cutout has been processed.
ReportCh2_ClearsPending ==
  /\ at = "ch2"
  /\ _report_channel(ch2)
  /\ ch2' = <<>>
  /\ at' = "start"
  /\ cutout_pending' = FALSE
  /\ UNCHANGED <<encVars, completed_address, cutVars, uartVars, cutout_address,
                 ch1, past>>

ReportCh2 ==
  /\ at = "ch2"
  /\ _report_channel(ch2)
  /\ ch2' = <<>>
  /\ at' = "start"
  /\ UNCHANGED <<encVars, completed_address, cutVars, uartVars, tag, ch1, past>>
-----------------------------------------------------------------------------
(***************************************************************************)
(* The application, between two runs.                                      *)
(***************************************************************************)
\* Switching on or off, also twice, abandons a packet under way, which stays
\* loaded, and an armed cutout; a cutout that has begun runs on.
EncoderStartOrStop(on) ==
  /\ at = "start"
  /\ powered' = on
  /\ arm_pending' = FALSE
  /\ UNCHANGED <<sending, loaded_address, answering, completed_address, cutVars,
                 uartVars, at, tag, drain, ring, past>>

\* Mutant: the tail does not wrap.
Read_NoWrap ==
  /\ at = "start" /\ buffer_count # 0
  /\ buffer_tail' = buffer_tail + 1
  /\ buffer_count' = buffer_count - 1
  /\ unread' = Tail(unread)
  /\ UNCHANGED <<encVars, completed_address, cutVars, uartVars, at, tag, drain,
                 buffer, buffer_head, past>>

Read ==
  /\ at = "start" /\ buffer_count # 0
  /\ buffer_tail' = After(buffer_tail)
  /\ buffer_count' = buffer_count - 1
  /\ unread' = Tail(unread)
  /\ UNCHANGED <<encVars, completed_address, cutVars, uartVars, at, tag, drain,
                 buffer, buffer_head, past>>

Cancel ==
  /\ at = "start" /\ state # "IDLE"
  /\ at' = "stopping"
  /\ UNCHANGED <<encVars, completed_address, cutVars, uartVars, tag, drain, ring,
                 past>>

\* Mutant: the timer runs on.
CancelStopsTimer_RunsOn ==
  /\ at = "stopping"
  /\ at' = "restoring"
  /\ UNCHANGED <<encVars, completed_address, cutVars, uartVars, tag, drain, ring,
                 past>>

CancelStopsTimer ==
  /\ at = "stopping"
  /\ timer' = FALSE
  /\ at' = "restoring"
  /\ UNCHANGED <<encVars, completed_address, state, tristated, uart_rx, uartVars,
                 tag, drain, ring, past>>

\* Mutant: the bridge is switched back on in the windows only.
CancelRestores_WindowsOnly ==
  /\ at = "restoring"
  /\ IF state \in Channels
     THEN uart_rx' = FALSE /\ tristated' = FALSE
     ELSE UNCHANGED <<uart_rx, tristated>>
  /\ state' = "IDLE"
  /\ cancelled' = (cancelled \/ state # "IDLE")
  /\ at' = "start"
  /\ UNCHANGED <<encVars, completed_address, timer, uartVars, tag, drain, ring,
                 late>>

CancelRestores ==
  /\ at = "restoring"
  /\ IF state \in InCutout
     THEN uart_rx' = FALSE /\ tristated' = FALSE
     ELSE UNCHANGED <<uart_rx, tristated>>
  /\ state' = "IDLE"
  /\ cancelled' = (cancelled \/ state # "IDLE")
  /\ at' = "start"
  /\ UNCHANGED <<encVars, completed_address, timer, uartVars, tag, drain, ring,
                 late>>
-----------------------------------------------------------------------------
MainLoop ==
  \/ RunScheduler \/ RunRailcom \/ Drain \/ DrainEnds \/ ReportCh1 \/ ReportCh2
  \/ CancelStopsTimer \/ CancelRestores

Application ==
  EncoderStartOrStop(TRUE) \/ EncoderStartOrStop(FALSE) \/ Read \/ Cancel

Next ==
  PacketEnds \/ CutoutBegins \/ OneShotIsr \/ Answer \/ MainLoop \/ Application

Spec == Init /\ [][Next]_vars

\* The one-shot timer expires once it runs, and the main loop runs for ever.
FairSpec == Spec /\ WF_vars(OneShotIsr) /\ WF_vars(MainLoop)
-----------------------------------------------------------------------------
TypeOK ==
  /\ powered \in BOOLEAN /\ sending \in BOOLEAN /\ arm_pending \in BOOLEAN
  /\ {loaded_address, completed_address, answering, cutout_address}
       \subseteq Addresses \cup {NoAddress}
  /\ state \in Phases
  /\ timer \in BOOLEAN /\ tristated \in BOOLEAN /\ uart_rx \in BOOLEAN
  /\ uart \in Seq(Reply) /\ heard \subseteq Channels
  /\ at \in {"start", "railcom", "draining", "ch1", "ch2", "stopping",
             "restoring"}
  /\ cutout_pending \in BOOLEAN
  /\ ch1 \in Seq(Addresses \cup {NoAddress}) /\ Len(ch1) <= MaxReads
  /\ ch2 \in Seq(Addresses \cup {NoAddress}) /\ Len(ch2) <= MaxReads
  /\ buffer \in [0..BufferDepth - 1 -> Addresses \cup {NoAddress}]
  /\ buffer_head \in 0..BufferDepth - 1
  /\ buffer_tail \in 0..BufferDepth - 1
  /\ buffer_count \in 0..BufferDepth
  /\ late \in BOOLEAN /\ cancelled \in BOOLEAN

\* The rails have power and the UART is deaf whenever no cutout is under way,
\* and the bridge is off throughout one; a cancel that races the one-shot
\* timer or finds the sequence in any phase leaves nothing behind
\* (dcc_railcom_cutout.c, cancel and timer_isr).
BridgeFollowsState ==
  /\ tristated <=> state \in InCutout
  /\ uart_rx <=> state \in Channels
  /\ (timer <=> state # "IDLE") \/ at = "restoring"

\* A reply is reported with the address of the packet it answers, however early
\* the main loop loads the next packet, provided it drains each cutout before
\* the next one begins (the two-stage capture of dcc_config.c:753-767).
RepliesTagged ==
  /\ Draining /\ ~late =>
       /\ \A i \in DOMAIN ch1 : ch1[i] = cutout_address
       /\ \A i \in DOMAIN ch2 : ch2[i] = cutout_address

\* Replies that lie in the UART after their cutout are going to be read: a
\* cutout that completes while the one before is being processed is not
\* forgotten (DccRailcomCommandStation_run clears the flag before it drains).
RepliesAnnounced ==
  uart # <<>> /\ state = "IDLE" /\ ~cancelled =>
    cutout_pending \/ at = "draining"

\* The buffer holds exactly the newest datagrams the application has not read,
\* oldest first, through every wrap and overwrite (_buffer_push and read).
RingIsQueue ==
  unread = [i \in 1..buffer_count |->
              buffer[(buffer_tail + i - 1) % BufferDepth]]

\* The track is never left without power: once the bridge is off it is on
\* again, whether the sequence completes or is cancelled.
BridgeComesBack == tristated ~> ~tristated
=============================================================================
