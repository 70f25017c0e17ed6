---------------------------- MODULE DccMainTrack ----------------------------
(***************************************************************************)
(* The main track: DccScheduler_run() in the main loop, the bit encoder in *)
(* the 58 microsecond timer ISR, the application that inserts commands and *)
(* switches the track on and off, and the timer both tracks share          *)
(* (src/src/dcc/dcc_config.c).                                             *)
(*                                                                         *)
(* A run is split where a tick may fall between two of its accesses to     *)
(* data the ISR shares: reading the completion flag, clearing it, asking   *)
(* whether the encoder is idle, storing the packet and publishing it.  What *)
(* touches only the main loop's own data is done in the step that publishes.*)
(***************************************************************************)
EXTENDS Integers, Sequences

CONSTANTS
  SlotCount, Commands, HookCommands, Removable, PromptSends, ColdCycles,
  ColdMaxCycles, UnsentLimit,           \* as in DccScheduler
  ByteBits, CutoutWired,                \* as in DccBitEncoder
  MaxRefCount,   \* bound: the reference count goes no higher
  Balanced       \* the application switches on only what is off, and off only
                 \* what is on

VARIABLES
  slots, refresh_index, refresh_cold_index, refresh_last_was_overdue,
  last_addr_byte, first_packet_sent, packet_complete_flag, charging,
  charging_one_shot,
  state, packet_loaded, running, half_bit, tick_counter, current_bit_is_one,
  toggle_next, railcom_cutout_arm_pending, preamble_count, byte_index,
  bit_index, active_packet, copying,
  at,                        \* where DccScheduler_run() has got to
  track_power,
  service_on,                \* the service track has acquired the timer
  _shared_timer_ref_count,
  timer_running

\* The packet a first byte stands for; its later bytes are cut to the bits the
\* waveform module already shows to go out unchanged.
PacketOf(byte) == [first |-> byte, data |-> <<byte % 2^ByteBits>>,
                   preamble_bits |-> 1]

FirstBytes == {0} \cup {cmd.address : cmd \in Commands}

Enc == INSTANCE DccBitEncoder
         WITH Packets <- {PacketOf(byte) : byte \in FirstBytes}

\* The scheduler, as seen from outside: a completion flag that has been read
\* and cleared still counts as set until the packet it asked for is published.
Sched == INSTANCE DccScheduler
  WITH packet_complete_flag <-
         packet_complete_flag \/ (at \in {"cleared", "copying"} /\ first_packet_sent),
       buffered <- packet_loaded,
       track <- active_packet.first

\* As DccScheduler and DccBitEncoder assume; the reference count is a byte.
ASSUME SchedulerAssumption ==
  /\ SlotCount \in Nat \ {0}
  /\ Commands \subseteq Sched!Command /\ HookCommands \subseteq Commands
  /\ PromptSends \in 0..255
  /\ ColdCycles \in Nat /\ ColdMaxCycles \in Nat /\ UnsentLimit \in Nat
  /\ ColdCycles > 0 => PromptSends >= 1 /\ ColdMaxCycles >= ColdCycles
ASSUME EncoderAssumption ==
  ByteBits \in Nat \ {0} /\ CutoutWired \in BOOLEAN
ASSUME RefCountAssumption == MaxRefCount \in 1..255

cursors  == <<refresh_index, refresh_cold_index, refresh_last_was_overdue>>
schedOwn == <<slots, cursors, last_addr_byte, first_packet_sent, charging,
              charging_one_shot>>
encVars  == <<state, packet_loaded, running, half_bit, tick_counter,
              current_bit_is_one, toggle_next, railcom_cutout_arm_pending,
              preamble_count, byte_index, bit_index, active_packet, copying>>
power    == <<track_power, service_on, _shared_timer_ref_count, timer_running>>
vars     == <<schedOwn, packet_complete_flag, encVars, at, power>>

Init ==
  /\ Enc!EncInit
  /\ packet_complete_flag = FALSE
  /\ at = "start"
  /\ Sched!Init
  /\ track_power = FALSE /\ service_on = FALSE
  /\ _shared_timer_ref_count = 0 /\ timer_running = FALSE
-----------------------------------------------------------------------------
(***************************************************************************)
(* DccScheduler_run() in the main loop.                                    *)
(***************************************************************************)
\* Mutant: the run goes by the idle check alone.
RunChecksFlag_NoWait ==
  /\ at = "start" /\ charging = Sched!NoSlot
  /\ at' = "cleared"
  /\ UNCHANGED <<schedOwn, packet_complete_flag, encVars, power>>

RunChecksFlag ==
  /\ at = "start" /\ charging = Sched!NoSlot
  /\ \/ first_packet_sent /\ packet_complete_flag /\ at' = "seen"
     \/ ~first_packet_sent /\ at' = "cleared"
  /\ UNCHANGED <<schedOwn, packet_complete_flag, encVars, power>>

RunClearsFlag ==
  /\ at = "seen"
  /\ packet_complete_flag' = FALSE
  /\ at' = "cleared"
  /\ UNCHANGED <<schedOwn, encVars, power>>

\* If the encoder is not idle the run returns, with the flag cleared.
RunAsksIdle ==
  /\ at = "cleared"
  /\ IF Enc!IsIdle THEN Enc!LoadBegin /\ at' = "copying"
                   ELSE UNCHANGED encVars /\ at' = "start"
  /\ UNCHANGED <<schedOwn, packet_complete_flag, power>>

\* The handler's choice (SendOneShot, SendRefresh or SendIdle) takes effect
\* with the packet's publication.
RunPublishes ==
  /\ at = "copying"
  /\ LET pool == Sched!Aged(slots)
     IN  /\ slots' = pool
         /\ \E byte \in FirstBytes :
              /\ Enc!LoadEnd(PacketOf(byte))
              /\ \/ /\ Sched!OneShots(pool) # {}
                    /\ \E i \in Sched!Slots :
                         /\ Sched!BestOneShot(i, pool)
                         /\ Sched!LoadSlot(i, pool[i].address, TRUE)
                    /\ UNCHANGED cursors
                 \/ /\ Sched!OneShots(pool) = {}
                    /\ \E i \in Sched!Slots :
                         /\ Sched!SelectRefresh(i, pool)
                         /\ Sched!LoadSlot(i, pool[i].address, FALSE)
                 \/ /\ Sched!OneShots(pool) = {}
                    /\ Sched!NoRefresh(pool)
                    /\ Sched!LoadIdle
  /\ first_packet_sent' = TRUE
  /\ at' = "start"
  /\ UNCHANGED <<packet_complete_flag, power>>

RunCharges ==
  /\ UNCHANGED <<packet_complete_flag, encVars, at, power>>
  /\ Sched!Charge

Run == RunChecksFlag \/ RunClearsFlag \/ RunAsksIdle \/ RunPublishes \/ RunCharges

\* The hook and the application run in the main loop too: never inside a run,
\* but for the hook's place in it.
Application ==
  /\ at = "start"
  /\ UNCHANGED <<packet_complete_flag, encVars, at, power>>
  /\ \/ Sched!AppInsert
     \/ \E a \in Removable : Sched!RemoveAddress(a)
     \/ Sched!Clear
     \/ Sched!HookInsert
-----------------------------------------------------------------------------
(***************************************************************************)
(* The timer ISR.                                                          *)
(***************************************************************************)
TimerIsr ==
  /\ timer_running
  /\ Enc!Tick
  /\ packet_complete_flag' = (packet_complete_flag \/ Enc!Completes)
  /\ UNCHANGED <<schedOwn, at, power>>
-----------------------------------------------------------------------------
(***************************************************************************)
(* Track power and the shared timer.                                       *)
(***************************************************************************)
\* Mutant: an acquire that does not start the timer is counted twice.
Acquire_CountsTwice ==
  /\ _shared_timer_ref_count < MaxRefCount
  /\ _shared_timer_ref_count' =
       _shared_timer_ref_count + (IF timer_running THEN 2 ELSE 1)
  /\ timer_running' = TRUE

_shared_timer_acquire ==
  /\ _shared_timer_ref_count < MaxRefCount
  /\ _shared_timer_ref_count' = _shared_timer_ref_count + 1
  /\ timer_running' = (timer_running \/ _shared_timer_ref_count = 0)

\* Mutant: the timer stops with the first release.
Release_StopsTimer ==
  /\ _shared_timer_ref_count' =
       IF _shared_timer_ref_count > 0 THEN _shared_timer_ref_count - 1 ELSE 0
  /\ timer_running' = FALSE

_shared_timer_release ==
  /\ _shared_timer_ref_count' =
       IF _shared_timer_ref_count > 0 THEN _shared_timer_ref_count - 1 ELSE 0
  /\ timer_running' = (timer_running /\ _shared_timer_ref_count > 1)

BetweenRuns == at = "start" /\ charging = Sched!NoSlot

PowerOn ==
  /\ BetweenRuns
  /\ Balanced => ~track_power
  /\ track_power' = TRUE
  /\ _shared_timer_acquire
  /\ Enc!Start
  /\ UNCHANGED <<schedOwn, packet_complete_flag, at, service_on>>

PowerOff ==
  /\ BetweenRuns
  /\ Balanced => track_power
  /\ Enc!Stop
  /\ _shared_timer_release
  /\ track_power' = FALSE
  /\ UNCHANGED <<schedOwn, packet_complete_flag, at, service_on>>

\* The service track's power_on and power_off, or its entering and leaving
\* service mode: they go through the same two wrappers.
ServiceOn ==
  /\ BetweenRuns
  /\ Balanced => ~service_on
  /\ service_on' = TRUE
  /\ _shared_timer_acquire
  /\ UNCHANGED <<schedOwn, packet_complete_flag, encVars, at, track_power>>

ServiceOff ==
  /\ BetweenRuns
  /\ Balanced => service_on
  /\ service_on' = FALSE
  /\ _shared_timer_release
  /\ UNCHANGED <<schedOwn, packet_complete_flag, encVars, at, track_power>>

Next == \/ Run \/ Application \/ TimerIsr
        \/ PowerOn \/ PowerOff \/ ServiceOn \/ ServiceOff

Spec     == Init /\ [][Next]_vars
FairSpec == Spec /\ WF_vars(Run) /\ WF_vars(TimerIsr)
-----------------------------------------------------------------------------
TypeOK ==
  /\ slots \in [Sched!Slots -> Sched!Slot]
  /\ refresh_index \in Sched!Slots /\ refresh_cold_index \in Sched!Slots
  /\ refresh_last_was_overdue \in BOOLEAN
  /\ last_addr_byte \in FirstBytes
  /\ first_packet_sent \in BOOLEAN /\ packet_complete_flag \in BOOLEAN
  /\ charging \in Sched!Slots \cup {Sched!NoSlot}
  /\ charging_one_shot \in BOOLEAN
  /\ Enc!EncTypeOK
  /\ at \in {"start", "seen", "cleared", "copying"}
  /\ track_power \in BOOLEAN /\ service_on \in BOOLEAN
  /\ _shared_timer_ref_count \in 0..MaxRefCount
  /\ timer_running \in BOOLEAN

\* The scheduler split over its interleavings with the ISR, with power
\* switched on and off at any time, behaves like the one whose run hands a
\* packet over in one step: no completion is lost between the flag and the
\* idle check, none is counted twice, no packet is overwritten in the buffer
\* and none is charged for that was not handed over.
ImplementsScheduler == Sched!Spec

\* The ISR never reads the packet while load_packet is storing it
\* (dcc_bit_encoder.c: the barriers around packet_loaded).
NoTornRead == copying => Enc!IsIdle /\ ~packet_loaded

\* The main loop and the ISR never end up waiting for each other: as long as
\* the track is powered, packet after packet is handed over.
PacketsKeepComing == []<>(copying \/ ~track_power)

\* The reference-counted timer wrappers: the timer both tracks share runs
\* exactly while a track needs it, so switching one off leaves the other's
\* signal alone.
TimerFollowsTracks == timer_running <=> track_power \/ service_on

\* What release's comment promises: a release stops the timer only for the last
\* track, "so the other channel keeps running", whatever the application
\* switches off, and how often.
OtherTrackKeepsRunning == track_power => timer_running
=============================================================================
